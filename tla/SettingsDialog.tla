--------------------------- MODULE SettingsDialog ---------------------------
(***************************************************************************)
(* The settings dialog (src/frontend/main.ts, settings-controller.ts,      *)
(* settings-runtime.ts) next to a session: every change is previewed on    *)
(* the session at once, cancelling restores what was there before, saving  *)
(* stores the draft in D1 (settings-store.ts).  The dialog can be opened   *)
(* before the session is, and cancelled and opened again while a save is   *)
(* under way.                                                              *)
(*                                                                         *)
(* Of the settings the model keeps the one that the session depends on,    *)
(* autoReconnectEnabled; the others take the same way.  The row in D1 is   *)
(* read once, before there is a session.                                   *)
(***************************************************************************)
EXTENDS BrowserSession

VARIABLES
  saved,    \* appSettings
  draft,    \* draft of the open dialog
  sending,  \* the draft that is being saved
  unheard   \* a save ended while connectTo was under way

settings == <<saved, draft, sending, unheard>>

None == "none"

\* autoReconnectEnabled
Policy == {"on", "off"}

On(policy) == policy = "on"

SettingsTypeOK ==
  /\ TypeOK
  /\ saved \in Policy
  /\ draft \in Policy \cup {None} /\ sending \in Policy \cup {None}
  /\ unheard \in BOOLEAN

\* loadApplicationSettings has run, or has failed and left the defaults;
\* connectTo hands them to its client.
Init ==
  /\ SessionInit
  /\ saved \in Policy
  /\ enabled = On(saved)
  /\ draft = None /\ sending = None
  /\ unheard = FALSE

-----------------------------------------------------------------------------
\* Operators with a Mut_ prefix are faulty variants of the definition that
\* follows them; they serve to check that the properties notice the fault.

OpenSettings ==
  /\ Quiet /\ draft = None
  /\ draft' = saved
  /\ UNCHANGED <<vars, saved, sending, unheard>>

\* update and restoreDefaults: preview the draft.
Change(policy) ==
  /\ draft # None
  /\ draft' = policy
  /\ Applies(On(policy))
  /\ UNCHANGED <<saved, sending, unheard>>

Mut_CancelSettings ==
  /\ Quiet /\ draft # None
  /\ draft' = None
  /\ UNCHANGED <<vars, saved, sending, unheard>>

\* cancel: preview the snapshot, which is appSettings.
CancelSettings ==
  /\ draft # None
  /\ draft' = None
  /\ Applies(On(saved))
  /\ UNCHANGED <<saved, sending, unheard>>

\* The button is disabled until the answer, whatever dialog it is in.
SaveSettings ==
  /\ Quiet /\ draft # None /\ sending = None
  /\ sending' = draft
  /\ UNCHANGED <<vars, saved, draft, unheard>>

\* D1 has the draft: previewed, kept, and the dialog that is open now is closed.
SettingsSaved ==
  /\ sending # None
  /\ saved' = sending
  /\ Applies(On(sending))
  /\ draft' = None /\ sending' = None
  /\ unheard' = (unheard \/ flow["main"] # Idle)

\* The request fails, and the dialog stays as it is.
SaveFails ==
  /\ Quiet /\ sending # None
  /\ sending' = None
  /\ UNCHANGED <<vars, saved, draft, unheard>>

SettingsNext ==
  \/ OpenSettings
  \/ \E policy \in Policy : Change(policy)
  \/ CancelSettings
  \/ SaveSettings
  \/ SettingsSaved
  \/ SaveFails

Next ==
  \/ (SessionNext /\ UNCHANGED settings)
  \/ SettingsNext

Spec == Init /\ [][Next]_<<vars, settings>> /\ Fairness

-----------------------------------------------------------------------------
\* Safety: once no dialog is open the session reconnects as the settings say:
\* a cancelled draft has left nothing behind, not even when an earlier save
\* ends after it, unless a save has ended while connectTo was under way.
PolicySettles ==
  screen.active /\ draft = None /\ ~unheard => enabled = On(saved)

\* Safety, as src/agent/question.md:575 states it: what is set applies to the
\* reconnections of the session at once.  The code does not keep it: connectTo
\* gives its client the settings it has at the start, and preview reaches the
\* client only when connectTo is over.
PolicyFollows ==
  screen.active /\ draft = None => enabled = On(saved)
=============================================================================
