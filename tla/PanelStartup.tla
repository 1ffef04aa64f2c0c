--------------------------- MODULE PanelStartup ---------------------------
(***************************************************************************)
(* The start of the panel in several tabs (initializeDatabase in           *)
(* src/frontend/main.ts, runBootstrap in bootstrap-runner.ts) over the     *)
(* bootstrap of the Worker: each tab reads the status, posts steps until   *)
(* the database is ready and opens the panel, or shows the error with a    *)
(* button to try again.  The rest of the API is closed until then          *)
(* (requireDatabaseReady in src/worker/index.ts, db-ready-cache.ts).       *)
(*                                                                         *)
(* A tab has one request under way at a time: the step of a worker is the  *)
(* request of the tab of that name, and a request that gets no answer      *)
(* counts as one of the faults.  A tab is not reloaded.                    *)
(***************************************************************************)
EXTENDS D1Bootstrap

VARIABLES
  tab,    \* where the start of each tab is
  ready   \* the isolate remembers that the database is ready

tabVars == <<tab, ready>>

allVars == <<vars, tabVars>>

Waiting == {"asking", "creating", "stepping", "running", "retrying"}

Settled == {"failed", "open"}

StartupTypeOK ==
  /\ TypeOK
  /\ tab \in [Worker -> {"away"} \cup Waiting \cup Settled]
  /\ ready \in BOOLEAN

Init ==
  /\ DatabaseInit
  /\ tab = [w \in Worker |-> "away"]
  /\ ready = FALSE

Goes(w, state) == tab' = [tab EXCEPT ![w] = state] /\ UNCHANGED ready

-----------------------------------------------------------------------------
\* refreshSession or the login form, with a valid session.
Enter(w) ==
  /\ tab[w] = "away"
  /\ Goes(w, "asking")
  /\ UNCHANGED vars

\* The request finds no schema version and is about to create the schema.
FindsNoSchema(w) ==
  /\ tab[w] \in {"asking", "retrying"} /\ row = NoRow
  /\ Goes(w, "creating")
  /\ UNCHANGED vars

Creates(w) ==
  /\ tab[w] = "creating"
  /\ CreateSchema
  /\ Goes(w, "asking")

Mut_Shows(w) ==
  Goes(w, IF row.status = "complete" THEN "open" ELSE "stepping")

\* What runBootstrap does with a status: go on, return or throw.
Shows(w) ==
  Goes(w, CASE row.status = "complete" -> "open"
            [] row.status = "failed"   -> "failed"
            [] OTHER                   -> "stepping")

StatusArrives(w) ==
  /\ tab[w] = "asking" /\ row # NoRow
  /\ Shows(w)
  /\ UNCHANGED vars

\* The step of the tab takes the lease.
StepBegins(w) ==
  /\ tab[w] = "stepping"
  /\ Claim(w)
  /\ Goes(w, "running")

\* It does not, and answers with the status at once.
StepRefused(w) ==
  /\ tab[w] = "stepping" /\ ~Claimable
  /\ Shows(w)
  /\ UNCHANGED vars

StepGoesOn(w) ==
  /\ step[w] # Idle
  /\ Proceed(w)
  /\ UNCHANGED tabVars

StepArrives(w) ==
  /\ tab[w] = "running" /\ step[w] = Idle
  /\ Shows(w)
  /\ UNCHANGED vars

\* The button: POST /api/bootstrap/retry, then initializeDatabase again.
PressRetry(w) ==
  /\ tab[w] = "failed"
  /\ Goes(w, "retrying")
  /\ UNCHANGED vars

RetryArrives(w) ==
  /\ tab[w] = "retrying" /\ row # NoRow
  /\ Reset
  /\ Goes(w, "asking")

\* DATABASE_BOOTSTRAP_UNAVAILABLE: the request fails, with or without its step.
RequestLost(w) ==
  /\ tab[w] \in Waiting
  /\ step[w] = Idle /\ faults < MaxFaults
  /\ faults' = faults + 1
  /\ Goes(w, "failed")
  /\ UNCHANGED <<kv, d1, row, step, bad, missed>>

StepDies(w) ==
  /\ Crash(w)
  /\ Goes(w, "failed")

-----------------------------------------------------------------------------
Mut_Create ==
  /\ ready' = TRUE
  /\ d1' = IF ready THEN d1 \cup {Later} ELSE d1
  /\ UNCHANGED <<kv, row, step, bad, missed, faults, tab>>

\* Another request creates a connection, behind requireDatabaseReady.
Create ==
  /\ ready \/ row.status = "complete"
  /\ ready' = TRUE
  /\ d1' = d1 \cup {Later}
  /\ UNCHANGED <<kv, row, step, bad, missed, faults, tab>>

\* The cache of the isolate runs out, or the isolate is replaced.
CacheEnds ==
  /\ ready
  /\ ready' = FALSE
  /\ UNCHANGED <<vars, tab>>

TabActs(w) ==
  \/ FindsNoSchema(w)
  \/ Creates(w)
  \/ StatusArrives(w)
  \/ StepBegins(w)
  \/ StepRefused(w)
  \/ StepArrives(w)
  \/ RetryArrives(w)

Next ==
  \/ \E w \in Worker :
       \/ Enter(w) \/ PressRetry(w)
       \/ TabActs(w)
       \/ StepGoesOn(w)
       \/ RequestLost(w) \/ StepDies(w)
  \/ (Expire /\ UNCHANGED tabVars)
  \/ (Overtaken /\ UNCHANGED tabVars)
  \/ Create
  \/ CacheEnds

\* A user opens the panel and presses retry, requests are answered, steps end,
\* the leases of dead ones run out, and KV deletes a key that is asked often
\* enough.
Fairness ==
  /\ \A w \in Worker :
       /\ WF_allVars(Enter(w))
       /\ WF_allVars(PressRetry(w))
       /\ WF_allVars(TabActs(w))
       /\ WF_allVars(StepGoesOn(w))
       /\ SF_allVars(step[w] # Idle /\ Delete(w, step[w].page) /\ UNCHANGED tabVars)
  /\ WF_allVars(Expire /\ UNCHANGED tabVars)

Spec == Init /\ [][Next]_allVars /\ Fairness

-----------------------------------------------------------------------------
\* Safety: no tab opens the panel, and the Worker serves no request of it,
\* before every connection is in D1 and none is left in KV.
OpenWhenMigrated ==
  ready \/ (\E w \in Worker : tab[w] = "open") => kv = {} /\ Id \subseteq d1

\* Liveness: with every connection readable and listed keys returned, the
\* bootstrap completes and every tab opens, through any number of tabs and any
\* bounded number of dead or overtaken steps and lost requests.
Completes ==
  <>((\A w \in Worker : tab[w] = "open") \/ missed \/ bad # {})

\* Liveness: a tab that starts ends up open or with the error on the screen,
\* even when the initialisation cannot succeed, unless somebody retries it for
\* ever.
TabsSettle ==
  \/ \A w \in Worker : tab[w] \in Waiting ~> tab[w] \in Settled
  \/ []<><<\E w \in Worker : RetryArrives(w)>>_allVars
=============================================================================
