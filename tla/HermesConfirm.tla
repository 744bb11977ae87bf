---------------------------- MODULE HermesConfirm ----------------------------
(***************************************************************************)
(* Confirmed switches of one provider account by the operations agent:     *)
(* the preview and its single-use token (hermesconfirm), the confirmation  *)
(* (hermeshttp) and the audited transaction (hermesops).                   *)
(*                                                                         *)
(* A plan is what Resolve read: the account's state.  The token's binding  *)
(* is compared as the values it digests.                                   *)
(***************************************************************************)
EXTENDS Naturals, FiniteSets

CONSTANTS Tokens, Requests, Operators,
          Nobody,
          MaxEdits    \* switches made outside the agent

ASSUME ConfirmAssumption == /\ Nobody \notin Operators \cup Tokens \cup Requests
                            /\ MaxEdits \in Nat

VARIABLES account,   \* provider_accounts.enabled
          token,     \* hermes_pending_confirmations, with deleted rows as "gone"
          req,       \* the confirming requests
          lock,      \* holder of the target's advisory lock
          calls,     \* committed hermes_tool_calls rows
          audit,     \* committed admin_audit_events rows
          changes,   \* who switched the account, from what: the ground truth
          edits

confirmVars == <<account, token, req, lock, calls, audit, changes, edits>>

ConfirmInit ==
    /\ account \in BOOLEAN
    /\ token = [t \in Tokens |-> [status |-> "none", actor |-> Nobody, want |-> FALSE,
                                  plan |-> FALSE, expired |-> FALSE]]
    /\ req = [r \in Requests |-> [pc |-> "idle", token |-> Nobody, actor |-> Nobody,
                                  want |-> FALSE, plan |-> FALSE]]
    /\ lock = Nobody
    /\ calls = {} /\ audit = {} /\ changes = {}
    /\ edits = 0

Advance(r, pc) == req' = [req EXCEPT ![r].pc = pc]

\* confirm=false: resolve, then issue a token bound to what was read.
Preview(t, a, want) ==
    /\ token[t].status = "none"
    /\ token' = [token EXCEPT ![t] = [status |-> "live", actor |-> a, want |-> want,
                                      plan |-> account, expired |-> FALSE]]
    /\ UNCHANGED <<account, req, lock, calls, audit, changes, edits>>

Expire(t) ==
    /\ token[t].status = "live" /\ ~token[t].expired
    /\ token' = [token EXCEPT ![t].expired = TRUE]
    /\ UNCHANGED <<account, req, lock, calls, audit, changes, edits>>

\* The cleanup after another token was issued.
Cleanup(t) ==
    /\ token[t].status = "live" /\ token[t].expired
    /\ \E u \in Tokens \ {t} : token[u].status # "none"
    /\ token' = [token EXCEPT ![t].status = "gone"]
    /\ UNCHANGED <<account, req, lock, calls, audit, changes, edits>>

\* confirm=true: the plan is resolved afresh, before the token is looked at.
Resolve(r, t, a, want) ==
    /\ req[r].pc = "idle" /\ token[t].status # "none"
    /\ req' = [req EXCEPT ![r] = [pc |-> "resolved", token |-> t, actor |-> a,
                                  want |-> want, plan |-> account]]
    /\ UNCHANGED <<account, token, lock, calls, audit, changes, edits>>

\* Fault: the binding leaves the plan out.
Binding_NoPlan(x) == <<x.actor, x.want>>

Binding(x) == <<x.actor, x.want, x.plan>>

\* Fault: a token that does not match stays for another try.
Consume_OnMatch(r) ==
    LET t == req[r].token IN
    /\ req[r].pc = "resolved"
    /\ LET ok == /\ token[t].status = "live" /\ ~token[t].expired
                 /\ Binding(token[t]) = Binding(req[r])
       IN /\ Advance(r, IF ok THEN "confirmed" ELSE "refused")
          /\ token' = IF ok THEN [token EXCEPT ![t].status = "gone"] ELSE token
    /\ UNCHANGED <<account, lock, calls, audit, changes, edits>>

\* Fault: the row is read here and deleted when the change is done.
Consume_Kept(r) ==
    LET t == req[r].token IN
    /\ req[r].pc = "resolved"
    /\ Advance(r, IF /\ token[t].status = "live" /\ ~token[t].expired
                     /\ Binding(token[t]) = Binding(req[r])
                  THEN "confirmed" ELSE "refused")
    /\ UNCHANGED <<account, token, lock, calls, audit, changes, edits>>

\* DELETE ... RETURNING: whatever the answer, the token is gone.
Consume(r) ==
    LET t == req[r].token IN
    /\ req[r].pc = "resolved"
    /\ Advance(r, IF /\ token[t].status = "live" /\ ~token[t].expired
                     /\ Binding(token[t]) = Binding(req[r])
                  THEN "confirmed" ELSE "refused")
    /\ token' = [token EXCEPT ![t].status = "gone"]
    /\ UNCHANGED <<account, lock, calls, audit, changes, edits>>

\* The rate limit or the semaphore refuses: the token is lost all the same.
Throttled(r) ==
    /\ req[r].pc = "confirmed"
    /\ Advance(r, "refused")
    /\ UNCHANGED <<account, token, lock, calls, audit, changes, edits>>

\* The transaction: the target's lock, both rows, the change, the commit.
Begin(r) ==
    /\ req[r].pc = "confirmed" /\ lock = Nobody
    /\ lock' = r
    /\ Advance(r, "locked")
    /\ UNCHANGED <<account, token, calls, audit, changes, edits>>

Row(r) == [op |-> r, was |-> req[r].plan, now |-> req[r].want]

\* Fault: the change is committed before the rows are.
Commit_AuditLater(r) ==
    /\ req[r].pc = "locked"
    /\ account' = req[r].want
    /\ changes' = changes \cup {[op |-> r, was |-> account, now |-> req[r].want]}
    /\ \E written \in BOOLEAN :
         /\ calls' = IF written THEN calls \cup {Row(r)} ELSE calls
         /\ audit' = IF written THEN audit \cup {Row(r)} ELSE audit
         /\ Advance(r, "done")
    /\ lock' = Nobody
    /\ UNCHANGED <<token, edits>>

Commit(r) ==
    /\ req[r].pc = "locked"
    /\ account' = req[r].want
    /\ changes' = changes \cup {[op |-> r, was |-> account, now |-> req[r].want]}
    /\ calls' = calls \cup {Row(r)}
    /\ audit' = audit \cup {Row(r)}
    /\ lock' = Nobody
    /\ \E answered \in BOOLEAN : Advance(r, IF answered THEN "done" ELSE "failed")
    /\ UNCHANGED <<token, edits>>

\* Fault: the lock is the session's, which a rollback does not free.
Rollback_KeepsLock(r) ==
    /\ req[r].pc = "locked"
    /\ Advance(r, "failed")
    /\ UNCHANGED <<account, token, lock, calls, audit, changes, edits>>

\* An insert or the change fails, or the request dies: nothing is committed.
Rollback(r) ==
    /\ req[r].pc = "locked"
    /\ lock' = Nobody
    /\ Advance(r, "failed")
    /\ UNCHANGED <<account, token, calls, audit, changes, edits>>

\* The account is switched in the console.
Edit ==
    /\ edits < MaxEdits
    /\ account' = ~account
    /\ edits' = edits + 1
    /\ UNCHANGED <<token, req, lock, calls, audit, changes>>

ConfirmNext ==
    \/ \E t \in Tokens : Expire(t) \/ Cleanup(t)
    \/ \E t \in Tokens, a \in Operators, want \in BOOLEAN :
         Preview(t, a, want) \/ \E r \in Requests : Resolve(r, t, a, want)
    \/ \E r \in Requests : \/ Consume(r) \/ Throttled(r) \/ Begin(r)
                           \/ Commit(r) \/ Rollback(r)
    \/ Edit

ConfirmSpec == ConfirmInit /\ [][ConfirmNext]_confirmVars

-----------------------------------------------------------------------------
Past == {"confirmed", "locked", "done"}

\* Types, and the lock is held by the request in its transaction.
ConfirmTypeOK ==
    /\ account \in BOOLEAN
    /\ token \in [Tokens -> [status : {"none", "live", "gone"}, actor : Operators \cup {Nobody},
                             want : BOOLEAN, plan : BOOLEAN, expired : BOOLEAN]]
    /\ req \in [Requests -> [pc : {"idle", "resolved", "confirmed", "locked", "refused",
                                   "failed", "done"},
                             token : Tokens \cup {Nobody}, actor : Operators \cup {Nobody},
                             want : BOOLEAN, plan : BOOLEAN]]
    /\ lock \in Requests \cup {Nobody}
    /\ \A r \in Requests : req[r].pc = "locked" <=> lock = r
    /\ edits \in 0..MaxEdits

\* tools_mutate_handler.go:160, store_postgres.go:76: a token lets one request
\* through at most, however many present it at once.
TokenConfirmsOnce ==
    \A r, s \in Requests :
        req[r].pc \in Past /\ req[s].pc \in Past /\ req[r].token = req[s].token => r = s

\* tools_mutate_handler.go:160, store_postgres.go:102: the request a token lets
\* through was made by the token's operator, for the same switch, and read the
\* account as the preview did, whatever changed in between.
ConfirmedAsPreviewed ==
    \A r \in Requests : req[r].pc \in Past =>
        LET t == token[req[r].token] IN
            t.actor = req[r].actor /\ t.want = req[r].want /\ t.plan = req[r].plan

\* mutate_tx.go:228: no change without its two rows and no row without its
\* change, a commit whose answer was lost included.
ChangedIffLogged ==
    /\ calls = audit
    /\ {c.op : c \in changes} = {c.op : c \in calls}

\* store_postgres.go:76: once presented, a token never lets anything through
\* again, a presentation that did not match included.
PresentedIsSpent ==
    \A r \in Requests : req[r].pc \notin {"idle", "resolved"} =>
        token[req[r].token].status = "gone"

\* The promises together, whatever requests, operators and tokens there are.
ConfirmSafety ==
    /\ ConfirmTypeOK
    /\ PresentedIsSpent
    /\ TokenConfirmsOnce
    /\ ConfirmedAsPreviewed
    /\ ChangedIffLogged

\* cache.go:112: a stale preview is not executed on a target that changed.
\* Violated: between the fresh plan and the lock the account can change, and
\* the rows then state a state before the change that was not.
ExecutedAsPreviewed == changes \subseteq calls
=============================================================================
