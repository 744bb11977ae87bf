--------------------------- MODULE Background_proof ---------------------------
(***************************************************************************)
(* The safety properties of Hermes's two protocols, HermesConfirm for any   *)
(* tokens, requests, operators and number of edits and HermesRecovery for   *)
(* any operations, workers and number of faults, of DeadLetterQueue for any *)
(* rows, workers, leases and number of faults, of CredentialRefresh for any *)
(* refreshes, versions and number of faults, of MediaTasks for any workers, *)
(* decisions, deferrals and number of faults, of LogSink for any records,   *)
(* rooms and batch size, and of EventBus for any events, handlers and       *)
(* wiring.  They share no state.                                            *)
(***************************************************************************)
EXTENDS Background, FiniteSetTheorems, SequenceTheorems, TLAPS

-----------------------------------------------------------------------------
(* Confirmation tokens.                                                     *)

(* A request that named a token named one that was issued, so the token's  *)
(* binding does not change under it any more.                              *)
NamesIssued ==
    \A r \in Requests : req[r].pc # "idle" =>
        req[r].token \in Tokens /\ token[req[r].token].status # "none"

(* The invariants, with what makes them inductive.  A spent token is what  *)
(* keeps a second request from passing with it.                            *)
ConfirmInv ==
    /\ ConfirmTypeOK
    /\ NamesIssued
    /\ PresentedIsSpent
    /\ TokenConfirmsOnce
    /\ ConfirmedAsPreviewed
    /\ ChangedIffLogged

(* The type invariant without the account.                                 *)
TokenShapes ==
    /\ token \in [Tokens -> [status : {"none", "live", "gone"}, actor : Operators \cup {Nobody},
                             want : BOOLEAN, plan : BOOLEAN, expired : BOOLEAN]]
    /\ req \in [Requests -> [pc : {"idle", "resolved", "confirmed", "locked", "refused",
                                   "failed", "done"},
                             token : Tokens \cup {Nobody}, actor : Operators \cup {Nobody},
                             want : BOOLEAN, plan : BOOLEAN]]
    /\ lock \in Requests \cup {Nobody}
    /\ \A r \in Requests : req[r].pc = "locked" <=> lock = r
    /\ edits \in 0..MaxEdits

AccountOK == account \in BOOLEAN

LEMMA TypeParts == ConfirmTypeOK <=> AccountOK /\ TokenShapes
    BY Zenon DEF ConfirmTypeOK, AccountOK, TokenShapes

LEMMA InitConfirm == ConfirmInit => ConfirmInv
<1> SUFFICES ASSUME ConfirmInit
             PROVE  ConfirmInv
    OBVIOUS
<1>1. TokenShapes
    <2>1. Nobody \notin Requests /\ 0 \in 0..MaxEdits
        BY ConfirmAssumption DEF ConfirmAssumption
    <2> QED
        BY <2>1 DEF ConfirmInit, TokenShapes
<1>2. NamesIssued /\ PresentedIsSpent /\ TokenConfirmsOnce /\ ConfirmedAsPreviewed
    BY DEF ConfirmInit, NamesIssued, PresentedIsSpent, TokenConfirmsOnce, ConfirmedAsPreviewed, Past
<1>3. ChangedIffLogged /\ AccountOK
    BY DEF ConfirmInit, ChangedIffLogged, AccountOK
<1> QED
    BY <1>1, <1>2, <1>3, TypeParts DEF ConfirmInv

(* What happens to a token alone: it is issued, expires or is cleaned up.  *)
LEMMA TokenSteps ==
    ASSUME ConfirmInv, NEW t \in Tokens,
           \/ Expire(t) \/ Cleanup(t)
           \/ \E a \in Operators, want \in BOOLEAN : Preview(t, a, want)
    PROVE  ConfirmInv'
<1> USE DEF ConfirmInv
<1>1. req' = req /\ UNCHANGED <<account, lock, calls, audit, changes, edits>>
    BY DEF Expire, Cleanup, Preview
<1>2. ConfirmTypeOK'
    <2>1. AccountOK'
        BY <1>1, TypeParts DEF AccountOK
    <2>2. CASE Expire(t) \/ Cleanup(t)
        <3>1. CASE Expire(t)
            <4> DEFINE Token == [status : {"none", "live", "gone"}, actor : Operators \cup {Nobody},
                                 want : BOOLEAN, plan : BOOLEAN, expired : BOOLEAN]
            <4>1. token \in [Tokens -> Token]
                BY DEF ConfirmTypeOK
            <4>2. [token[t] EXCEPT !.expired = TRUE] \in Token
                <5>1. token[t] \in Token
                    BY <4>1
                <5>2. TRUE \in BOOLEAN
                    OBVIOUS
                <5> QED
                    BY <5>1, <5>2
            <4>3. token' = [token EXCEPT ![t] = [token[t] EXCEPT !.expired = TRUE]]
                BY <3>1, <4>1 DEF Expire
            <4> HIDE DEF Token
            <4>4. token' \in [Tokens -> Token]
                BY <4>1, <4>2, <4>3
            <4> QED
                BY <1>1, <4>4 DEF Token, ConfirmTypeOK
        <3>2. CASE Cleanup(t)
            BY <1>1, <3>2 DEF ConfirmTypeOK, TokenShapes, Cleanup
        <3> QED
            BY <2>2, <3>1, <3>2
    <2>3. ASSUME NEW a \in Operators, NEW want \in BOOLEAN, Preview(t, a, want)
          PROVE  ConfirmTypeOK'
        <3>1. [status |-> "live", actor |-> a, want |-> want, plan |-> account,
               expired |-> FALSE]
                 \in [status : {"none", "live", "gone"}, actor : Operators \cup {Nobody},
                      want : BOOLEAN, plan : BOOLEAN, expired : BOOLEAN]
            BY <2>3, Zenon DEF ConfirmTypeOK
        <3>2. TokenShapes'
            BY <1>1, <2>3, <3>1 DEF ConfirmTypeOK, TokenShapes, Preview
        <3> QED
            BY <2>1, <3>2, TypeParts, PTL
    <2> QED
        BY <2>2, <2>3
<1>3. NamesIssued'
    BY <1>1 DEF ConfirmTypeOK, NamesIssued, Expire, Cleanup, Preview
<1>4. PresentedIsSpent'
    BY <1>1 DEF ConfirmTypeOK, NamesIssued, PresentedIsSpent, Expire, Cleanup, Preview
<1>5. ConfirmedAsPreviewed'
    BY <1>1 DEF ConfirmTypeOK, NamesIssued, ConfirmedAsPreviewed, Past, Expire, Cleanup, Preview
<1> QED
    BY <1>1, <1>2, <1>3, <1>4, <1>5 DEF TokenConfirmsOnce, ChangedIffLogged

(* A confirmation reads its plan.                                          *)
LEMMA ResolveStep ==
    ASSUME ConfirmInv, NEW r \in Requests, NEW t \in Tokens, NEW a \in Operators,
           NEW want \in BOOLEAN, Resolve(r, t, a, want)
    PROVE  ConfirmInv'
<1> USE DEF ConfirmInv, Resolve, Past
<1>1. ConfirmTypeOK'
    BY DEF ConfirmTypeOK
<1>2. NamesIssued' /\ PresentedIsSpent'
    BY DEF ConfirmTypeOK, NamesIssued, PresentedIsSpent
<1>3. TokenConfirmsOnce' /\ ConfirmedAsPreviewed'
    BY DEF ConfirmTypeOK, TokenConfirmsOnce, ConfirmedAsPreviewed
<1> QED
    BY <1>1, <1>2, <1>3 DEF ChangedIffLogged

(* A token is presented.  Whoever passed with it before has spent it.      *)
LEMMA ConsumeStep ==
    ASSUME ConfirmInv, NEW r \in Requests, Consume(r)
    PROVE  ConfirmInv'
<1> USE DEF ConfirmInv, Past
<1>1. req[r].token \in Tokens
    BY DEF Consume, NamesIssued
<1>2. ConfirmTypeOK'
    BY <1>1 DEF ConfirmTypeOK, Consume, Advance
<1>3. NamesIssued' /\ PresentedIsSpent'
    BY <1>1 DEF ConfirmTypeOK, NamesIssued, PresentedIsSpent, Consume, Advance
<1>4. TokenConfirmsOnce'
    BY <1>1 DEF ConfirmTypeOK, TokenConfirmsOnce, PresentedIsSpent, Consume, Advance
<1>5. ConfirmedAsPreviewed'
    <2> SUFFICES ASSUME NEW s \in Requests, req'[s].pc \in Past
                 PROVE  LET t == token'[req'[s].token] IN
                        t.actor = req'[s].actor /\ t.want = req'[s].want /\ t.plan = req'[s].plan
        BY DEF ConfirmedAsPreviewed
    <2>1. /\ req'[s].token = req[s].token /\ req'[s].actor = req[s].actor
          /\ req'[s].want = req[s].want /\ req'[s].plan = req[s].plan
        BY DEF Consume, Advance, ConfirmTypeOK
    <2>2. req[s].token \in Tokens
        BY DEF Consume, Advance, ConfirmTypeOK, NamesIssued
    <2>3. LET t == token[req[s].token] IN
          t.actor = req[s].actor /\ t.want = req[s].want /\ t.plan = req[s].plan
        BY DEF Consume, Advance, ConfirmTypeOK, ConfirmedAsPreviewed, Binding
    <2> QED
        BY <1>1, <2>1, <2>2, <2>3 DEF Consume, ConfirmTypeOK
<1> QED
    BY <1>2, <1>3, <1>4, <1>5 DEF ChangedIffLogged, Consume

(* The rest of a request that passed, or stopped on its way.               *)
LEMMA RequestSteps ==
    ASSUME ConfirmInv, NEW r \in Requests,
           Throttled(r) \/ Begin(r) \/ Commit(r) \/ Rollback(r)
    PROVE  ConfirmInv'
<1> USE DEF ConfirmInv, Past
<1>1. token' = token
    BY DEF Throttled, Begin, Commit, Rollback
<1>2. /\ req[r].pc \in {"confirmed", "locked"}
      /\ \E pc \in {"refused", "locked", "done", "failed"} : Advance(r, pc)
    BY DEF Throttled, Begin, Commit, Rollback
<1>3. ConfirmTypeOK'
    <2>1. AccountOK'
        <3>1. account \in BOOLEAN /\ req[r].want \in BOOLEAN
            BY DEF ConfirmTypeOK
        <3>2. account' = account \/ account' = req[r].want
            BY DEF Throttled, Begin, Commit, Rollback
        <3> QED
            BY <3>1, <3>2 DEF AccountOK
    <2>2. TokenShapes'
        BY ConfirmAssumption
        DEF ConfirmTypeOK, TokenShapes, ConfirmAssumption, Throttled, Begin, Commit, Rollback, Advance
    <2> QED
        BY <2>1, <2>2, TypeParts, PTL
<1>4. NamesIssued' /\ PresentedIsSpent'
    BY <1>1, <1>2 DEF ConfirmTypeOK, NamesIssued, PresentedIsSpent, Advance
<1>5. TokenConfirmsOnce' /\ ConfirmedAsPreviewed'
    BY <1>1, <1>2 DEF ConfirmTypeOK, TokenConfirmsOnce, ConfirmedAsPreviewed, Advance
<1>6. ChangedIffLogged'
    <2>1. CASE Commit(r)
        <3> DEFINE x == [op |-> r, was |-> account, now |-> req[r].want]
                   y == Row(r)
        <3>1. /\ changes' = changes \cup {x} /\ x.op = r
              /\ calls' = calls \cup {y} /\ audit' = audit \cup {y} /\ y.op = r
            BY <2>1 DEF Commit, Row
        <3> HIDE DEF x, y
        <3>2. {c.op : c \in changes'} = {c.op : c \in changes} \cup {r}
            BY <3>1
        <3>3. {c.op : c \in calls'} = {c.op : c \in calls} \cup {r}
            BY <3>1
        <3> QED
            BY <3>1, <3>2, <3>3 DEF ChangedIffLogged
    <2>2. CASE Throttled(r) \/ Begin(r) \/ Rollback(r)
        BY <2>2 DEF ChangedIffLogged, Throttled, Begin, Rollback
    <2> QED
        BY <2>1, <2>2
<1> QED
    BY <1>3, <1>4, <1>5, <1>6

LEMMA NextConfirm == ConfirmInv /\ [ConfirmNext]_confirmVars => ConfirmInv'
<1> SUFFICES ASSUME ConfirmInv, [ConfirmNext]_confirmVars
             PROVE  ConfirmInv'
    OBVIOUS
<1>1. CASE \E t \in Tokens : Expire(t) \/ Cleanup(t)
    BY <1>1, TokenSteps
<1>2. ASSUME NEW t \in Tokens, NEW a \in Operators, NEW want \in BOOLEAN, Preview(t, a, want)
      PROVE  ConfirmInv'
    BY <1>2, TokenSteps
<1>3. ASSUME NEW t \in Tokens, NEW a \in Operators, NEW want \in BOOLEAN, NEW r \in Requests,
             Resolve(r, t, a, want)
      PROVE  ConfirmInv'
    BY <1>3, ResolveStep
<1>4. ASSUME NEW r \in Requests, Consume(r)
      PROVE  ConfirmInv'
    BY <1>4, ConsumeStep
<1>5. ASSUME NEW r \in Requests, Throttled(r) \/ Begin(r) \/ Commit(r) \/ Rollback(r)
      PROVE  ConfirmInv'
    BY <1>5, RequestSteps
<1>6. CASE Edit
    <2>1. AccountOK'
        BY <1>6, Zenon DEF Edit, AccountOK
    <2>2. TokenShapes'
        BY <1>6, ConfirmAssumption DEF Edit, ConfirmInv, ConfirmTypeOK, TokenShapes, ConfirmAssumption
    <2>3. (NamesIssued /\ PresentedIsSpent /\ TokenConfirmsOnce /\ ConfirmedAsPreviewed)'
        BY <1>6 DEF Edit, ConfirmInv, NamesIssued, PresentedIsSpent, TokenConfirmsOnce,
            ConfirmedAsPreviewed, Past
    <2>4. ChangedIffLogged'
        BY <1>6 DEF Edit, ConfirmInv, ChangedIffLogged
    <2>5. ConfirmTypeOK'
        BY <2>1, <2>2, TypeParts, PTL
    <2> QED
        BY <2>3, <2>4, <2>5 DEF ConfirmInv
<1>7. CASE UNCHANGED confirmVars
    BY <1>7 DEF confirmVars, ConfirmInv, ConfirmTypeOK, NamesIssued, PresentedIsSpent,
        TokenConfirmsOnce, ConfirmedAsPreviewed, ChangedIffLogged, Past
<1> QED
    BY <1>1, <1>2, <1>3, <1>4, <1>5, <1>6, <1>7 DEF ConfirmNext

(* All of it holds in every state.                                        *)
THEOREM ConfirmInvariant == ConfirmSpec => []ConfirmInv
<1> QED
    BY InitConfirm, NextConfirm, PTL DEF ConfirmSpec

(* However many requests of whatever operators present a token, one passes *)
(* (the DELETE of ConsumeWithStatus), and it is the one previewed.         *)
THEOREM OneConfirmationPerToken == ConfirmSpec => [](TokenConfirmsOnce /\ ConfirmedAsPreviewed)
<1>1. ConfirmInv => TokenConfirmsOnce /\ ConfirmedAsPreviewed
    BY DEF ConfirmInv
<1> QED
    BY <1>1, ConfirmInvariant, PTL

(* A change of the account and its two audit rows exist together (Execute  *)
(* of mutate_tx.go).                                                       *)
THEOREM ChangesAreLogged == ConfirmSpec => []ChangedIffLogged
<1>1. ConfirmInv => ChangedIffLogged
    BY DEF ConfirmInv
<1> QED
    BY <1>1, ConfirmInvariant, PTL

(* All the promises of a confirmation hold for any requests, operators,    *)
(* tokens and edits (ConfirmSafety).                                       *)
THEOREM ConfirmationsAreSafe == ConfirmSpec => []ConfirmSafety
<1>1. ConfirmInv => ConfirmSafety
    BY DEF ConfirmInv, ConfirmSafety
<1> QED
    BY <1>1, ConfirmInvariant, PTL

-----------------------------------------------------------------------------
(* Recovery of mutations.                                                   *)

PCs == {"idle", "replay", "handling", "record", "release", "finalize", "done"}
Statuses == {"none", "prepared"} \cup Outcome
EntryRec == [status : Statuses, audited : BOOLEAN, due : BOOLEAN,
             lease : Workers \cup {None}, live : BOOLEAN]
ActRec == [pc : PCs, op : Ops \cup {None}, res : Outcome \cup {"none", "retry"}]

(* What is needed of the types.                                            *)
Shapes == /\ entry \in [Ops -> EntryRec]
          /\ act \in [Actors -> ActRec]
          /\ answer \in [Ops -> {"none", "ok", "failed", "pending", "refused"}]
          /\ log \in [Ops -> Seq(Statuses)]

(* A request works on its own operation and has not begun while it is      *)
(* idle; a worker that is busy has an operation that was prepared; whoever *)
(* records has an outcome, and whoever finalises finds one recorded.       *)
Busy ==
    /\ \A o \in Ops : act[o].op = o
    /\ \A o \in Ops : act[o].pc = "idle" => entry[o].status = "none"
    /\ \A a \in Actors : act[a].pc \notin {"idle", "done"} =>
           act[a].op \in Ops /\ entry[act[a].op].status # "none"
    /\ \A a \in Actors : act[a].pc = "record" => act[a].res \in Outcome
    /\ \A a \in Actors : act[a].pc = "finalize" => entry[act[a].op].status \in Outcome
    /\ \A o \in Ops : entry[o].audited => entry[o].status \in Outcome

RecoveryInv == Shapes /\ Busy /\ AuditedExactlyOnce /\ AnsweredIsAudited

LEMMA ActorKinds == /\ \A o \in Ops : o \in Actors /\ o \notin Workers /\ o # None
                    /\ \A w \in Workers : w \in Actors /\ w \notin Ops /\ w # None
                    /\ None \notin Ops
    BY HermesAssumption DEF HermesAssumption, Actors

LEMMA InitRecovery == RecoveryInit => RecoveryInv
<1> SUFFICES ASSUME RecoveryInit
             PROVE  RecoveryInv
    OBVIOUS
<1>1. Shapes
    BY ActorKinds DEF RecoveryInit, Shapes, EntryRec, ActRec, PCs, Statuses, Outcome
<1>2. Busy
    BY ActorKinds DEF RecoveryInit, Busy, Outcome
<1> QED
    BY <1>1, <1>2 DEF RecoveryInit, RecoveryInv, AuditedExactlyOnce, AnsweredIsAudited

(* The ways a journal row is written, field by field.                      *)
LEMMA RowTimes ==
    ASSUME entry \in [Ops -> EntryRec], NEW o \in Ops,
           \/ entry' = [entry EXCEPT ![o].due = TRUE]
           \/ entry' = [entry EXCEPT ![o].live = FALSE]
           \/ entry' = [entry EXCEPT ![o].lease = None, ![o].live = FALSE, ![o].due = FALSE]
    PROVE  /\ entry' \in [Ops -> EntryRec]
           /\ \A p \in Ops : /\ entry'[p].status = entry[p].status
                             /\ entry'[p].audited <=> entry[p].audited
<1>1. CASE entry' = [entry EXCEPT ![o].due = TRUE]
    <2>1. entry' \in [Ops -> EntryRec]
        BY <1>1 DEF EntryRec
    <2> QED
        BY <1>1, <2>1 DEF EntryRec
<1>2. CASE entry' = [entry EXCEPT ![o].live = FALSE]
    <2>1. entry' \in [Ops -> EntryRec]
        BY <1>2 DEF EntryRec
    <2> QED
        BY <1>2, <2>1 DEF EntryRec
<1>3. CASE entry' = [entry EXCEPT ![o].lease = None, ![o].live = FALSE, ![o].due = FALSE]
    <2>1. entry' \in [Ops -> EntryRec]
        BY <1>3 DEF EntryRec
    <2> QED
        BY <1>3, <2>1 DEF EntryRec
<1> QED
    BY <1>1, <1>2, <1>3

LEMMA RowStatus ==
    ASSUME entry \in [Ops -> EntryRec], NEW o \in Ops, NEW s \in Statuses,
           \/ entry' = [entry EXCEPT ![o].status = s]
           \/ entry' = [entry EXCEPT ![o].status = s, ![o].due = TRUE]
    PROVE  /\ entry' \in [Ops -> EntryRec]
           /\ entry'[o].status = s /\ entry'[o].audited = entry[o].audited
           /\ \A p \in Ops \ {o} : entry'[p] = entry[p]
<1>1. CASE entry' = [entry EXCEPT ![o].status = s]
    BY <1>1 DEF EntryRec
<1>2. CASE entry' = [entry EXCEPT ![o].status = s, ![o].due = TRUE]
    <2>1. entry' \in [Ops -> EntryRec]
        BY <1>2 DEF EntryRec
    <2> QED
        BY <1>2, <2>1 DEF EntryRec
<1> QED
    BY <1>1, <1>2

LEMMA RowClosed ==
    ASSUME entry \in [Ops -> EntryRec], NEW o \in Ops,
           entry' = [entry EXCEPT ![o].audited = TRUE, ![o].lease = None, ![o].live = FALSE]
    PROVE  /\ entry' \in [Ops -> EntryRec]
           /\ entry'[o].audited = TRUE /\ entry'[o].status = entry[o].status
           /\ \A p \in Ops \ {o} : entry'[p] = entry[p]
<1>1. entry' \in [Ops -> EntryRec]
    BY DEF EntryRec
<1> QED
    BY <1>1 DEF EntryRec

(* Steps that leave the journal and the audit rows alone.                  *)
LEMMA ReplaySteps ==
    ASSUME RecoveryInv, NEW a \in Actors,
           ClaimRow(a) \/ RowNotFound(a) \/ Deliver(a) \/ DeliverFails(a) \/ FinalizeFails(a)
               \/ Crash(a)
    PROVE  RecoveryInv'
<1> USE DEF RecoveryInv
<1>1. entry' = entry /\ log' = log
    BY DEF ClaimRow, RowNotFound, Deliver, DeliverFails, FinalizeFails, Crash
<1>2. /\ act[a].pc \in PCs \ {"idle", "done"}
      /\ act[a] \in ActRec
    BY DEF Shapes, ActRec, At, ClaimRow, RowNotFound, Deliver, DeliverFails, FinalizeFails, Crash
<1>3. \/ /\ \E pc \in PCs \ {"idle", "done", "finalize"},
               res \in Outcome \cup {"none", "retry"} :
               /\ pc = "record" => res \in Outcome
               /\ Goto(a, pc, res)
         /\ answer' = answer
      \/ \E ans \in {"none", "pending"} : End(a, ans)
    <2>1. CASE FinalizeFails(a) \/ Crash(a)
        BY <1>2, <2>1 DEF FinalizeFails, Crash, PCs, ActRec
    <2>2. CASE ClaimRow(a) \/ RowNotFound(a) \/ Deliver(a) \/ DeliverFails(a)
        BY <2>2 DEF ClaimRow, RowNotFound, Deliver, DeliverFails, Replayed, PCs, Outcome
    <2> QED
        BY <2>1, <2>2
<1>4. CASE \E ans \in {"none", "pending"} : End(a, ans)
    <2> PICK ans \in {"none", "pending"} : End(a, ans)
        BY <1>4
    <2>1. Shapes'
        BY <1>1, <1>2 DEF Shapes, End, ActRec, PCs
    <2>2. Busy'
        BY <1>1, <1>2, ActorKinds DEF Busy, Shapes, End, ActRec, PCs
    <2>3. AnsweredIsAudited' /\ AuditedExactlyOnce'
        BY <1>1 DEF AnsweredIsAudited, AuditedExactlyOnce, Shapes, End
    <2> QED
        BY <2>1, <2>2, <2>3
<1>5. CASE /\ answer' = answer
           /\ \E pc \in PCs \ {"idle", "done", "finalize"},
                 res \in Outcome \cup {"none", "retry"} :
                 /\ pc = "record" => res \in Outcome
                 /\ Goto(a, pc, res)
    <2> PICK pc \in PCs \ {"idle", "done", "finalize"},
             res \in Outcome \cup {"none", "retry"} :
             (pc = "record" => res \in Outcome) /\ Goto(a, pc, res)
        BY <1>5
    <2>1. Shapes'
        BY <1>1, <1>2, <1>5 DEF Shapes, Goto, ActRec
    <2>2. Busy'
        BY <1>1, <1>2, ActorKinds DEF Busy, Shapes, Goto, ActRec, PCs
    <2>3. AnsweredIsAudited' /\ AuditedExactlyOnce'
        BY <1>1, <1>5 DEF AnsweredIsAudited, AuditedExactlyOnce, Shapes
    <2> QED
        BY <2>1, <2>2, <2>3
<1> QED
    BY <1>3, <1>4, <1>5

(* A step that keeps every status and closes no row.  It may move one      *)
(* actor, which afterwards is still busy with an operation that has begun. *)
LEMMA KeepStatus ==
    ASSUME RecoveryInv,
           entry' \in [Ops -> EntryRec],
           \A o \in Ops : /\ entry'[o].status = entry[o].status
                          /\ entry'[o].audited <=> entry[o].audited,
           log' = log, answer' = answer,
           \/ act' = act
           \/ \E w \in Workers, r \in ActRec :
                /\ act' = [act EXCEPT ![w] = r]
                /\ r.pc \notin {"idle", "done"} =>
                     r.op \in Ops /\ entry[r.op].status # "none"
                /\ r.pc # "record"
                /\ r.pc = "finalize" => entry[r.op].status \in Outcome
    PROVE  RecoveryInv'
<1> USE DEF RecoveryInv
<1>1. Shapes'
    BY ActorKinds DEF Shapes
<1>2. AnsweredIsAudited' /\ AuditedExactlyOnce'
    BY DEF AnsweredIsAudited, AuditedExactlyOnce
<1>3. CASE act' = act
    BY <1>1, <1>2, <1>3 DEF Busy
<1>4. ASSUME NEW w \in Workers, NEW r \in ActRec, act' = [act EXCEPT ![w] = r],
             r.pc \notin {"idle", "done"} => r.op \in Ops /\ entry[r.op].status # "none",
             r.pc # "record",
             r.pc = "finalize" => entry[r.op].status \in Outcome
      PROVE  Busy'
    <2>1. act'[w] = r /\ \A a \in Actors \ {w} : act'[a] = act[a]
        BY <1>4, ActorKinds DEF Shapes
    <2>2. \A o \in Ops : act'[o] = act[o]
        BY <2>1, ActorKinds
    <2>3. /\ \A o \in Ops : act'[o].op = o
          /\ \A o \in Ops : act'[o].pc = "idle" => entry'[o].status = "none"
          /\ \A o \in Ops : entry'[o].audited => entry'[o].status \in Outcome
        BY <2>2 DEF Busy
    <2>4. \A a \in Actors : act'[a].pc \notin {"idle", "done"} =>
              act'[a].op \in Ops /\ entry'[act'[a].op].status # "none"
        BY <1>4, <2>1 DEF Busy
    <2>5. \A a \in Actors : act'[a].pc = "record" => act'[a].res \in Outcome
        BY <1>4, <2>1 DEF Busy
    <2>6. \A a \in Actors : act'[a].pc = "finalize" => entry'[act'[a].op].status \in Outcome
        <3> SUFFICES ASSUME NEW a \in Actors, act'[a].pc = "finalize"
                     PROVE  entry'[act'[a].op].status \in Outcome
            OBVIOUS
        <3>1. act'[a].op \in Ops
            BY <2>4
        <3>2. entry[act'[a].op].status \in Outcome
            BY <1>4, <2>1 DEF Busy
        <3> QED
            BY <3>1, <3>2
    <2> QED
        BY <2>3, <2>4, <2>5, <2>6 DEF Busy
<1> QED
    BY <1>1, <1>2, <1>3, <1>4

(* The steps that write the journal row of an operation, its status apart. *)
LEMMA LeaseSteps ==
    ASSUME RecoveryInv,
           \/ \E w \in Workers, o \in Ops : Claim(w, o)
           \/ \E w \in Workers : Release(w)
           \/ \E o \in Ops : RetryTime(o) \/ LeaseExpires(o)
           \/ RowLeaseExpires
    PROVE  RecoveryInv'
<1> USE DEF RecoveryInv
<1>1. ASSUME NEW w \in Workers, NEW o \in Ops, Claim(w, o)
      PROVE  RecoveryInv'
    <2> DEFINE r == [pc |-> IF entry[o].status = "prepared" THEN "replay" ELSE "finalize",
                     op |-> o, res |-> "none"]
    <2>1. /\ entry' \in [Ops -> EntryRec]
          /\ \A p \in Ops : /\ entry'[p].status = entry[p].status
                            /\ entry'[p].audited <=> entry[p].audited
        BY <1>1 DEF Claim, Shapes, EntryRec
    <2>2. r \in ActRec
        BY DEF ActRec, PCs
    <2>3. /\ act' = [act EXCEPT ![w] = r] /\ log' = log /\ answer' = answer
          /\ entry[o].status # "none"
        BY <1>1 DEF Claim
    <2>4. r.op = o /\ r.pc # "record" /\ (r.pc = "finalize" => entry[o].status # "prepared")
        OBVIOUS
    <2>5. entry[o].status \in Statuses
        BY DEF Shapes, EntryRec
    <2> HIDE DEF r
    <2> QED
        BY <2>1, <2>2, <2>3, <2>4, <2>5, KeepStatus DEF Statuses
<1>2. ASSUME NEW w \in Workers, Release(w)
      PROVE  RecoveryInv'
    <2> DEFINE r == [pc |-> "idle", op |-> None, res |-> "none"]
    <2>1. act[w].op \in Ops
        BY <1>2, ActorKinds DEF Busy, Release, At
    <2>2. /\ entry' \in [Ops -> EntryRec]
          /\ \A p \in Ops : /\ entry'[p].status = entry[p].status
                            /\ entry'[p].audited <=> entry[p].audited
        BY <1>2, <2>1, RowTimes DEF Release, Shapes
    <2>3. r \in ActRec /\ r.pc = "idle"
        BY DEF ActRec, PCs
    <2>4. act' = [act EXCEPT ![w] = r] /\ log' = log /\ answer' = answer
        BY <1>2, ActorKinds DEF Release, End
    <2> HIDE DEF r
    <2> QED
        BY <2>2, <2>3, <2>4, KeepStatus
<1>3. ASSUME NEW o \in Ops, RetryTime(o) \/ LeaseExpires(o)
      PROVE  RecoveryInv'
    <2>1. /\ entry' \in [Ops -> EntryRec]
          /\ \A p \in Ops : /\ entry'[p].status = entry[p].status
                            /\ entry'[p].audited <=> entry[p].audited
        BY <1>3, RowTimes DEF RetryTime, LeaseExpires, Shapes
    <2>2. act' = act /\ log' = log /\ answer' = answer
        BY <1>3 DEF RetryTime, LeaseExpires
    <2> QED
        BY <2>1, <2>2, KeepStatus
<1>4. CASE RowLeaseExpires
    <2>1. entry' = entry /\ act' = act /\ log' = log /\ answer' = answer
        BY <1>4 DEF RowLeaseExpires
    <2> QED
        BY <2>1, KeepStatus DEF Shapes
<1> QED
    BY <1>1, <1>2, <1>3, <1>4

(* An actor writes the status of its operation's row, which is not closed, *)
(* or ends without having written.                                         *)
LEMMA WriteStatus ==
    ASSUME RecoveryInv, NEW a \in Actors, NEW o \in Ops, act[a].op = o,
           a \in Ops \/ entry[o].status # "none",
           NEW s \in Statuses \ {"none"}, ~entry[o].audited,
           entry' \in [Ops -> EntryRec],
           entry'[o].status = s, ~entry'[o].audited,
           \A p \in Ops \ {o} : entry'[p] = entry[p],
           s = "prepared" => entry[o].status = "none",
           NEW r \in ActRec, act' = [act EXCEPT ![a] = r],
           r.op = o, r.pc \notin {"idle", "record"}, r.pc = "finalize" => s \in Outcome,
           log' = log
    PROVE  Busy' /\ AuditedExactlyOnce'
<1> USE DEF RecoveryInv
<1>1. act'[a] = r /\ \A b \in Actors \ {a} : act'[b] = act[b]
    BY DEF Shapes
<1>2. \A p \in Ops : entry[p].status # "none" => entry'[p].status # "none"
    BY DEF Shapes
<1>3. \A p \in Ops : entry[p].status \in Outcome => entry'[p].status \in Outcome
    BY DEF Statuses, Outcome
<1>4. /\ \A p \in Ops : act'[p].op = p
      /\ \A p \in Ops : act'[p].pc = "idle" => entry'[p].status = "none"
    <2> SUFFICES ASSUME NEW p \in Ops
                 PROVE  act'[p].op = p /\ (act'[p].pc = "idle" => entry'[p].status = "none")
        OBVIOUS
    <2>1. CASE p = a
        BY <1>1, <2>1 DEF Busy
    <2>2. CASE p # a
        <3>1. act'[p] = act[p] /\ act[p].op = p
            BY <1>1, <2>2, ActorKinds DEF Busy
        <3>2. CASE p = o
            BY <3>1, <3>2, <1>1, ActorKinds DEF Busy
        <3> QED
            BY <3>1, <3>2 DEF Busy
    <2> QED
        BY <2>1, <2>2
<1>5. \A b \in Actors : act'[b].pc \notin {"idle", "done"} =>
          act'[b].op \in Ops /\ entry'[act'[b].op].status # "none"
    BY <1>1, <1>2 DEF Busy
<1>6. \A b \in Actors : act'[b].pc = "record" => act'[b].res \in Outcome
    BY <1>1 DEF Busy
<1>7. \A b \in Actors : act'[b].pc = "finalize" => entry'[act'[b].op].status \in Outcome
    <2> SUFFICES ASSUME NEW b \in Actors, act'[b].pc = "finalize"
                 PROVE  entry'[act'[b].op].status \in Outcome
        OBVIOUS
    <2>1. CASE b = a
        BY <1>1, <2>1
    <2>2. CASE b # a
        BY <1>1, <1>3, <2>2 DEF Busy
    <2> QED
        BY <2>1, <2>2
<1>8. \A p \in Ops : entry'[p].audited => entry'[p].status \in Outcome
    BY DEF Busy
<1>9. AuditedExactlyOnce'
    BY DEF AuditedExactlyOnce
<1> QED
    BY <1>4, <1>5, <1>6, <1>7, <1>8, <1>9 DEF Busy

(* The row is prepared, by its own request before it does anything else.   *)
LEMMA PrepareSteps ==
    ASSUME RecoveryInv, NEW o \in Ops, Prepare(o) \/ PrepareFails(o)
    PROVE  RecoveryInv'
<1> USE DEF RecoveryInv
<1>1. /\ o \in Actors /\ act[o].op = o /\ act[o].pc = "idle" /\ act[o] \in ActRec
      /\ entry[o].status = "none" /\ ~entry[o].audited
    BY ActorKinds DEF Busy, Prepare, PrepareFails, At, Outcome, Shapes
<1>2. /\ \E pc \in {"replay", "done"}, res \in {"none"} \cup {act[o].res} :
             act' = [act EXCEPT ![o] = [pc |-> pc, op |-> o, res |-> res]]
      /\ answer' = answer \/ answer' = [answer EXCEPT ![o] = "refused"]
      /\ log' = log
    BY <1>1 DEF Prepare, PrepareFails, Goto, End, Shapes, ActRec
<1>3. /\ entry' \in [Ops -> EntryRec] /\ ~entry'[o].audited
      /\ entry'[o].status \in {"none", "prepared"}
      /\ \A p \in Ops \ {o} : entry'[p] = entry[p]
    <2>1. PICK st \in {"none", "prepared"} : entry' = [entry EXCEPT ![o].status = st]
        BY <1>1 DEF Prepare, PrepareFails
    <2> QED
        BY <1>1, <2>1, RowStatus DEF Shapes, Statuses
<1>4. Shapes'
    BY <1>1, <1>2, <1>3 DEF Shapes, ActRec, PCs
<1>5. AnsweredIsAudited'
    BY <1>2, <1>3, <1>1 DEF AnsweredIsAudited, Shapes
<1>6. PICK pc \in {"replay", "done"}, res \in {"none"} \cup {act[o].res} :
          act' = [act EXCEPT ![o] = [pc |-> pc, op |-> o, res |-> res]]
    BY <1>2
<1>7. CASE entry'[o].status = "prepared"
    <2> DEFINE r == [pc |-> pc, op |-> o, res |-> res]
    <2>1. r \in ActRec /\ r.op = o /\ r.pc \notin {"idle", "record", "finalize"}
        BY <1>1 DEF ActRec, PCs
    <2>2. act' = [act EXCEPT ![o] = r]
        BY <1>6
    <2> HIDE DEF r
    <2>3. Busy' /\ AuditedExactlyOnce'
        BY <1>1, <1>2, <1>3, <1>7, <2>1, <2>2, WriteStatus DEF Statuses
    <2> QED
        BY <1>4, <1>5, <2>3
<1>8. CASE entry'[o].status = "none"
    <2>1. pc = "done"
        BY <1>1, <1>6, <1>8 DEF Prepare, PrepareFails, Goto, End, Shapes, ActRec, EntryRec
    <2> DEFINE r == [pc |-> pc, op |-> o, res |-> res]
    <2>2. /\ \A p \in Ops : /\ entry'[p].status = entry[p].status
                            /\ entry'[p].audited <=> entry[p].audited
        BY <1>1, <1>3, <1>8
    <2>3. /\ act'[o].pc = "done" /\ act'[o].op = o
          /\ \A b \in Actors \ {o} : act'[b] = act[b]
        BY <1>1, <1>6, <2>1 DEF Shapes
    <2>4. Busy'
        BY <1>1, <2>2, <2>3, ActorKinds DEF Busy
    <2>5. AuditedExactlyOnce'
        BY <1>2, <2>2 DEF AuditedExactlyOnce
    <2> QED
        BY <1>4, <1>5, <2>4, <2>5
<1> QED
    BY <1>3, <1>7, <1>8

(* An outcome is recorded, and only on a row that is not closed.           *)
LEMMA RecordSteps ==
    ASSUME RecoveryInv, NEW a \in Actors,
           \/ a \in Ops /\ RecordOutcome(a)
           \/ a \in Workers /\ RecordClaimed(a)
    PROVE  RecoveryInv'
<1> USE DEF RecoveryInv
<1> DEFINE o == act[a].op
<1>1. /\ act[a].pc = "record" /\ o \in Ops /\ act[a].res \in Outcome
      /\ entry[o].status # "none" /\ (a \in Ops => o = a)
      /\ act[a] \in ActRec /\ log' = log
    BY DEF Busy, RecordOutcome, RecordClaimed, At, Shapes
<1>2. \/ /\ ~entry[o].audited
         /\ entry' = [entry EXCEPT ![o].status = act[a].res, ![o].due = TRUE]
         /\ act' = [act EXCEPT ![a].pc = "finalize", ![a].res = act[a].res]
         /\ answer' = answer
      \/ /\ entry' = entry /\ a \in Ops
         /\ act' = [act EXCEPT ![a] = [act[a] EXCEPT !.pc = "done"]]
         /\ answer' = [answer EXCEPT ![a] = "pending"]
      \/ /\ entry' = entry /\ answer' = answer
         /\ act' = [act EXCEPT ![a].pc = "release", ![a].res = act[a].res]
    BY <1>1, ActorKinds DEF RecordOutcome, RecordClaimed, Leased, Goto, End, Shapes
<1>3. CASE /\ ~entry[o].audited
           /\ entry' = [entry EXCEPT ![o].status = act[a].res, ![o].due = TRUE]
           /\ act' = [act EXCEPT ![a].pc = "finalize", ![a].res = act[a].res]
           /\ answer' = answer
    <2> DEFINE r == [act[a] EXCEPT !.pc = "finalize", !.res = act[a].res]
    <2>1. r \in ActRec /\ r.op = o /\ r.pc = "finalize"
        BY <1>1 DEF ActRec, PCs
    <2>2. act' = [act EXCEPT ![a] = r]
        BY <1>3
    <2>3. act[a].res \in Statuses \ {"none"} /\ act[a].res # "prepared"
        BY <1>1 DEF Statuses, Outcome
    <2>4. /\ entry' \in [Ops -> EntryRec] /\ ~entry'[o].audited
          /\ entry'[o].status = act[a].res
          /\ \A p \in Ops \ {o} : entry'[p] = entry[p]
        BY <1>1, <1>3, <2>3, RowStatus DEF Shapes
    <2>5. log' = log /\ answer' = answer /\ ~entry[o].audited /\ act[a].op = o
        BY <1>1, <1>3
    <2>6. o \in Ops /\ entry[o].status # "none" /\ act[a].res \in Outcome
        BY <1>1
    <2> HIDE DEF r, o
    <2>7. Busy' /\ AuditedExactlyOnce'
        BY <2>1, <2>2, <2>3, <2>4, <2>5, <2>6, WriteStatus
    <2>8. Shapes'
        BY <2>1, <2>2, <2>4, <2>5 DEF Shapes
    <2>9. AnsweredIsAudited'
        BY <2>4, <2>5, <2>6 DEF AnsweredIsAudited
    <2> QED
        BY <2>7, <2>8, <2>9
<1>4. CASE /\ entry' = entry /\ a \in Ops
           /\ act' = [act EXCEPT ![a] = [act[a] EXCEPT !.pc = "done"]]
           /\ answer' = [answer EXCEPT ![a] = "pending"]
    <2>1. Shapes'
        BY <1>1, <1>4 DEF Shapes, ActRec, PCs
    <2>2. Busy'
        BY <1>1, <1>4, ActorKinds DEF Busy, Shapes, ActRec, PCs
    <2> QED
        BY <1>1, <1>4, <2>1, <2>2 DEF AnsweredIsAudited, AuditedExactlyOnce, Shapes
<1>5. CASE /\ entry' = entry /\ answer' = answer
           /\ act' = [act EXCEPT ![a].pc = "release", ![a].res = act[a].res]
    <2>1. Shapes'
        BY <1>1, <1>5 DEF Shapes, ActRec, PCs
    <2>2. Busy'
        BY <1>1, <1>5, ActorKinds DEF Busy, Shapes, ActRec, PCs
    <2> QED
        BY <1>1, <1>5, <2>1, <2>2 DEF AnsweredIsAudited, AuditedExactlyOnce
<1> QED
    BY <1>2, <1>3, <1>4, <1>5

(* The two audit rows are written once, for the outcome that is recorded.  *)
LEMMA FinalizeStep ==
    ASSUME RecoveryInv, NEW a \in Actors, FinalizeAudit(a)
    PROVE  RecoveryInv'
<1> USE DEF RecoveryInv
<1> DEFINE o == act[a].op
           ans == IF act[a].res = "error" THEN "failed" ELSE "ok"
<1>1. /\ o \in Ops /\ entry[o].status \in Outcome /\ (a \in Ops => o = a)
      /\ End(a, ans) /\ ans \in {"failed", "ok"}
    BY DEF Busy, FinalizeAudit, At
<1>2. \/ entry[o].audited /\ entry' = entry /\ log' = log
      \/ /\ ~entry[o].audited
         /\ entry' = [entry EXCEPT ![o].audited = TRUE, ![o].lease = None, ![o].live = FALSE]
         /\ log' = [log EXCEPT ![o] = <<entry[o].status>>]
    <2>1. entry[o].audited \/ log[o] = <<>>
        BY <1>1 DEF AuditedExactlyOnce
    <2>2. Append(<<>>, entry[o].status) = <<entry[o].status>>
        OBVIOUS
    <2> QED
        BY <1>1, <2>1, <2>2 DEF FinalizeAudit, Shapes
<1> HIDE DEF ans
<1>3. /\ entry' \in [Ops -> EntryRec] /\ entry'[o].audited
      /\ \A p \in Ops : entry'[p].status = entry[p].status
      /\ \A p \in Ops \ {o} : entry'[p].audited <=> entry[p].audited
    <2>1. entry \in [Ops -> EntryRec]
        BY DEF Shapes
    <2>2. CASE entry[o].audited /\ entry' = entry
        BY <2>1, <2>2
    <2>3. CASE entry' = [entry EXCEPT ![o].audited = TRUE, ![o].lease = None,
                                      ![o].live = FALSE]
        BY <1>1, <2>1, <2>3, RowClosed
    <2> QED
        BY <1>2, <2>2, <2>3
<1>4. log' \in [Ops -> Seq(Statuses)]
    <2>1. entry[o].status \in Statuses
        BY <1>1 DEF Statuses
    <2>2. <<entry[o].status>> \in Seq(Statuses)
        BY <2>1
    <2>3. log \in [Ops -> Seq(Statuses)]
        BY DEF Shapes
    <2> QED
        BY <1>2, <2>2, <2>3
<1>5. PICK r \in ActRec : /\ act' = [act EXCEPT ![a] = r] /\ r.pc \in {"idle", "done"}
                          /\ a \in Ops => r.pc = "done" /\ r.op = a
    <2>1. act[a] \in ActRec /\ (a \in Ops => act[a].op = a)
        BY DEF Shapes, Busy
    <2>2. CASE a \in Ops
        <3>1. [act[a] EXCEPT !.pc = "done"] \in ActRec
            BY <2>1 DEF ActRec, PCs
        <3> QED
            BY <1>1, <2>1, <2>2, <3>1 DEF End, ActRec
    <2>3. CASE a \notin Ops
        <3>1. [pc |-> "idle", op |-> None, res |-> "none"] \in ActRec
            BY DEF ActRec, PCs
        <3> QED
            BY <1>1, <2>3, <3>1 DEF End
    <2> QED
        BY <2>2, <2>3
<1>6. answer' \in [Ops -> {"none", "ok", "failed", "pending", "refused"}]
      /\ \A p \in Ops \ {a} : answer'[p] = answer[p]
    BY <1>1 DEF End, Shapes
<1>7. Shapes'
    BY <1>3, <1>4, <1>5, <1>6 DEF Shapes
<1>8. Busy'
    <2>1. act'[a] = r /\ \A b \in Actors \ {a} : act'[b] = act[b]
        BY <1>5 DEF Shapes
    <2>2. \A p \in Ops : /\ act'[p].op = p
                         /\ act'[p].pc = "idle" => entry'[p].status = "none"
        BY <1>3, <1>5, <2>1, ActorKinds DEF Busy
    <2>3. \A b \in Actors : act'[b].pc \notin {"idle", "done"} =>
              act'[b].op \in Ops /\ entry'[act'[b].op].status # "none"
        BY <1>3, <1>5, <2>1 DEF Busy
    <2>4. /\ \A b \in Actors : act'[b].pc = "record" => act'[b].res \in Outcome
          /\ \A b \in Actors : act'[b].pc = "finalize" => b # a
        BY <1>5, <2>1 DEF Busy
    <2>5. \A b \in Actors : act'[b].pc = "finalize" => entry'[act'[b].op].status \in Outcome
        BY <1>3, <2>1, <2>3, <2>4 DEF Busy
    <2>6. \A p \in Ops : entry'[p].audited => entry'[p].status \in Outcome
        BY <1>1, <1>3 DEF Busy
    <2> QED
        BY <2>2, <2>3, <2>4, <2>5, <2>6 DEF Busy
<1>9. AuditedExactlyOnce'
    <2>1. CASE entry' = entry /\ log' = log
        BY <2>1 DEF AuditedExactlyOnce
    <2>2. CASE log' = [log EXCEPT ![o] = <<entry[o].status>>]
        <3>1. log'[o] = <<entry'[o].status>> /\ \A p \in Ops \ {o} : log'[p] = log[p]
            BY <1>1, <1>3, <2>2 DEF Shapes
        <3> QED
            BY <1>3, <3>1 DEF AuditedExactlyOnce
    <2> QED
        BY <1>2, <2>1, <2>2
<1>10. AnsweredIsAudited'
    BY <1>1, <1>3, <1>6 DEF AnsweredIsAudited
<1> QED
    BY <1>7, <1>8, <1>9, <1>10

LEMMA NextRecovery == RecoveryInv /\ [RecoveryNext]_recoveryVars => RecoveryInv'
<1> SUFFICES ASSUME RecoveryInv, [RecoveryNext]_recoveryVars
             PROVE  RecoveryInv'
    OBVIOUS
<1>1. CASE UNCHANGED recoveryVars
    BY <1>1 DEF recoveryVars, RecoveryInv, Shapes, Busy, AnsweredIsAudited, AuditedExactlyOnce
<1> QED
    BY <1>1, ReplaySteps, LeaseSteps, PrepareSteps, RecordSteps, FinalizeStep, ActorKinds
    DEF RecoveryNext, WorkerStep, ActorStep

(* All of it holds in every state.                                         *)
THEOREM RecoveryInvariant == RecoverySpec => []RecoveryInv
<1> QED
    BY InitRecovery, NextRecovery, PTL DEF RecoverySpec

(* Whatever requests and workers do to an operation, it gets its pair of   *)
(* audit rows once, when its journal row is closed (FinalizeAudit).        *)
THEOREM OnePairOfAuditRows == RecoverySpec => []AuditedExactlyOnce
<1>1. RecoveryInv => AuditedExactlyOnce
    BY DEF RecoveryInv
<1> QED
    BY <1>1, RecoveryInvariant, PTL

(* What Execute returned as done or as audited has been audited.           *)
THEOREM AnswersAreAudited == RecoverySpec => []AnsweredIsAudited
<1>1. RecoveryInv => AnsweredIsAudited
    BY DEF RecoveryInv
<1> QED
    BY <1>1, RecoveryInvariant, PTL

(* An operation is audited once: neither a request whose place a worker    *)
(* took nor a worker whose lease ran out closes or rewrites its row again.  *)
THEOREM AuditsAreFinal == RecoverySpec => AuditIsFinal
<1> DEFINE Kept(o) == /\ entry'[o].audited
                      /\ entry'[o].status = entry[o].status
                      /\ log'[o] = log[o]
<1>1. ASSUME RecoveryInv, [RecoveryNext]_recoveryVars, NEW o \in Ops, entry[o].audited
      PROVE  Kept(o)
    <2>0. /\ entry \in [Ops -> EntryRec] /\ log \in [Ops -> Seq(Statuses)]
          /\ entry[o].status \in Outcome /\ act[o].pc # "idle"
        BY <1>1 DEF RecoveryInv, Shapes, Busy, Outcome
    <2>1. entry' = entry /\ log' = log => Kept(o)
        BY <1>1
    <2>2. ASSUME NEW p \in Ops, Prepare(p) \/ PrepareFails(p) PROVE Kept(o)
        <3>1. p # o /\ log' = log
            BY <2>0, <2>2 DEF Prepare, PrepareFails, At
        <3>2. \E s \in Statuses : entry' = [entry EXCEPT ![p].status = s]
            <4>1. entry[p].status \in Statuses
                BY <2>0 DEF EntryRec
            <4> QED
                BY <2>2, <4>1 DEF Prepare, PrepareFails, Statuses
        <3> QED
            BY <1>1, <2>0, <3>1, <3>2, RowStatus
    <2>3. ASSUME NEW p \in Ops, RecordOutcome(p) PROVE Kept(o)
        BY <1>1, <2>0, <2>3 DEF RecordOutcome
    <2>4. ASSUME NEW w \in Workers, RecordClaimed(w) PROVE Kept(o)
        BY <1>1, <2>0, <2>4 DEF RecordClaimed, Leased
    <2>5. ASSUME NEW w \in Workers, Release(w) PROVE Kept(o)
        BY <1>1, <2>0, <2>5 DEF Release, Leased
    <2>6. ASSUME NEW w \in Workers, NEW p \in Ops, Claim(w, p) PROVE Kept(o)
        BY <1>1, <2>0, <2>6 DEF Claim
    <2>7. ASSUME NEW a \in Actors, ActorStep(a) \/ DeliverFails(a) \/ FinalizeFails(a) \/ Crash(a)
          PROVE  Kept(o)
        <3>1. CASE FinalizeAudit(a)
            BY <1>1, <2>0, <3>1 DEF FinalizeAudit
        <3> QED
            BY <2>1, <2>7, <3>1
               DEF ActorStep, ClaimRow, RowNotFound, Deliver, DeliverFails, FinalizeFails, Crash
    <2>8. ASSUME NEW p \in Ops, RetryTime(p) \/ LeaseExpires(p) PROVE Kept(o)
        <3>1. log' = log
            BY <2>8 DEF RetryTime, LeaseExpires
        <3>2. entry' = [entry EXCEPT ![p].due = TRUE] \/ entry' = [entry EXCEPT ![p].live = FALSE]
            BY <2>8 DEF RetryTime, LeaseExpires
        <3> QED
            BY <1>1, <2>0, <3>1, <3>2, RowTimes
    <2>9. RowLeaseExpires \/ UNCHANGED recoveryVars => Kept(o)
        BY <2>1 DEF RowLeaseExpires, recoveryVars
    <2> QED
        BY <1>1, <2>2, <2>3, <2>4, <2>5, <2>6, <2>7, <2>8, <2>9 DEF RecoveryNext, WorkerStep
<1>2. ASSUME RecoveryInv, [RecoveryNext]_recoveryVars
      PROVE  \A o \in Ops : entry[o].audited =>
                 /\ entry'[o].audited
                 /\ entry'[o].status = entry[o].status
                 /\ log'[o] = log[o]
    BY <1>1, <1>2
<1> QED
    BY <1>2, InitRecovery, NextRecovery, PTL DEF RecoverySpec, AuditIsFinal

-----------------------------------------------------------------------------
(* The rest of the types: the dead-letter row, the counts, and that only a *)
(* leased row has a lease to run out.                                      *)
RowOK == /\ row \in [status : {"parked", "inflight", "delivered"},
                     holder : Actors \cup {None}, live : BOOLEAN]
         /\ row.live => row.holder # None

CountsOK == denied \subseteq Ops /\ faults \in 0..MaxFaults

LeasesOK == \A o \in Ops : entry[o].live => entry[o].lease # None

LEMMA RowTyped == RowOK /\ [RecoveryNext]_recoveryVars => RowOK'
<1> SUFFICES ASSUME RowOK, [RecoveryNext]_recoveryVars
             PROVE  RowOK'
    OBVIOUS
<1>1. CASE UNCHANGED row
    BY <1>1 DEF RowOK
<1>2. ASSUME NEW a \in Actors, ClaimRow(a) \/ Deliver(a) \/ DeliverFails(a)
      PROVE  RowOK'
    <2>1. a # None
        BY ActorKinds DEF Actors
    <2>2. CASE row' = [status |-> "inflight", holder |-> a, live |-> TRUE]
        BY <2>1, <2>2 DEF RowOK
    <2>3. CASE \E s \in {"parked", "delivered"} :
                   row' = [status |-> s, holder |-> None, live |-> FALSE]
        BY <2>3 DEF RowOK
    <2>4. ClaimRow(a) => row' = [status |-> "inflight", holder |-> a, live |-> TRUE]
        BY DEF ClaimRow
    <2>5. Deliver(a) => \/ UNCHANGED row
                        \/ row' = [status |-> "delivered", holder |-> None, live |-> FALSE]
        BY DEF Deliver
    <2>6. DeliverFails(a) => \/ UNCHANGED row
                             \/ row' = [status |-> "parked", holder |-> None, live |-> FALSE]
        BY DEF DeliverFails
    <2> QED
        BY <1>1, <1>2, <2>2, <2>3, <2>4, <2>5, <2>6
<1>3. CASE RowLeaseExpires
    BY <1>3 DEF RowLeaseExpires, RowOK
<1> QED
    BY <1>1, <1>2, <1>3
    DEF RecoveryNext, recoveryVars, WorkerStep, ActorStep, Prepare, PrepareFails, RecordOutcome,
        RecordClaimed, Release, Claim, RowNotFound, FinalizeAudit, FinalizeFails, Crash,
        RetryTime, LeaseExpires

LEMMA CountsTyped == CountsOK /\ [RecoveryNext]_recoveryVars => CountsOK'
<1> SUFFICES ASSUME CountsOK, [RecoveryNext]_recoveryVars
             PROVE  CountsOK'
    OBVIOUS
<1>1. Fault => faults' \in 0..MaxFaults
    BY HermesAssumption DEF HermesAssumption, Fault, CountsOK
<1>2. CASE UNCHANGED denied /\ (UNCHANGED faults \/ Fault)
    BY <1>1, <1>2 DEF CountsOK
<1>3. ASSUME NEW o \in Ops, PrepareFails(o)
      PROVE  CountsOK'
    BY <1>1, <1>3 DEF PrepareFails, CountsOK
<1>4. ASSUME NEW o \in Ops, RecordOutcome(o)
      PROVE  CountsOK'
    BY <1>2, <1>4 DEF RecordOutcome, Fault
<1>5. ASSUME NEW o \in Ops, Prepare(o) \/ RetryTime(o) \/ LeaseExpires(o)
      PROVE  CountsOK'
    BY <1>2, <1>5 DEF Prepare, RetryTime, LeaseExpires
<1>6. ASSUME NEW w \in Workers, NEW o \in Ops, Claim(w, o)
      PROVE  CountsOK'
    BY <1>2, <1>6 DEF Claim
<1>7. ASSUME NEW w \in Workers, WorkerStep(w)
      PROVE  CountsOK'
    BY <1>2, <1>7 DEF WorkerStep, RecordClaimed, Release
<1>8. ASSUME NEW a \in Actors, ActorStep(a) \/ DeliverFails(a) \/ FinalizeFails(a) \/ Crash(a)
      PROVE  CountsOK'
    BY <1>2, <1>8
    DEF ActorStep, ClaimRow, RowNotFound, Deliver, FinalizeAudit, DeliverFails, FinalizeFails,
        Crash
<1>9. CASE RowLeaseExpires \/ UNCHANGED recoveryVars
    BY <1>2, <1>9 DEF RowLeaseExpires, recoveryVars
<1> QED
    BY <1>3, <1>4, <1>5, <1>6, <1>7, <1>8, <1>9 DEF RecoveryNext

LEMMA LeasesTyped ==
    RecoveryInv /\ LeasesOK /\ [RecoveryNext]_recoveryVars => LeasesOK'
<1> SUFFICES ASSUME RecoveryInv, LeasesOK, [RecoveryNext]_recoveryVars
             PROVE  LeasesOK'
    OBVIOUS
<1>1. entry \in [Ops -> EntryRec]
    BY DEF RecoveryInv, Shapes
<1>2. CASE UNCHANGED entry
    BY <1>2 DEF LeasesOK
<1>3. ASSUME NEW o \in Ops,
             \/ Prepare(o) \/ PrepareFails(o) \/ RecordOutcome(o) \/ RetryTime(o)
             \/ LeaseExpires(o)
      PROVE  LeasesOK'
    BY <1>1, <1>3
    DEF EntryRec, Prepare, PrepareFails, RecordOutcome, RetryTime, LeaseExpires, LeasesOK
<1>4. ASSUME NEW w \in Workers, NEW o \in Ops, Claim(w, o)
      PROVE  LeasesOK'
    BY <1>1, <1>4, ActorKinds DEF EntryRec, Claim, LeasesOK
<1>5. ASSUME NEW w \in Workers, WorkerStep(w)
      PROVE  LeasesOK'
    BY <1>1, <1>5 DEF EntryRec, WorkerStep, RecordClaimed, Release, LeasesOK
<1>6. ASSUME NEW a \in Actors, FinalizeAudit(a)
      PROVE  LeasesOK'
    BY <1>1, <1>6 DEF EntryRec, FinalizeAudit, LeasesOK
<1> QED
    BY <1>2, <1>3, <1>4, <1>5, <1>6
    DEF RecoveryNext, recoveryVars, ActorStep, ClaimRow, RowNotFound, Deliver, DeliverFails,
        FinalizeFails, Crash, RowLeaseExpires

(* All the promises of a replay hold for any operations, workers and       *)
(* number of faults (RecoverySafety).                                      *)
THEOREM ReplaysAreSafe == RecoverySpec => []RecoverySafety
<1>1. RecoveryInit => RowOK /\ CountsOK /\ LeasesOK
    BY HermesAssumption DEF HermesAssumption, RecoveryInit, RowOK, CountsOK, LeasesOK
<1>2. RecoveryInv /\ RowOK /\ CountsOK /\ LeasesOK => RecoverySafety
    BY DEF RecoveryInv, Shapes, EntryRec, ActRec, PCs, Statuses, RowOK, CountsOK, LeasesOK,
           RecoverySafety, RecoveryTypeOK
<1> QED
    BY <1>1, <1>2, RecoveryInvariant, RowTyped, CountsTyped, LeasesTyped, PTL DEF RecoverySpec

-----------------------------------------------------------------------------
(* The dead-letter queue.                                                   *)

(* What handling a row leaves in the ledger: its own effect, or, for a      *)
(* usage row, one of another attempt of the claim.                          *)
InLedger(r) == effects[r] > 0 \/ (Kind[r] = "usage" /\ otherUsage[r])

(* What a worker with a lease still knows when it marks its row: as long as *)
(* the row has the deadline it read, it leased the row last and the count   *)
(* it read is the row's.  What it found or stored is there.                 *)
Knows(w) ==
    LET r == queueWorker[w].row IN
    queueWorker[w].pc # "idle" =>
        /\ r \in Rows /\ queueWorker[w].until \in Leases
        /\ queueRow[r].until = queueWorker[w].until =>
              holder[r] = w /\ queueRow[r].attempts = queueWorker[w].attempts
        /\ queueWorker[w].pc = "insert" /\ queueWorker[w].seen => effects[r] > 0 \/ otherUsage[r]
        /\ queueWorker[w].pc = "delivered" => Kind[r] = "signal" \/ InLedger(r)

QueueInv == QueueSafety /\ \A w \in QueueWorkers : Knows(w)

(* A row's type and a worker's, as sets.                                    *)
QueueWork == [pc : {"idle", "handle", "insert", "delivered", "failed", "poison"},
              row : Rows \cup {NoHolder}, until : Leases \cup {0}, attempts : 0..MaxAttempts,
              seen : BOOLEAN]
Lessee(r) == queueRow[r].status = "inflight" <=> queueRow[r].owner # NoHolder

LEMMA QueueFacts ==
    /\ MaxAttempts \in Nat \ {0} /\ MaxQueueFaults \in Nat /\ Leases \subseteq Nat /\ 0 \notin Leases
    /\ Kind \in [Rows -> {"settlement", "usage", "replica", "signal"}]
    /\ 0 \in 0..MaxAttempts
    /\ \A n \in 0..MaxAttempts : More(n) \in 0..MaxAttempts
    /\ QueueRow = [status : {"absent", "pending", "inflight", "delivered", "operator_review", "quarantined"},
                    due : BOOLEAN, owner : {OwnerOf[w] : w \in QueueWorkers} \cup {NoHolder},
                    until : Leases \cup {0}, live : BOOLEAN, attempts : 0..MaxAttempts]
    /\ Idle \in QueueWork /\ Idle.pc = "idle"
    /\ \A w \in QueueWorkers : OwnerOf[w] # NoHolder
  <1>1. MaxAttempts \in Nat \ {0}
    BY QueueAssumption
  <1>2. \A n \in 0..MaxAttempts : More(n) \in 0..MaxAttempts
    BY <1>1 DEF More
  <1>3. QueueRow = [status : {"absent", "pending", "inflight", "delivered", "operator_review", "quarantined"},
                     due : BOOLEAN, owner : {OwnerOf[w] : w \in QueueWorkers} \cup {NoHolder},
                     until : Leases \cup {0}, live : BOOLEAN, attempts : 0..MaxAttempts]
    <2>1. Status = {"absent", "pending", "inflight", "delivered", "operator_review", "quarantined"}
      BY DEF Status, Shelved
    <2> QED BY <2>1 DEF QueueRow, Owners
  <1>4. 0 \in 0..MaxAttempts
    BY <1>1
  <1>5. Idle \in QueueWork /\ Idle.pc = "idle"
    BY <1>4 DEF Idle, QueueWork
  <1> QED BY <1>1, <1>2, <1>3, <1>4, <1>5, QueueAssumption DEF Kinds

LEMMA QueueRowIs ==
    QueueRow = [status : {"absent", "pending", "inflight", "delivered", "operator_review", "quarantined"},
                due : BOOLEAN, owner : {OwnerOf[w] : w \in QueueWorkers} \cup {NoHolder},
                until : Leases \cup {0}, live : BOOLEAN, attempts : 0..MaxAttempts]
  BY QueueFacts

(* The invariant, a part at a time: each step disturbs few of them.         *)
LEMMA QueueParts ==
    QueueInv <=>
        /\ queueRow \in [Rows -> QueueRow] /\ \A r \in Rows : Lessee(r)
        /\ queueWorker \in [QueueWorkers -> QueueWork]
        /\ effects \in [Rows -> Nat] /\ otherUsage \in [Rows -> BOOLEAN]
        /\ failures \in [Rows -> 0..MaxAttempts]
        /\ holder \in [Rows -> QueueWorkers \cup {NoHolder}] /\ queueFaults \in 0..MaxQueueFaults
        /\ AttemptsAreFailures /\ DeliveredWasHandled
        /\ \A w \in QueueWorkers : Knows(w)
  BY DEF QueueInv, QueueSafety, QueueTypeOK, QueueWork, Lessee

LEMMA InitQueue == QueueInit => QueueInv
  <1> SUFFICES ASSUME QueueInit PROVE QueueInv
    OBVIOUS
  <1> DEFINE First == [status : {"absent", "operator_review"}, due : {TRUE},
                       owner : {NoHolder}, until : {0}, live : {FALSE}, attempts : {0}]
  <1>1. queueRow \in [Rows -> First]
    BY DEF QueueInit
  <1>2. First \subseteq QueueRow
    BY QueueFacts
  <1>3. \A r \in Rows : queueRow[r] \in First
    BY <1>1
  <1>4. queueRow \in [Rows -> QueueRow] /\ \A r \in Rows : Lessee(r)
    <2>1. \A r \in Rows : queueRow[r].status # "inflight" /\ queueRow[r].owner = NoHolder
      BY <1>3
    <2> QED BY <1>1, <1>2, <2>1 DEF Lessee
  <1>5. /\ queueWorker = [w \in QueueWorkers |-> Idle]
        /\ effects = [r \in Rows |-> 0] /\ otherUsage = [r \in Rows |-> FALSE]
        /\ failures = [r \in Rows |-> 0]
        /\ holder = [r \in Rows |-> NoHolder] /\ queueFaults = 0
    BY DEF QueueInit
  <1>6. queueWorker \in [QueueWorkers -> QueueWork] /\ \A w \in QueueWorkers : queueWorker[w].pc = "idle"
    BY <1>5, QueueFacts
  <1>7. /\ effects \in [Rows -> Nat] /\ otherUsage \in [Rows -> BOOLEAN]
        /\ failures \in [Rows -> 0..MaxAttempts]
        /\ holder \in [Rows -> QueueWorkers \cup {NoHolder}] /\ queueFaults \in 0..MaxQueueFaults
    BY <1>5, QueueFacts
  <1>8. AttemptsAreFailures /\ DeliveredWasHandled
    <2>1. \A r \in Rows : queueRow[r].attempts = 0 /\ queueRow[r].status # "delivered"
      BY <1>3
    <2> QED BY <1>5, <2>1 DEF AttemptsAreFailures, DeliveredWasHandled
  <1>9. \A w \in QueueWorkers : Knows(w)
    BY <1>6 DEF Knows, InLedger
  <1> QED BY <1>4, <1>6, <1>7, <1>8, <1>9, QueueParts

LEMMA PrimedQueueParts ==
    /\ queueRow' \in [Rows -> QueueRow] /\ \A r \in Rows : Lessee(r)'
    /\ queueWorker' \in [QueueWorkers -> QueueWork]
    /\ effects' \in [Rows -> Nat] /\ otherUsage' \in [Rows -> BOOLEAN]
    /\ failures' \in [Rows -> 0..MaxAttempts]
    /\ holder' \in [Rows -> QueueWorkers \cup {NoHolder}] /\ queueFaults' \in 0..MaxQueueFaults
    /\ AttemptsAreFailures' /\ DeliveredWasHandled'
    /\ \A w \in QueueWorkers : Knows(w)'
    => QueueInv'
  BY DEF QueueInv, QueueSafety, QueueTypeOK, QueueWork, Lessee

LEMMA ClockKeepsQueue ==
    ASSUME QueueInv, NEW r \in Rows,
           Enqueue(r) \/ ExpireLease(r) \/ BecomeDue(r)
    PROVE  QueueInv'
  <1>0. /\ queueRow \in [Rows -> QueueRow] /\ \A k \in Rows : Lessee(k)
        /\ queueWorker \in [QueueWorkers -> QueueWork]
        /\ effects \in [Rows -> Nat] /\ otherUsage \in [Rows -> BOOLEAN]
        /\ failures \in [Rows -> 0..MaxAttempts]
        /\ holder \in [Rows -> QueueWorkers \cup {NoHolder}] /\ queueFaults \in 0..MaxQueueFaults
        /\ AttemptsAreFailures /\ DeliveredWasHandled
        /\ \A w \in QueueWorkers : Knows(w)
    BY QueueParts
  <1>1. UNCHANGED <<queueWorker, effects, otherUsage, failures, holder>>
    BY DEF Enqueue, ExpireLease, BecomeDue
  <1>2. queueFaults' \in 0..MaxQueueFaults
    BY <1>0, QueueFacts DEF Enqueue, ExpireLease, BecomeDue, QueueFault
  <1>3. /\ queueRow' \in [Rows -> QueueRow]
        /\ \A k \in Rows :
              /\ queueRow'[k].owner = queueRow[k].owner /\ queueRow'[k].until = queueRow[k].until
              /\ queueRow'[k].attempts = queueRow[k].attempts
              /\ \/ queueRow'[k].status = queueRow[k].status
                 \/ queueRow[k].status = "absent" /\ queueRow'[k].status = "pending"
    <2>0. queueRow[r] \in QueueRow /\ DOMAIN queueRow = Rows
      BY <1>0
    <2>1. CASE Enqueue(r)
      <3> DEFINE st == IF queueRow[r].status = "absent" THEN "pending" ELSE queueRow[r].status
                 x == [queueRow[r] EXCEPT !.status = st, !.due = TRUE]
      <3>1. queueRow' = [queueRow EXCEPT ![r].status = st, ![r].due = TRUE]
        BY <2>1 DEF Enqueue
      <3>2. /\ st \in Status
            /\ st = queueRow[r].status \/ (queueRow[r].status = "absent" /\ st = "pending")
        BY <2>0 DEF QueueRow, Status
      <3> HIDE DEF st
      <3>3. queueRow' = [queueRow EXCEPT ![r] = x]
        BY <1>0, <3>1
      <3>4. /\ x \in QueueRow /\ x.owner = queueRow[r].owner /\ x.until = queueRow[r].until
            /\ x.attempts = queueRow[r].attempts /\ x.status = st
        BY <2>0, <3>2 DEF QueueRow
      <3> HIDE DEF x
      <3> QED BY <1>0, <3>2, <3>3, <3>4
    <2>2. CASE ExpireLease(r)
      <3> DEFINE x == [queueRow[r] EXCEPT !.live = FALSE]
      <3>1. queueRow' = [queueRow EXCEPT ![r] = x]
        BY <2>2 DEF ExpireLease
      <3>2. /\ x \in QueueRow /\ x.owner = queueRow[r].owner /\ x.until = queueRow[r].until
            /\ x.attempts = queueRow[r].attempts /\ x.status = queueRow[r].status
        BY <2>0 DEF QueueRow, Status, Shelved
      <3> HIDE DEF x
      <3> QED BY <1>0, <3>1, <3>2
    <2>3. CASE BecomeDue(r)
      <3> DEFINE x == [queueRow[r] EXCEPT !.due = TRUE]
      <3>1. queueRow' = [queueRow EXCEPT ![r] = x]
        BY <2>3 DEF BecomeDue
      <3>2. /\ x \in QueueRow /\ x.owner = queueRow[r].owner /\ x.until = queueRow[r].until
            /\ x.attempts = queueRow[r].attempts /\ x.status = queueRow[r].status
        BY <2>0 DEF QueueRow, Status, Shelved
      <3> HIDE DEF x
      <3> QED BY <1>0, <3>1, <3>2
    <2> QED BY <2>1, <2>2, <2>3
  <1>4. \A k \in Rows : Lessee(k)'
    BY <1>0, <1>3 DEF Lessee
  <1>5. AttemptsAreFailures' /\ DeliveredWasHandled'
    BY <1>0, <1>1, <1>3 DEF AttemptsAreFailures, DeliveredWasHandled
  <1>6. \A w \in QueueWorkers : Knows(w)'
    BY <1>0, <1>1, <1>3 DEF Knows, InLedger
  <1> QED BY <1>0, <1>1, <1>2, <1>3, <1>4, <1>5, <1>6, PrimedQueueParts

LEMMA LeaseKeepsQueue ==
    ASSUME QueueInv, NEW w \in QueueWorkers, NEW r \in Rows, Lease(w, r)
    PROVE  QueueInv'
  <1>0. /\ queueRow \in [Rows -> QueueRow] /\ \A k \in Rows : Lessee(k)
        /\ queueWorker \in [QueueWorkers -> QueueWork]
        /\ effects \in [Rows -> Nat] /\ otherUsage \in [Rows -> BOOLEAN]
        /\ failures \in [Rows -> 0..MaxAttempts]
        /\ holder \in [Rows -> QueueWorkers \cup {NoHolder}] /\ queueFaults \in 0..MaxQueueFaults
        /\ AttemptsAreFailures /\ DeliveredWasHandled
        /\ \A v \in QueueWorkers : Knows(v)
    BY QueueParts
  <1>1. PICK n \in Leases :
           /\ Fresh(r, n)
           /\ queueRow' = [queueRow EXCEPT ![r].status = "inflight", ![r].owner = OwnerOf[w],
                                           ![r].until = n, ![r].live = TRUE]
           /\ queueWorker' = [queueWorker EXCEPT ![w] =
                [pc |-> "handle", row |-> r, until |-> n, attempts |-> queueRow[r].attempts, seen |-> FALSE]]
    BY DEF Lease
  <1>2. /\ holder' = [holder EXCEPT ![r] = w] /\ UNCHANGED <<effects, otherUsage, failures, queueFaults>>
    BY DEF Lease
  <1>3. /\ queueRow' \in [Rows -> QueueRow]
        /\ queueRow'[r].status = "inflight" /\ queueRow'[r].owner = OwnerOf[w] /\ queueRow'[r].until = n
        /\ queueRow'[r].attempts = queueRow[r].attempts
        /\ \A k \in Rows : k # r => queueRow'[k] = queueRow[k]
    <2> DEFINE x == [queueRow[r] EXCEPT !.status = "inflight", !.owner = OwnerOf[w], !.until = n, !.live = TRUE]
    <2>1. queueRow' = [queueRow EXCEPT ![r] = x]
      BY <1>0, <1>1
    <2>2. queueRow[r] \in QueueRow
      BY <1>0
    <2>4. OwnerOf[w] \in Owners
      BY DEF Owners
    <2>3. /\ x \in QueueRow /\ x.status = "inflight" /\ x.owner = OwnerOf[w] /\ x.until = n
          /\ x.attempts = queueRow[r].attempts
      BY <2>2, <2>4 DEF QueueRow, Status, Shelved
    <2> HIDE DEF x
    <2> QED BY <1>0, <2>1, <2>3
  <1>4. \A k \in Rows : Lessee(k)'
    BY <1>0, <1>3, QueueFacts DEF Lessee
  <1>5. /\ queueWorker' \in [QueueWorkers -> QueueWork]
        /\ queueWorker'[w] = [pc |-> "handle", row |-> r, until |-> n,
                              attempts |-> queueRow[r].attempts, seen |-> FALSE]
        /\ \A v \in QueueWorkers : v # w => queueWorker'[v] = queueWorker[v]
    <2>1. queueRow[r].attempts \in 0..MaxAttempts
      BY <1>0, QueueFacts
    <2> QED BY <1>0, <1>1, <2>1 DEF QueueWork
  <1>6. holder' \in [Rows -> QueueWorkers \cup {NoHolder}] /\ holder'[r] = w
        /\ \A k \in Rows : k # r => holder'[k] = holder[k]
    BY <1>0, <1>2
  <1>7. AttemptsAreFailures' /\ DeliveredWasHandled'
    BY <1>0, <1>2, <1>3 DEF AttemptsAreFailures, DeliveredWasHandled
  <1>8. ASSUME NEW v \in QueueWorkers
        PROVE  Knows(v)'
    <2>1. CASE v = w
      BY <1>3, <1>5, <1>6, <2>1 DEF Knows, InLedger
    <2>2. CASE v # w /\ queueWorker[v].row # r
      BY <1>0, <1>2, <1>3, <1>5, <1>6, <2>2 DEF Knows, InLedger
    <2>3. CASE v # w /\ queueWorker[v].row = r
      <3>1. queueWorker[v].until # n
        BY <1>1, <2>3 DEF Fresh
      <3> QED BY <1>0, <1>2, <1>3, <1>5, <1>6, <2>3, <3>1 DEF Knows, InLedger
    <2> QED BY <2>1, <2>2, <2>3
  <1> QED BY <1>0, <1>2, <1>3, <1>4, <1>5, <1>6, <1>7, <1>8, PrimedQueueParts

(* Handling touches no row: a worker moves on, and what is stored stays.    *)
LEMMA HandlerKeepsQueue ==
    ASSUME QueueInv, NEW w \in QueueWorkers,
           Look(w) \/ HandlerDone(w) \/ HandlerFails(w) \/ WorkerCrash(w)
    PROVE  QueueInv'
  <1>0. /\ queueRow \in [Rows -> QueueRow] /\ \A k \in Rows : Lessee(k)
        /\ queueWorker \in [QueueWorkers -> QueueWork]
        /\ effects \in [Rows -> Nat] /\ otherUsage \in [Rows -> BOOLEAN]
        /\ failures \in [Rows -> 0..MaxAttempts]
        /\ holder \in [Rows -> QueueWorkers \cup {NoHolder}] /\ queueFaults \in 0..MaxQueueFaults
        /\ AttemptsAreFailures /\ DeliveredWasHandled
        /\ \A v \in QueueWorkers : Knows(v)
    BY QueueParts
  <1> DEFINE r == queueWorker[w].row
             x == queueWorker[w]
             y == queueWorker'[w]
  <1>1. UNCHANGED <<queueRow, otherUsage, failures, holder>>
    BY DEF Look, HandlerDone, HandlerFails, WorkerCrash
  <1>2. x.pc # "idle" /\ r \in Rows
    <2>1. x.pc # "idle"
      BY DEF Look, HandlerDone, HandlerFails, WorkerCrash
    <2> QED BY <1>0, <2>1 DEF Knows, InLedger
  <1>3. queueFaults' \in 0..MaxQueueFaults
    BY <1>0, QueueFacts DEF Look, HandlerDone, HandlerFails, WorkerCrash, QueueFault
  <1>4. /\ effects' \in [Rows -> Nat] /\ \A k \in Rows : effects'[k] >= effects[k]
    <2>1. CASE HandlerDone(w)
      <3>1. effects' = effects \/ effects' = [effects EXCEPT ![r] = @ + 1] \/ effects' = [effects EXCEPT ![r] = @ + 0]
        BY <2>1 DEF HandlerDone, Store
      <3> QED BY <1>0, <1>2, <3>1
    <2>2. CASE ~HandlerDone(w)
      <3>1. effects' = effects
        BY <2>2 DEF Look, HandlerFails, WorkerCrash
      <3> QED BY <1>0, <3>1
    <2> QED BY <2>1, <2>2
  <1>5. /\ queueWorker' \in [QueueWorkers -> QueueWork]
        /\ \A v \in QueueWorkers : v # w => queueWorker'[v] = queueWorker[v]
        /\ \/ y.pc = "idle"
           \/ /\ y.row = r /\ y.until = x.until /\ y.attempts = x.attempts
              /\ y.pc = "insert" /\ y.seen => effects[r] > 0 \/ otherUsage[r]
              /\ y.pc = "delivered" => Kind[r] = "signal" \/ InLedger(r)'
    <2>1. CASE Look(w)
      <3> DEFINE z == [x EXCEPT !.pc = "insert", !.seen = effects[r] > 0 \/ otherUsage[r]]
      <3>1. queueWorker' = [queueWorker EXCEPT ![w] = z]
        BY <1>0, <2>1 DEF Look
      <3>2. (effects[r] > 0 \/ otherUsage[r]) \in BOOLEAN /\ x \in QueueWork
        BY <1>0
      <3>3. /\ z \in QueueWork /\ z.row = r /\ z.until = x.until /\ z.attempts = x.attempts
            /\ z.pc = "insert" /\ z.seen = (effects[r] > 0 \/ otherUsage[r])
        BY <3>2 DEF QueueWork
      <3> HIDE DEF z
      <3> QED BY <1>0, <3>1, <3>3
    <2>2. CASE HandlerDone(w)
      <3>1. PICK pc \in {"delivered", "failed"} : queueWorker' = [queueWorker EXCEPT ![w].pc = pc]
        BY <2>2 DEF HandlerDone, Handled
      <3>2. /\ queueWorker' \in [QueueWorkers -> QueueWork]
            /\ \A v \in QueueWorkers : v # w => queueWorker'[v] = queueWorker[v]
            /\ y.row = r /\ y.until = x.until /\ y.attempts = x.attempts /\ y.pc = pc
        BY <1>0, <3>1 DEF QueueWork
      <3>3. Kind[r] = "signal" \/ InLedger(r)'
        <4>0. effects \in [Rows -> Nat] /\ r \in Rows
          BY <1>0, <1>2
        <4>1. CASE Kind[r] = "usage"
          <5>1. x.pc = "insert" /\ effects' = [effects EXCEPT ![r] = @ + (IF x.seen THEN 0 ELSE 1)]
            BY <2>2, <4>1 DEF HandlerDone, Store
          <5>2. x.seen => effects[r] > 0 \/ otherUsage[r]
            BY <1>0, <5>1 DEF Knows, InLedger
          <5>3. x.seen \in BOOLEAN /\ effects[r] \in Nat
            BY <1>0, <1>2 DEF QueueWork
          <5>4. CASE x.seen
            <6>1. effects'[r] \in Nat /\ effects'[r] >= effects[r]
              BY <1>2, <1>4
            <6>2. effects'[r] > 0 \/ otherUsage[r]
              BY <5>2, <5>3, <5>4, <6>1
            <6> QED BY <1>1, <3>2, <4>1, <6>2 DEF InLedger
          <5>5. CASE ~x.seen
            <6>1. effects' = [effects EXCEPT ![r] = @ + 1]
              BY <5>1, <5>5
            <6>2. effects'[r] = effects[r] + 1
              BY <4>0, <6>1
            <6>3. effects'[r] > 0
              BY <5>3, <6>2
            <6> QED BY <3>2, <6>3 DEF InLedger
          <5> QED BY <5>4, <5>5
        <4>2. CASE Kind[r] # "usage" /\ Kind[r] # "signal"
          <5>1. effects' = [effects EXCEPT ![r] = @ + (IF effects[r] > 0 THEN 0 ELSE 1)]
            BY <2>2, <4>2 DEF HandlerDone, Store
          <5>2. effects[r] \in Nat
            BY <1>0, <1>2
          <5>3. effects'[r] = effects[r] + (IF effects[r] > 0 THEN 0 ELSE 1)
            BY <4>0, <5>1
          <5>4. effects'[r] > 0
            BY <5>2, <5>3
          <5> QED BY <3>2, <5>4 DEF InLedger
        <4> QED BY <4>1, <4>2
      <3> QED BY <3>1, <3>2, <3>3
    <2>3. CASE HandlerFails(w)
      <3>1. PICK pc \in {"poison", "failed"} : queueWorker' = [queueWorker EXCEPT ![w].pc = pc]
        BY <2>3 DEF HandlerFails, Handled
      <3> QED BY <1>0, <3>1 DEF QueueWork
    <2>4. CASE WorkerCrash(w)
      <3>1. queueWorker' = [queueWorker EXCEPT ![w] = Idle]
        BY <2>4 DEF WorkerCrash
      <3> QED BY <1>0, <3>1, QueueFacts
    <2> QED BY <2>1, <2>2, <2>3, <2>4
  <1> HIDE DEF r, x, y
  <1>6. AttemptsAreFailures' /\ DeliveredWasHandled'
    <2>1. \A k \in Rows : effects[k] > 0 => effects'[k] > 0
      BY <1>0, <1>4
    <2> QED BY <1>0, <1>1, <2>1 DEF AttemptsAreFailures, DeliveredWasHandled
  <1>7. \A k \in Rows : effects[k] > 0 => effects'[k] > 0
    BY <1>0, <1>4
  <1>8. ASSUME NEW v \in QueueWorkers
        PROVE  Knows(v)'
    <2>1. CASE v # w
      BY <1>0, <1>1, <1>5, <1>7, <2>1 DEF Knows, InLedger
    <2>2. CASE v = w
      BY <1>0, <1>1, <1>2, <1>5, <1>7, <2>2 DEF Knows, InLedger, r, x, y
    <2> QED BY <2>1, <2>2
  <1>9. \A k \in Rows : Lessee(k)'
    BY <1>0, <1>1 DEF Lessee
  <1> QED BY <1>0, <1>1, <1>3, <1>4, <1>5, <1>6, <1>8, <1>9, PrimedQueueParts

(* A mark that takes effect is of the worker that leased the row last.      *)
LEMMA FencedIsHolder ==
    ASSUME QueueInv, NEW w \in QueueWorkers, queueWorker[w].pc # "idle",
           Fenced(w)
    PROVE  LET r == queueWorker[w].row
           IN /\ r \in Rows /\ queueRow[r].status = "inflight" /\ holder[r] = w
              /\ queueRow[r].attempts = queueWorker[w].attempts
  BY QueueParts DEF Knows, Fenced

(* What a mark writes: a delivery, or a failure with its count.             *)
LEMMA MarkWrites ==
    ASSUME QueueInv, NEW w \in QueueWorkers, Mark(w)
    PROVE  LET r == queueWorker[w].row
               x == queueRow'[r]
           IN /\ UNCHANGED <<effects, otherUsage, holder>> /\ queueFaults' \in 0..MaxQueueFaults
              /\ queueWorker[w].pc \in {"delivered", "failed", "poison"}
              /\ queueWorker' = [queueWorker EXCEPT ![w] = Idle]
              /\ \/ UNCHANGED <<queueRow, failures>>
                 \/ /\ Fenced(w) /\ r \in Rows
                    /\ queueRow' \in [Rows -> QueueRow]
                    /\ \A k \in Rows : k # r => queueRow'[k] = queueRow[k]
                    /\ x.owner = NoHolder /\ x.until = 0
                    /\ \/ /\ queueWorker[w].pc = "delivered" /\ failures' = failures
                          /\ x.status = "delivered" /\ x.attempts = queueRow[r].attempts
                       \/ /\ failures' = [failures EXCEPT ![r] = More(@)]
                          /\ x.status \in {"pending", "operator_review", "quarantined"}
                          /\ Kind[r] = "settlement" => x.status = "pending"
                          /\ x.attempts = More(queueWorker[w].attempts)
  <1>0. /\ queueRow \in [Rows -> QueueRow] /\ queueWorker \in [QueueWorkers -> QueueWork]
        /\ queueFaults \in 0..MaxQueueFaults
    BY QueueParts
  <1> DEFINE r == queueWorker[w].row
  <1>1. /\ UNCHANGED <<effects, otherUsage, holder>> /\ queueWorker' = [queueWorker EXCEPT ![w] = Idle]
        /\ queueWorker[w].pc \in {"delivered", "failed", "poison"}
    BY DEF Mark
  <1>2. queueFaults' \in 0..MaxQueueFaults
    BY <1>0, QueueFacts DEF Mark, QueueFault
  <1>3. ASSUME Fenced(w)
        PROVE  r \in Rows /\ queueRow[r] \in QueueRow
    <2>1. r \in Rows
      BY <1>1, <1>3, FencedIsHolder
    <2> QED BY <1>0, <2>1
  <1>4. ASSUME Fenced(w), NEW status \in Status, NEW due \in BOOLEAN,
               NEW attempts \in 0..MaxAttempts, Unlease(r, status, due, attempts)
        PROVE  /\ queueRow' \in [Rows -> QueueRow]
               /\ \A k \in Rows : k # r => queueRow'[k] = queueRow[k]
               /\ queueRow'[r].owner = NoHolder /\ queueRow'[r].until = 0
               /\ queueRow'[r].status = status /\ queueRow'[r].attempts = attempts
    <2> DEFINE x == [queueRow[r] EXCEPT !.status = status, !.due = due, !.owner = NoHolder, !.until = 0,
                                        !.live = FALSE, !.attempts = attempts]
    <2>1. queueRow' = [queueRow EXCEPT ![r] = x]
      BY <1>4 DEF Unlease
    <2>2. /\ x \in QueueRow /\ x.owner = NoHolder /\ x.until = 0 /\ x.status = status /\ x.attempts = attempts
      BY <1>3, <1>4 DEF QueueRow
    <2> HIDE DEF x
    <2> QED BY <1>0, <1>3, <1>4, <2>1, <2>2
  <1>5. CASE MarkDelivered(w)
    <2>1. /\ queueWorker[w].pc = "delivered" /\ Fenced(w) /\ UNCHANGED failures
          /\ Unlease(r, "delivered", queueRow[r].due, queueRow[r].attempts)
      BY <1>5 DEF MarkDelivered
    <2>2. "delivered" \in Status /\ queueRow[r].due \in BOOLEAN /\ queueRow[r].attempts \in 0..MaxAttempts
      BY <1>3, <2>1 DEF Status, QueueRow
    <2>3. /\ queueRow' \in [Rows -> QueueRow]
          /\ \A k \in Rows : k # r => queueRow'[k] = queueRow[k]
          /\ queueRow'[r].owner = NoHolder /\ queueRow'[r].until = 0
          /\ queueRow'[r].status = "delivered" /\ queueRow'[r].attempts = queueRow[r].attempts
      BY <1>4, <2>1, <2>2
    <2> QED BY <1>1, <1>2, <1>3, <2>1, <2>3
  <1>6. CASE MarkFailed(w)
    <2>1. PICK s \in FailureDecision(w) :
             Unlease(r, s, IF s = "pending" THEN FALSE ELSE queueRow[r].due,
                           More(queueWorker[w].attempts))
      BY <1>6 DEF MarkFailed
    <2>2. Fenced(w) /\ failures' = [failures EXCEPT ![r] = More(@)]
      BY <1>6 DEF MarkFailed
    <2>3. /\ s \in {"pending", "operator_review", "quarantined"}
          /\ Kind[r] = "settlement" => s = "pending"
      BY <2>1 DEF FailureDecision
    <2>4. More(queueWorker[w].attempts) \in 0..MaxAttempts
      BY <1>0, QueueFacts DEF QueueWork
    <2> DEFINE due == IF s = "pending" THEN FALSE ELSE queueRow[r].due
               attempts == More(queueWorker[w].attempts)
    <2>5. s \in Status /\ due \in BOOLEAN
      <3>1. queueRow[r].due \in BOOLEAN
        BY <1>3, <2>2 DEF QueueRow
      <3> QED BY <2>3, <3>1 DEF Status, Shelved
    <2>6. /\ queueRow' \in [Rows -> QueueRow]
          /\ \A k \in Rows : k # r => queueRow'[k] = queueRow[k]
          /\ queueRow'[r].owner = NoHolder /\ queueRow'[r].until = 0
          /\ queueRow'[r].status = s /\ queueRow'[r].attempts = attempts
      <3>1. Unlease(r, s, due, attempts) /\ attempts \in 0..MaxAttempts
        BY <2>1, <2>4
      <3> HIDE DEF due, attempts
      <3> QED BY <1>4, <2>2, <2>5, <3>1
    <2> QED BY <1>1, <1>2, <1>3, <2>2, <2>3, <2>6
  <1>7. CASE UNCHANGED <<queueRow, failures>>
    BY <1>1, <1>2, <1>7
  <1> QED BY <1>5, <1>6, <1>7 DEF Mark

LEMMA MarkKeepsQueue ==
    ASSUME QueueInv, NEW w \in QueueWorkers, Mark(w)
    PROVE  QueueInv'
  <1>0. /\ queueRow \in [Rows -> QueueRow] /\ \A k \in Rows : Lessee(k)
        /\ queueWorker \in [QueueWorkers -> QueueWork]
        /\ effects \in [Rows -> Nat] /\ otherUsage \in [Rows -> BOOLEAN]
        /\ failures \in [Rows -> 0..MaxAttempts]
        /\ holder \in [Rows -> QueueWorkers \cup {NoHolder}]
        /\ AttemptsAreFailures /\ DeliveredWasHandled
        /\ \A v \in QueueWorkers : Knows(v)
    BY QueueParts
  <1> DEFINE r == queueWorker[w].row
             x == queueRow'[r]
  <1>1. /\ UNCHANGED <<effects, otherUsage, holder>> /\ queueFaults' \in 0..MaxQueueFaults
        /\ queueWorker[w].pc \in {"delivered", "failed", "poison"}
        /\ queueWorker' = [queueWorker EXCEPT ![w] = Idle]
    BY MarkWrites
  <1>2. /\ queueWorker' \in [QueueWorkers -> QueueWork] /\ queueWorker'[w].pc = "idle"
        /\ \A v \in QueueWorkers : v # w => queueWorker'[v] = queueWorker[v]
    BY <1>0, <1>1, QueueFacts
  <1>3. CASE UNCHANGED <<queueRow, failures>>
    <2>1. \A v \in QueueWorkers : Knows(v)'
      BY <1>0, <1>1, <1>2, <1>3 DEF Knows, InLedger
    <2>2. /\ \A k \in Rows : Lessee(k)'
          /\ AttemptsAreFailures' /\ DeliveredWasHandled'
      BY <1>0, <1>1, <1>3 DEF Lessee, AttemptsAreFailures, DeliveredWasHandled
    <2> QED BY <1>0, <1>1, <1>2, <1>3, <2>1, <2>2, PrimedQueueParts
  <1>4. CASE ~UNCHANGED <<queueRow, failures>>
    <2>1. /\ Fenced(w) /\ r \in Rows
          /\ queueRow' \in [Rows -> QueueRow]
          /\ \A k \in Rows : k # r => queueRow'[k] = queueRow[k]
          /\ x.owner = NoHolder /\ x.until = 0
          /\ \/ /\ queueWorker[w].pc = "delivered" /\ failures' = failures
                /\ x.status = "delivered" /\ x.attempts = queueRow[r].attempts
             \/ /\ failures' = [failures EXCEPT ![r] = More(@)]
                /\ x.status \in {"pending", "operator_review", "quarantined"}
                /\ x.attempts = More(queueWorker[w].attempts)
      BY <1>4, MarkWrites
    <2>2. queueRow[r].attempts = queueWorker[w].attempts
      BY <1>1, <2>1, FencedIsHolder
    <2> HIDE DEF r, x
    <2>3. /\ failures' \in [Rows -> 0..MaxAttempts]
          /\ AttemptsAreFailures'
      <3>1. failures[r] = queueRow[r].attempts
        BY <1>0, <2>1 DEF AttemptsAreFailures
      <3>2. More(failures[r]) \in 0..MaxAttempts
        BY <1>0, <2>1, QueueFacts
      <3>3. failures' \in [Rows -> 0..MaxAttempts] /\ failures'[r] = x.attempts
            /\ \A k \in Rows : k # r => failures'[k] = failures[k]
        BY <1>0, <2>1, <2>2, <3>1, <3>2 DEF r
      <3> QED BY <1>0, <2>1, <3>3 DEF AttemptsAreFailures, x
    <2>4. DeliveredWasHandled'
      <3>1. queueWorker[w].pc = "delivered" => Kind[r] = "signal" \/ InLedger(r)
        BY <1>0 DEF Knows, r
      <3> QED BY <1>0, <1>1, <2>1, <3>1 DEF DeliveredWasHandled, InLedger, x
    <2>5. \A k \in Rows : Lessee(k)'
      BY <1>0, <2>1 DEF Lessee, x
    <2>6. ASSUME NEW v \in QueueWorkers
          PROVE  Knows(v)'
      <3>1. CASE v = w
        BY <1>2, <3>1 DEF Knows, InLedger
      <3>2. CASE v # w /\ queueWorker[v].row # r
        BY <1>0, <1>1, <1>2, <2>1, <3>2 DEF Knows, InLedger
      <3>3. CASE v # w /\ queueWorker[v].row = r
        <4>1. queueWorker[v].pc # "idle" => queueWorker[v].until # 0
          BY <1>0, QueueFacts DEF Knows, InLedger
        <4> QED BY <1>0, <1>1, <1>2, <2>1, <3>3, <4>1 DEF Knows, InLedger, x
      <3> QED BY <3>1, <3>2, <3>3
    <2> QED BY <1>0, <1>1, <1>2, <2>1, <2>3, <2>4, <2>5, <2>6, PrimedQueueParts
  <1> QED BY <1>3, <1>4

(* Another attempt's usage row takes nothing from what a worker knows.      *)
LEMMA OtherKeepsQueue ==
    ASSUME QueueInv, NEW r \in Rows, OtherAttemptStored(r)
    PROVE  QueueInv'
  <1>0. /\ queueRow \in [Rows -> QueueRow] /\ \A k \in Rows : Lessee(k)
        /\ queueWorker \in [QueueWorkers -> QueueWork]
        /\ effects \in [Rows -> Nat] /\ otherUsage \in [Rows -> BOOLEAN]
        /\ failures \in [Rows -> 0..MaxAttempts]
        /\ holder \in [Rows -> QueueWorkers \cup {NoHolder}] /\ queueFaults \in 0..MaxQueueFaults
        /\ AttemptsAreFailures /\ DeliveredWasHandled
        /\ \A v \in QueueWorkers : Knows(v)
    BY QueueParts
  <1>1. UNCHANGED <<queueRow, queueWorker, effects, failures, holder, queueFaults>>
    BY DEF OtherAttemptStored
  <1>2. otherUsage' \in [Rows -> BOOLEAN] /\ \A k \in Rows : otherUsage[k] => otherUsage'[k]
    BY <1>0 DEF OtherAttemptStored
  <1>3. \A k \in Rows : InLedger(k) => InLedger(k)'
    BY <1>1, <1>2 DEF InLedger
  <1>4. /\ \A k \in Rows : Lessee(k)'
        /\ AttemptsAreFailures' /\ DeliveredWasHandled'
    BY <1>0, <1>1, <1>2 DEF Lessee, AttemptsAreFailures, DeliveredWasHandled
  <1>5. \A v \in QueueWorkers : Knows(v)'
    BY <1>0, <1>1, <1>2, <1>3 DEF Knows
  <1> QED BY <1>0, <1>1, <1>2, <1>4, <1>5, PrimedQueueParts

LEMMA QueueStays ==
    ASSUME QueueInv, [QueueNext]_queueVars
    PROVE  QueueInv'
  <1>1. CASE UNCHANGED queueVars
    <2>1. UNCHANGED <<queueRow, queueWorker, effects, otherUsage, failures, holder, queueFaults>>
      BY <1>1 DEF queueVars
    <2>2. /\ queueRow \in [Rows -> QueueRow] /\ \A k \in Rows : Lessee(k)
          /\ queueWorker \in [QueueWorkers -> QueueWork]
          /\ effects \in [Rows -> Nat] /\ otherUsage \in [Rows -> BOOLEAN]
          /\ failures \in [Rows -> 0..MaxAttempts]
          /\ holder \in [Rows -> QueueWorkers \cup {NoHolder}] /\ queueFaults \in 0..MaxQueueFaults
          /\ AttemptsAreFailures /\ DeliveredWasHandled
          /\ \A v \in QueueWorkers : Knows(v)
      BY QueueParts
    <2> QED BY <2>1, <2>2, PrimedQueueParts
          DEF Lessee, Knows, InLedger, AttemptsAreFailures, DeliveredWasHandled
  <1>2. ASSUME NEW w \in QueueWorkers, ClaimDue(w) PROVE QueueInv'
    BY <1>2, LeaseKeepsQueue DEF ClaimDue
  <1>3. ASSUME NEW w \in QueueWorkers, NEW r \in Rows, ClaimByID(w, r) PROVE QueueInv'
    BY <1>3, LeaseKeepsQueue DEF ClaimByID
  <1> QED BY <1>1, <1>2, <1>3, ClockKeepsQueue, OtherKeepsQueue, HandlerKeepsQueue,
              MarkKeepsQueue DEF QueueNext

-----------------------------------------------------------------------------
(* Whatever leases run out, workers crash and marks are lost, a row's count *)
(* is the number of its recorded failures, and a row marked delivered has   *)
(* its effect stored, is a signal or is of a claim with a usage row of      *)
(* another attempt (dlq/store.go, dlq/handlers.go).                         *)
THEOREM QueueIsSafe == QueueSpec => []QueueSafety
  <1>1. QueueInv /\ [QueueNext]_queueVars => QueueInv'
    BY QueueStays
  <1>2. QueueInv => QueueSafety
    BY DEF QueueInv
  <1>3. QueueInit => QueueInv
    BY InitQueue
  <1> QED BY <1>1, <1>2, <1>3, PTL DEF QueueSpec

(* How a row may change its status: an event creates it, a lease takes it   *)
(* unless it is delivered, and the mark of its holder ends the lease.       *)
LEMMA QueueSteps ==
    ASSUME QueueInv, [QueueNext]_queueVars, NEW r \in Rows
    PROVE  \/ queueRow'[r].status = queueRow[r].status
           \/ queueRow[r].status = "absent" /\ queueRow'[r].status = "pending"
           \/ queueRow[r].status # "delivered" /\ queueRow'[r].status = "inflight"
           \/ \E w \in QueueWorkers :
                 /\ queueWorker[w].row = r /\ queueRow[r].status = "inflight" /\ holder[r] = w
                 /\ \A v \in QueueWorkers : v # w => queueWorker'[v] = queueWorker[v]
                 /\ Kind[r] = "settlement" => queueRow'[r].status \in {"pending", "delivered"}
  <1>0. queueRow \in [Rows -> QueueRow] /\ queueWorker \in [QueueWorkers -> QueueWork]
    BY QueueParts
  <1>1. CASE queueRow' = queueRow
    BY <1>1
  <1>2. ASSUME NEW k \in Rows, Enqueue(k)
        PROVE  \/ queueRow'[r].status = queueRow[r].status
               \/ queueRow[r].status = "absent" /\ queueRow'[r].status = "pending"
    <2> DEFINE st == IF queueRow[k].status = "absent" THEN "pending" ELSE queueRow[k].status
    <2>1. queueRow' = [queueRow EXCEPT ![k].status = st, ![k].due = TRUE]
      BY <1>2 DEF Enqueue
    <2> HIDE DEF st
    <2>2. k # r => queueRow'[r] = queueRow[r]
      BY <1>0, <2>1
    <2>3. queueRow'[k].status = st
      <3> DEFINE x == [queueRow[k] EXCEPT !.status = st, !.due = TRUE]
      <3>1. queueRow' = [queueRow EXCEPT ![k] = x]
        BY <1>0, <2>1
      <3>2. queueRow[k] \in QueueRow
        BY <1>0
      <3>3. x.status = st
        BY <3>2 DEF QueueRow
      <3> HIDE DEF x
      <3> QED BY <1>0, <3>1, <3>3
    <2> QED BY <2>2, <2>3 DEF st
  <1>3. ASSUME NEW k \in Rows, ExpireLease(k) \/ BecomeDue(k)
        PROVE  queueRow'[r].status = queueRow[r].status
    <2>1. queueRow' = [queueRow EXCEPT ![k].live = FALSE] \/ queueRow' = [queueRow EXCEPT ![k].due = TRUE]
      BY <1>3 DEF ExpireLease, BecomeDue
    <2>2. queueRow[r] \in QueueRow /\ queueRow[k] \in QueueRow
      BY <1>0
    <2> QED BY <1>0, <2>1, <2>2 DEF QueueRow
  <1>4. ASSUME NEW w \in QueueWorkers, NEW k \in Rows, ClaimableRow(k) \/ ClaimByID(w, k),
               Lease(w, k)
        PROVE  \/ queueRow'[r] = queueRow[r]
               \/ queueRow[r].status # "delivered" /\ queueRow'[r].status = "inflight"
    <2>1. queueRow[k].status # "delivered"
      BY <1>4 DEF ClaimableRow, ClaimByID, Shelved
    <2>2. PICK n \in Leases :
             queueRow' = [queueRow EXCEPT ![k].status = "inflight", ![k].owner = OwnerOf[w],
                                          ![k].until = n, ![k].live = TRUE]
      BY <1>4 DEF Lease
    <2> DEFINE x == [queueRow[k] EXCEPT !.status = "inflight", !.owner = OwnerOf[w], !.until = n, !.live = TRUE]
    <2>3. queueRow' = [queueRow EXCEPT ![k] = x] /\ queueRow[k] \in QueueRow
      BY <1>0, <2>2
    <2>4. x.status = "inflight"
      BY <2>3 DEF QueueRow
    <2> HIDE DEF x
    <2> QED BY <1>0, <2>1, <2>3, <2>4
  <1>5. ASSUME NEW w \in QueueWorkers, Mark(w), queueRow'[r].status # queueRow[r].status
        PROVE  \E v \in QueueWorkers :
                  /\ queueWorker[v].row = r /\ queueRow[r].status = "inflight" /\ holder[r] = v
                  /\ \A u \in QueueWorkers : u # v => queueWorker'[u] = queueWorker[u]
                  /\ Kind[r] = "settlement" => queueRow'[r].status \in {"pending", "delivered"}
    <2>1. /\ queueWorker[w].row = r /\ Fenced(w) /\ queueWorker[w].pc # "idle"
          /\ queueWorker' = [queueWorker EXCEPT ![w] = Idle]
          /\ Kind[r] = "settlement" => queueRow'[r].status \in {"pending", "delivered"}
      BY <1>5, MarkWrites
    <2>2. queueRow[r].status = "inflight" /\ holder[r] = w
      BY <2>1, FencedIsHolder
    <2>3. \A u \in QueueWorkers : u # w => queueWorker'[u] = queueWorker[u]
      BY <1>0, <2>1
    <2> QED BY <2>1, <2>2, <2>3
  <1>6. ASSUME NEW w \in QueueWorkers,
               Look(w) \/ HandlerDone(w) \/ HandlerFails(w) \/ WorkerCrash(w)
        PROVE  queueRow' = queueRow
    BY <1>6 DEF Look, HandlerDone, HandlerFails, WorkerCrash
  <1>7. ASSUME NEW w \in QueueWorkers, ClaimDue(w)
        PROVE  \/ queueRow'[r] = queueRow[r]
               \/ queueRow[r].status # "delivered" /\ queueRow'[r].status = "inflight"
    BY <1>4, <1>7 DEF ClaimDue
  <1>8. ASSUME NEW w \in QueueWorkers, NEW k \in Rows, ClaimByID(w, k)
        PROVE  \/ queueRow'[r] = queueRow[r]
               \/ queueRow[r].status # "delivered" /\ queueRow'[r].status = "inflight"
    <2>1. Lease(w, k)
      BY <1>8 DEF ClaimByID
    <2> QED BY <1>4, <1>8, <2>1
  <1>9. UNCHANGED queueVars \/ (\E k \in Rows : OtherAttemptStored(k)) => queueRow' = queueRow
    BY DEF queueVars, OtherAttemptStored
  <1> QED BY <1>1, <1>2, <1>3, <1>5, <1>6, <1>7, <1>8, <1>9 DEF QueueNext

(* A mark ends the lease of the worker that leased the row last, and of no  *)
(* other, although replicas give their workers the same names               *)
(* (dlq/store.go:296).                                                      *)
THEOREM OnlyHoldersMark == QueueSpec => OnlyHolderMarks
  <1>1. ASSUME QueueInv, [QueueNext]_queueVars
        PROVE  \A r \in Rows, w \in QueueWorkers :
                  queueRow[r].status = "inflight" /\ queueRow'[r].status # "inflight"
                      /\ queueWorker[w].row = r /\ queueWorker'[w] # queueWorker[w] => holder[r] = w
    BY <1>1, QueueSteps
  <1>2. QueueInv /\ [QueueNext]_queueVars => QueueInv'
    BY QueueStays
  <1>3. QueueInit => QueueInv
    BY InitQueue
  <1> QED BY <1>1, <1>2, <1>3, PTL DEF QueueSpec, OnlyHolderMarks

(* No event, lease or replay takes a row out of delivered (dlq/store.go).   *)
THEOREM DeliveredStays == QueueSpec => DeliveredIsFinal
  <1>1. ASSUME QueueInv, [QueueNext]_queueVars
        PROVE  \A r \in Rows : queueRow[r].status = "delivered" => queueRow'[r].status = "delivered"
    BY <1>1, QueueSteps
  <1>2. QueueInv /\ [QueueNext]_queueVars => QueueInv'
    BY QueueStays
  <1>3. QueueInit => QueueInv
    BY InitQueue
  <1> QED BY <1>1, <1>2, <1>3, PTL DEF QueueSpec, DeliveredIsFinal

(* However often a settlement fails, it goes back to pending and never to   *)
(* the shelf (dlq/service.go:193).                                          *)
THEOREM SettlementsAreNotShelved == QueueSpec => SettlementNeverShelved
  <1>1. ASSUME QueueInv, [QueueNext]_queueVars
        PROVE  \A r \in Rows : Kind[r] = "settlement" /\ queueRow'[r].status \in Shelved
                  => queueRow[r].status \in Shelved
    BY <1>1, QueueSteps DEF Shelved
  <1>2. QueueInv /\ [QueueNext]_queueVars => QueueInv'
    BY QueueStays
  <1>3. QueueInit => QueueInv
    BY InitQueue
  <1> QED BY <1>1, <1>2, <1>3, PTL DEF QueueSpec, SettlementNeverShelved

-----------------------------------------------------------------------------
(* Credential refresh.                                                      *)

RefreshPcs == {"idle", "slot", "lock", "admit", "load", "call", "save", "fail", "audit",
               "unlock", "unslot"}
RefreshOutcomes == {"none", "temporary", "limited", "risk", "malformed", "expired", "success"}
RefresherRec == [pc : RefreshPcs, v : Nat, token : Nat, new : Nat, tries : Nat,
                 out : RefreshOutcomes]

RefreshersOK == refresher \in [Refreshers -> RefresherRec]

(* What a refresh read of the row it still knows the age of: versions and   *)
(* tokens grow together, and a token it was given is newer than the one it  *)
(* gave for it.                                                             *)
ReadInOrder(w) ==
    /\ refresher[w].v \in 1..cred.version /\ refresher[w].token \in 1..cred.token
    /\ refresher[w].v = cred.version <=> refresher[w].token = cred.token
    /\ refresher[w].pc = "save" =>
         /\ refresher[w].token < refresher[w].new /\ refresher[w].new <= live
         /\ refresher[w].v < MaxVersion

TokensGrow ==
    /\ cred.token <= live
    /\ \A w \in Refreshers : refresher[w].pc \in {"call", "save"} => ReadInOrder(w)

(* The refreshes that were given the account's lock and do not hold it any  *)
(* more.                                                                    *)
Astray == {w \in Refreshers : /\ refresher[w].pc \in {"admit", "load", "call", "save", "fail", "audit"}
                              /\ refreshLock # w}

AstrayBroke ==
    /\ IsFiniteSet(Astray) /\ Cardinality(Astray) <= broken
    /\ broken <= refreshFaults

(* Without a fault the token that the provider accepts is in the row, or in *)
(* the hands of a refresh that can store it.                                *)
TokenAtHand ==
    refreshFaults = 0 =>
        \/ cred.token = live
        \/ \E w \in Refreshers : /\ refresher[w].pc = "save"
                                 /\ refresher[w].v = cred.version /\ refresher[w].new = live

RefreshInv == RefreshTypeOK /\ RefreshersOK /\ TokensGrow /\ AstrayBroke /\ TokenAtHand

(* RefreshTypeOK, one fact for each variable.                               *)
CredentialOK ==
    /\ cred = [state |-> cred.state, version |-> cred.version, token |-> cred.token,
               due |-> cred.due, held |-> cred.held]
    /\ cred.state \in {"active", "temp", "attention", "revoked"}
    /\ cred.version \in 1..MaxVersion /\ cred.token \in 1..MaxToken
    /\ cred.due \in BOOLEAN /\ cred.held \in BOOLEAN

LEMMA RefreshTypes ==
    RefreshTypeOK <=>
        /\ CredentialOK
        /\ health \in {"healthy", "throttled", "cooled", "revoked"}
        /\ slots \in 0..Cap /\ aged \in BOOLEAN /\ refreshLock \in Refreshers \cup {NoRefresher}
        /\ live \in 1..MaxToken /\ uncertain \subseteq 1..MaxToken
        /\ broken \in 0..MaxRefreshFaults /\ refreshFaults \in 0..MaxRefreshFaults
BY DEF RefreshTypeOK, CredentialOK

LEMMA RefreshStart == RefreshInit => RefreshInv
<1> SUFFICES ASSUME RefreshInit PROVE RefreshInv
    OBVIOUS
<1> USE RefreshAssumption DEF RefreshInit
<1>1. RefreshTypeOK
    <2>1. CredentialOK
        BY DEF CredentialOK
    <2>2. aged \in BOOLEAN
        OBVIOUS
    <2>3. /\ health \in {"healthy", "throttled", "cooled", "revoked"}
          /\ refreshLock \in Refreshers \cup {NoRefresher}
        OBVIOUS
    <2>4. /\ slots \in 0..Cap /\ live \in 1..MaxToken /\ uncertain \subseteq 1..MaxToken
          /\ broken \in 0..MaxRefreshFaults /\ refreshFaults \in 0..MaxRefreshFaults
        OBVIOUS
    <2> QED
        BY <2>1, <2>2, <2>3, <2>4, RefreshTypes
<1>2. RefreshersOK
    BY DEF RefreshersOK, RefresherRec, RefreshPcs, RefreshOutcomes, NoRefresh
<1>3. TokensGrow
    BY DEF TokensGrow, NoRefresh
<1>4. AstrayBroke
    <2>1. Astray = {}
        BY DEF Astray, NoRefresh
    <2> QED
        BY <2>1, FS_EmptySet DEF AstrayBroke
<1> QED
    BY <1>1, <1>2, <1>3, <1>4 DEF RefreshInv, TokenAtHand

(* What the steps of a refresh have in common: the others stay where they   *)
(* are.                                                                     *)
OfRefresher(w) ==
    \/ (\E hot \in BOOLEAN : StartRefresh(w, hot)) \/ TakeSlot(w) \/ NoSlot(w) \/ TakeLock(w)
    \/ Admit(w) \/ Defer(w) \/ Load(w)
    \/ Exchange(w) \/ CallFails(w) \/ AnswerLost(w) \/ Save(w) \/ SaveFails(w)
    \/ (\E stored \in BOOLEAN : SaveFailure(w, stored))
    \/ Audit(w) \/ AuditFails(w) \/ Unlock(w) \/ Unslot(w)
    \/ UnslotFails(w) \/ Die(w) \/ Break(w)

OfNobody ==
    \/ Age \/ ReapStaleSlots \/ FallDue \/ WaitOver \/ CooldownOver
    \/ RotateByOperator \/ SetState \/ Recover

LEMMA RefresherSteps ==
    ASSUME RefreshersOK, RefreshTypeOK, NEW w \in Refreshers, OfRefresher(w)
    PROVE  /\ RefreshersOK'
           /\ \A x \in Refreshers \ {w} : refresher'[x] = refresher[x]
<1> USE RefreshTypes, RefreshAssumption
    DEF RefreshersOK, RefresherRec, RefreshPcs, RefreshOutcomes, NoRefresh, Leave, MoveOn, Done,
        CredentialOK
<1>1. CASE (\E hot \in BOOLEAN : StartRefresh(w, hot)) \/ TakeSlot(w) \/ NoSlot(w) \/ TakeLock(w)
    BY <1>1 DEF StartRefresh, TakeSlot, NoSlot, TakeLock
<1>2. CASE Admit(w) \/ Defer(w) \/ Load(w)
    BY <1>2 DEF Admit, Defer, Load
<1>3. CASE Exchange(w) \/ CallFails(w) \/ AnswerLost(w)
    BY <1>3 DEF Exchange, CallFails, AnswerLost
<1>4. CASE Save(w) \/ SaveFails(w) \/ \E stored \in BOOLEAN : SaveFailure(w, stored)
    BY <1>4 DEF Save, SaveFails, SaveFailure
<1>5. CASE Audit(w) \/ AuditFails(w) \/ Unlock(w) \/ Unslot(w)
    BY <1>5 DEF Audit, AuditFails, Unlock, Unslot
<1>6. CASE UnslotFails(w) \/ Die(w) \/ Break(w)
    BY <1>6 DEF UnslotFails, Die, Break
<1> QED
    BY <1>1, <1>2, <1>3, <1>4, <1>5, <1>6 DEF OfRefresher

(* What the credential, the tokens and the counters can be in a next state. *)
LEMMA RefreshTyped ==
    RefreshInv /\ [RefreshNext]_refreshVars => RefreshTypeOK'
<1> SUFFICES ASSUME RefreshInv, [RefreshNext]_refreshVars PROVE RefreshTypeOK'
    OBVIOUS
<1> DEFINE
      HealthOK == health \in {"healthy", "throttled", "cooled", "revoked"}
      SlotsOK == slots \in 0..Cap
      LockOK == refreshLock \in Refreshers \cup {NoRefresher}
      TokensOK == live \in 1..MaxToken /\ uncertain \subseteq 1..MaxToken
      FaultsOK == refreshFaults \in 0..MaxRefreshFaults
<1>1. /\ RefreshTypeOK /\ RefreshersOK /\ TokensGrow /\ AstrayBroke
      /\ CredentialOK /\ HealthOK /\ SlotsOK /\ aged \in BOOLEAN /\ LockOK /\ TokensOK /\ FaultsOK
      /\ broken \in Nat /\ broken <= refreshFaults
    BY RefreshTypes, RefreshAssumption DEF RefreshInv, AstrayBroke
<1> USE <1>1, RefreshAssumption
<1>2. ASSUME UNCHANGED refreshVars PROVE RefreshTypeOK'
    BY <1>2 DEF refreshVars, RefreshTypeOK
<1>3. ASSUME NEW w \in Refreshers, OfRefresher(w)
      PROVE  CredentialOK' /\ HealthOK' /\ SlotsOK' /\ LockOK' /\ TokensOK'
             /\ FaultsOK' /\ (broken \in Nat)' /\ (broken <= refreshFaults)'
    <2> USE DEF Leave, MoveOn, Done, RefreshFault, RefreshersOK, RefresherRec
    <2>1. CASE (\E hot \in BOOLEAN : StartRefresh(w, hot)) \/ TakeSlot(w) \/ NoSlot(w) \/ TakeLock(w)
        BY <2>1 DEF StartRefresh, TakeSlot, NoSlot, TakeLock, CredentialOK
    <2>2. CASE Admit(w) \/ Defer(w) \/ Load(w)
        BY <2>2 DEF Admit, Defer, Load, CredentialOK
    <2>3. CASE Exchange(w) \/ CallFails(w) \/ AnswerLost(w)
        BY <2>3 DEF Exchange, CallFails, AnswerLost, CredentialOK
    <2>4. CASE Save(w)
        <3>1. ReadInOrder(w)
            BY <2>4 DEF Save, TokensGrow
        <3>2. CredentialOK'
            BY <2>4, <3>1 DEF Save, CredentialOK, ReadInOrder
        <3> QED
            BY <2>4, <3>2 DEF Save
    <2>5. CASE SaveFails(w)
        <3>1. ReadInOrder(w)
            BY <2>5 DEF SaveFails, TokensGrow
        <3>2. TokensOK'
            BY <2>5, <3>1 DEF SaveFails, CredentialOK, ReadInOrder
        <3> QED
            BY <2>5, <3>2 DEF SaveFails, CredentialOK
    <2>6. CASE \E stored \in BOOLEAN : SaveFailure(w, stored)
        <3>1. CredentialOK'
            BY <2>6 DEF SaveFailure, CredentialOK, FailureState
        <3> QED
            BY <2>6, <3>1 DEF SaveFailure
    <2>7. CASE Audit(w) \/ AuditFails(w) \/ Unlock(w) \/ Unslot(w)
        BY <2>7 DEF Audit, AuditFails, Unlock, Unslot, Health, CredentialOK
    <2>8. CASE UnslotFails(w) \/ Die(w) \/ Break(w)
        BY <2>8 DEF UnslotFails, Die, Break, CredentialOK
    <2> QED
        BY <1>3, <2>1, <2>2, <2>3, <2>4, <2>5, <2>6, <2>7, <2>8 DEF OfRefresher
<1>4. ASSUME OfNobody
      PROVE  CredentialOK' /\ HealthOK' /\ SlotsOK' /\ LockOK' /\ TokensOK'
             /\ FaultsOK' /\ (broken \in Nat)' /\ (broken <= refreshFaults)'
    <2>1. CASE Age \/ ReapStaleSlots \/ CooldownOver \/ Recover
        BY <2>1 DEF Age, ReapStaleSlots, CooldownOver, Recover, CredentialOK
    <2>2. CASE FallDue \/ WaitOver \/ SetState
        <3>1. CredentialOK'
            BY <2>2 DEF FallDue, WaitOver, SetState, CredentialOK
        <3> QED
            BY <2>2, <3>1 DEF FallDue, WaitOver, SetState
    <2>3. CASE RotateByOperator
        <3>1. CredentialOK'
            BY <2>3 DEF RotateByOperator, CredentialOK
        <3> QED
            BY <2>3, <3>1 DEF RotateByOperator
    <2> QED
        BY <1>4, <2>1, <2>2, <2>3 DEF OfNobody
<1>5. (aged \in BOOLEAN)'
    BY DEF RefreshNext, refreshVars, StartRefresh, TakeSlot, NoSlot, TakeLock, Admit, Defer, Load,
           Exchange, CallFails, AnswerLost, Save, SaveFails, SaveFailure, Audit, AuditFails,
           Unlock, Unslot, UnslotFails, Die, Break, Age, ReapStaleSlots, FallDue, WaitOver,
           CooldownOver, RotateByOperator, SetState, Recover
<1>6. CredentialOK' /\ HealthOK' /\ SlotsOK' /\ LockOK' /\ TokensOK'
      /\ FaultsOK' /\ (broken \in Nat)' /\ (broken <= refreshFaults)' => RefreshTypeOK'
    BY <1>5 DEF RefreshTypeOK, CredentialOK
<1> QED
    BY <1>2, <1>3, <1>4, <1>6 DEF RefreshNext, OfRefresher, OfNobody

(* Rows and tokens only grow, and what was read of an older row stays older. *)
LEMMA OrderIsKept ==
    ASSUME RefreshTypeOK, RefreshersOK, TokensGrow, NEW w \in Refreshers,
           refresher[w].pc \in {"call", "save"}, refresher'[w] = refresher[w],
           \/ /\ cred'.version = cred.version /\ cred'.token = cred.token
              /\ live' \in Nat /\ live <= live'
           \/ /\ cred'.version = cred.version + 1 /\ cred'.token \in Nat
              /\ cred.token < cred'.token
              /\ live' \in Nat /\ live <= live'
    PROVE  ReadInOrder(w)'
<1>1. /\ ReadInOrder(w) /\ cred.version \in Nat /\ cred.token \in Nat /\ live \in Nat
      /\ MaxVersion \in Nat /\ refresher[w].new \in Nat
    BY RefreshTypes, RefreshAssumption DEF TokensGrow, CredentialOK, RefreshersOK, RefresherRec
<1>2. /\ refresher[w].v \in 1..cred'.version /\ refresher[w].token \in 1..cred'.token
      /\ refresher[w].v = cred'.version <=> refresher[w].token = cred'.token
    BY <1>1 DEF ReadInOrder
<1>3. refresher[w].pc = "save" => refresher[w].new <= live'
    BY <1>1 DEF ReadInOrder, TokensGrow
<1> QED
    BY <1>1, <1>2, <1>3 DEF ReadInOrder

LEMMA TokensStep ==
    RefreshInv /\ [RefreshNext]_refreshVars => TokensGrow'
<1> SUFFICES ASSUME RefreshInv, [RefreshNext]_refreshVars PROVE TokensGrow'
    OBVIOUS
<1>1. /\ RefreshTypeOK /\ RefreshersOK /\ TokensGrow
      /\ CredentialOK /\ live \in Nat /\ MaxToken \in Nat /\ MaxVersion \in Nat
      /\ cred.version \in Nat \ {0} /\ cred.token \in Nat \ {0} /\ cred.token <= live
    BY RefreshTypes, RefreshAssumption DEF RefreshInv, CredentialOK, TokensGrow
<1> USE <1>1
<1>2. ASSUME UNCHANGED refreshVars PROVE TokensGrow'
    BY <1>2 DEF refreshVars, TokensGrow, ReadInOrder
<1>3. ASSUME NEW w \in Refreshers, OfRefresher(w) PROVE TokensGrow'
    <2>1. /\ RefreshersOK' /\ \A x \in Refreshers \ {w} : refresher'[x] = refresher[x]
        BY <1>3, RefresherSteps
    <2> DEFINE Kept == /\ cred'.version = cred.version /\ cred'.token = cred.token
                       /\ live' \in Nat /\ live <= live'
    <2>2. SUFFICES ASSUME Kept \/ Save(w),
                          refresher'[w].pc \in {"call", "save"} => ReadInOrder(w)'
                   PROVE  TokensGrow'
        <3> USE DEF Leave, MoveOn, Done, RefreshersOK, RefresherRec, NoRefresh
        <3>1. CASE \/ \E hot \in BOOLEAN : StartRefresh(w, hot)
                   \/ TakeSlot(w) \/ NoSlot(w) \/ TakeLock(w) \/ Admit(w) \/ Defer(w)
            BY <2>2, <3>1 DEF StartRefresh, TakeSlot, NoSlot, TakeLock, Admit, Defer
        <3>2. CASE Load(w)
            BY <2>2, <3>2 DEF Load, ReadInOrder
        <3>3. CASE Exchange(w)
            <4>1. ReadInOrder(w)
                BY <3>3 DEF Exchange, TokensGrow
            <4> QED
                BY <2>2, <3>3, <4>1 DEF Exchange, ReadInOrder
        <3>4. CASE CallFails(w) \/ AnswerLost(w)
            BY <2>2, <3>4 DEF CallFails, AnswerLost
        <3>5. CASE Save(w)
            BY <2>2, <3>5 DEF Save
        <3>6. CASE SaveFails(w) \/ \E stored \in BOOLEAN : SaveFailure(w, stored)
            <4>1. Kept
                <5>1. CASE SaveFails(w)
                    BY <5>1 DEF SaveFails
                <5>2. ASSUME NEW stored \in BOOLEAN, SaveFailure(w, stored) PROVE Kept
                    <6>1. live' = live /\ (cred' = cred \/
                            cred' = [cred EXCEPT !.state = FailureState(refresher[w].out), !.held = TRUE])
                        BY <5>2 DEF SaveFailure
                    <6>2. cred'.version = cred.version /\ cred'.token = cred.token
                        BY <6>1 DEF CredentialOK
                    <6>3. live' \in Nat /\ live <= live'
                        BY <6>1
                    <6> QED
                        BY <6>2, <6>3
                <5> QED
                    BY <3>6, <5>1, <5>2
            <4>2. refresher'[w].pc \notin {"call", "save"}
                BY <3>6 DEF SaveFails, SaveFailure
            <4> QED
                BY <2>2, <4>1, <4>2
        <3>7. CASE Audit(w) \/ AuditFails(w) \/ Unlock(w) \/ Unslot(w) \/ UnslotFails(w) \/ Die(w)
            BY <2>2, <3>7 DEF Audit, AuditFails, Unlock, Unslot, UnslotFails, Die
        <3>8. CASE Break(w)
            <4>1. Kept /\ refresher' = refresher
                BY <3>8 DEF Break
            <4>2. refresher[w].pc \in {"call", "save"} => ReadInOrder(w)'
                BY <4>1, OrderIsKept
            <4> QED
                BY <2>2, <4>1, <4>2
        <3> QED
            BY <1>3, <3>1, <3>2, <3>3, <3>4, <3>5, <3>6, <3>7, <3>8 DEF OfRefresher
    <2>3. CASE Kept
        <3>1. \A x \in Refreshers \ {w} :
                refresher'[x].pc \in {"call", "save"} => ReadInOrder(x)'
            BY <2>1, <2>3, OrderIsKept
        <3> QED
            BY <2>2, <2>3, <3>1 DEF TokensGrow
    <2>4. CASE Save(w)
        <3>1. ReadInOrder(w)
            BY <2>4 DEF Save, TokensGrow
        <3>2. /\ cred'.version = cred.version + 1 /\ cred'.token = refresher[w].new
              /\ live' = live /\ refresher[w].token = cred.token
            BY <2>4, <3>1 DEF Save, ReadInOrder
        <3>3. /\ cred'.token \in Nat /\ cred.token < cred'.token /\ cred'.token <= live'
            BY <2>4, <3>1, <3>2 DEF Save, ReadInOrder, RefreshersOK, RefresherRec
        <3>4. \A x \in Refreshers \ {w} :
                refresher'[x].pc \in {"call", "save"} => ReadInOrder(x)'
            BY <2>1, <3>2, <3>3, OrderIsKept
        <3> QED
            BY <2>2, <3>3, <3>4 DEF TokensGrow
    <2> QED
        BY <2>2, <2>3, <2>4
<1>4. ASSUME OfNobody PROVE TokensGrow'
    <2>1. refresher' = refresher
        BY <1>4 DEF OfNobody, Age, ReapStaleSlots, FallDue, WaitOver, CooldownOver,
                    RotateByOperator, SetState, Recover
    <2>2. CASE RotateByOperator
        <3>1. /\ cred'.version = cred.version + 1 /\ cred'.token = live + 1 /\ live' = live + 1
            BY <2>2 DEF RotateByOperator
        <3>2. \A x \in Refreshers :
                refresher'[x].pc \in {"call", "save"} => ReadInOrder(x)'
            BY <2>1, <3>1, OrderIsKept
        <3> QED
            BY <3>1, <3>2 DEF TokensGrow
    <2>3. CASE ~RotateByOperator
        <3>1. /\ cred'.version = cred.version /\ cred'.token = cred.token /\ live' = live
            BY <1>4, <2>3 DEF OfNobody, Age, ReapStaleSlots, FallDue, WaitOver, CooldownOver,
                              SetState, Recover, CredentialOK
        <3>2. \A x \in Refreshers :
                refresher'[x].pc \in {"call", "save"} => ReadInOrder(x)'
            BY <2>1, <3>1, OrderIsKept
        <3> QED
            BY <3>1, <3>2 DEF TokensGrow
    <2> QED
        BY <2>2, <2>3
<1> QED
    BY <1>2, <1>3, <1>4 DEF RefreshNext, OfRefresher, OfNobody

(* Only a session that breaks leaves a refresh without the lock it took.    *)
LEMMA AstrayStep ==
    RefreshInv /\ [RefreshNext]_refreshVars => AstrayBroke'
<1> SUFFICES ASSUME RefreshInv, [RefreshNext]_refreshVars PROVE AstrayBroke'
    OBVIOUS
<1>1. /\ RefreshTypeOK /\ RefreshersOK /\ AstrayBroke
      /\ broken \in Nat /\ refreshFaults \in Nat /\ Cardinality(Astray) \in Nat
      /\ NoRefresher \notin Refreshers
    BY RefreshTypes, RefreshAssumption, FS_CardinalityType DEF RefreshInv, AstrayBroke
<1> USE <1>1
<1>2. ASSUME Astray' \subseteq Astray, broken' = broken,
             refreshFaults' = refreshFaults \/ refreshFaults' = refreshFaults + 1
      PROVE  AstrayBroke'
    <2>1. IsFiniteSet(Astray') /\ Cardinality(Astray') <= Cardinality(Astray)
          /\ Cardinality(Astray') \in Nat
        BY <1>2, FS_Subset, FS_CardinalityType DEF AstrayBroke
    <2> QED
        BY <1>2, <2>1 DEF AstrayBroke
<1>3. ASSUME UNCHANGED refreshVars PROVE AstrayBroke'
    BY <1>2, <1>3 DEF refreshVars, Astray
<1>4. ASSUME NEW w \in Refreshers, OfRefresher(w), ~Break(w) PROVE AstrayBroke'
    <2>1. /\ RefreshersOK' /\ \A x \in Refreshers \ {w} : refresher'[x] = refresher[x]
        BY <1>4, RefresherSteps
    <2> USE DEF Leave, MoveOn, Done, RefreshFault, RefreshersOK, RefresherRec, NoRefresh
    <2>2. broken' = broken /\ (refreshFaults' = refreshFaults \/ refreshFaults' = refreshFaults + 1)
        BY <1>4 DEF OfRefresher, StartRefresh, TakeSlot, NoSlot, TakeLock, Admit, Defer, Load,
                    Exchange, CallFails, AnswerLost, Save, SaveFails, SaveFailure, Audit,
                    AuditFails, Unlock, Unslot, UnslotFails, Die
    <2>3. \A x \in Refreshers \ {w} : refreshLock = x => refreshLock' = x
        BY <1>4 DEF OfRefresher, StartRefresh, TakeSlot, NoSlot, TakeLock, Admit, Defer, Load,
                    Exchange, CallFails, AnswerLost, Save, SaveFails, SaveFailure, Audit,
                    AuditFails, Unlock, Unslot, UnslotFails, Die
    <2>4. w \in Astray' => w \in Astray
        <3>1. CASE \/ \E hot \in BOOLEAN : StartRefresh(w, hot)
                   \/ TakeSlot(w) \/ NoSlot(w) \/ TakeLock(w)
            BY <3>1 DEF StartRefresh, TakeSlot, NoSlot, TakeLock, Astray
        <3>2. CASE Admit(w) \/ Defer(w) \/ Load(w)
            BY <3>2 DEF Admit, Defer, Load, Astray
        <3>3. CASE Exchange(w) \/ CallFails(w) \/ AnswerLost(w)
            BY <3>3 DEF Exchange, CallFails, AnswerLost, Astray
        <3>4. CASE Save(w) \/ SaveFails(w) \/ \E stored \in BOOLEAN : SaveFailure(w, stored)
            BY <3>4 DEF Save, SaveFails, SaveFailure, Astray
        <3>5. CASE Audit(w) \/ AuditFails(w) \/ Unlock(w) \/ Unslot(w) \/ UnslotFails(w) \/ Die(w)
            BY <3>5 DEF Audit, AuditFails, Unlock, Unslot, UnslotFails, Die, Astray
        <3> QED
            BY <1>4, <3>1, <3>2, <3>3, <3>4, <3>5 DEF OfRefresher
    <2>5. Astray' \subseteq Astray
        BY <2>1, <2>3, <2>4 DEF Astray
    <2> QED
        BY <1>2, <2>2, <2>5
<1>5. ASSUME NEW w \in Refreshers, Break(w) PROVE AstrayBroke'
    <2>1. /\ broken' = broken + 1 /\ refreshFaults' = refreshFaults + 1
          /\ Astray' \subseteq Astray \cup {w}
        BY <1>5 DEF Break, RefreshFault, Astray
    <2>2. /\ IsFiniteSet(Astray \cup {w})
          /\ Cardinality(Astray \cup {w}) <= Cardinality(Astray) + 1
        BY FS_AddElement DEF AstrayBroke
    <2>3. /\ IsFiniteSet(Astray') /\ Cardinality(Astray') <= Cardinality(Astray \cup {w})
          /\ Cardinality(Astray') \in Nat /\ Cardinality(Astray \cup {w}) \in Nat
        BY <2>1, <2>2, FS_Subset, FS_CardinalityType
    <2> QED
        BY <2>1, <2>2, <2>3 DEF AstrayBroke
<1>6. ASSUME OfNobody PROVE AstrayBroke'
    <2>1. /\ refresher' = refresher /\ refreshLock' = refreshLock
          /\ broken' = broken /\ refreshFaults' = refreshFaults
        BY <1>6 DEF OfNobody, Age, ReapStaleSlots, FallDue, WaitOver, CooldownOver,
                    RotateByOperator, SetState, Recover
    <2> QED
        BY <1>2, <2>1 DEF Astray
<1> QED
    BY <1>3, <1>4, <1>5, <1>6 DEF RefreshNext, OfRefresher, OfNobody

(* While nothing failed nobody is astray, so one refresh at most is under   *)
(* the lock.                                                                *)
LEMMA OneUnderTheLock ==
    ASSUME RefreshTypeOK, AstrayBroke, refreshFaults = 0, NEW w \in Refreshers,
           refresher[w].pc \in {"admit", "load", "call", "save", "fail", "audit"}
    PROVE  refreshLock = w
<1>1. Cardinality(Astray) = 0
    BY RefreshTypes, RefreshAssumption, FS_CardinalityType DEF AstrayBroke
<1>2. Astray = {}
    BY <1>1, FS_EmptySet DEF AstrayBroke
<1> QED
    BY <1>2 DEF Astray

LEMMA TokenStep ==
    RefreshInv /\ [RefreshNext]_refreshVars => TokenAtHand'
<1> SUFFICES ASSUME RefreshInv, [RefreshNext]_refreshVars, refreshFaults' = 0 PROVE TokenAtHand'
    BY DEF TokenAtHand
<1> DEFINE AtHand(w) == /\ refresher[w].pc = "save"
                        /\ refresher[w].v = cred.version /\ refresher[w].new = live
<1>1. /\ RefreshTypeOK /\ RefreshersOK /\ TokensGrow /\ AstrayBroke /\ TokenAtHand
      /\ CredentialOK /\ live \in Nat /\ refreshFaults \in Nat
      /\ cred.version \in Nat /\ cred.token \in Nat /\ cred.token <= live
    BY RefreshTypes, RefreshAssumption DEF RefreshInv, CredentialOK, TokensGrow
<1> USE <1>1
<1>2. ASSUME refreshFaults = 0, cred'.version = cred.version, cred'.token = cred.token,
             live' = live,
             \A w \in Refreshers : refresher[w].pc = "save" => refresher'[w] = refresher[w]
      PROVE  TokenAtHand'
    BY <1>2 DEF TokenAtHand
<1>3. ASSUME UNCHANGED refreshVars PROVE TokenAtHand'
    BY <1>2, <1>3 DEF refreshVars
<1>4. ASSUME NEW w \in Refreshers, OfRefresher(w) PROVE TokenAtHand'
    <2> USE DEF Leave, MoveOn, Done, RefreshFault
    <2>1. \A x \in Refreshers \ {w} : refresher'[x] = refresher[x]
        BY <1>4, RefresherSteps
    <2>2. CASE \/ \E hot \in BOOLEAN : StartRefresh(w, hot)
               \/ TakeSlot(w) \/ NoSlot(w) \/ TakeLock(w) \/ Admit(w) \/ Defer(w) \/ Load(w)
               \/ CallFails(w) \/ Audit(w) \/ Unlock(w) \/ Unslot(w)
        BY <1>2, <2>1, <2>2 DEF StartRefresh, TakeSlot, NoSlot, TakeLock, Admit, Defer, Load,
                                CallFails, Audit, Unlock, Unslot
    <2>3. CASE AnswerLost(w) \/ AuditFails(w) \/ UnslotFails(w) \/ Die(w) \/ Break(w)
        BY <2>3 DEF AnswerLost, AuditFails, UnslotFails, Die, Break
    <2>4. CASE Exchange(w)
        <3>1. ReadInOrder(w) /\ refreshFaults = 0
            BY <2>4 DEF Exchange, TokensGrow
        <3>2. CASE refresher[w].token = live
            <4>1. refresher[w].v = cred.version
                BY <3>1, <3>2 DEF ReadInOrder
            <4>2. cred' = cred /\ live' = live + 1
                  /\ refresher' = [refresher EXCEPT ![w].pc = "save", ![w].new = live + 1]
                BY <2>4, <3>2 DEF Exchange
            <4>3. /\ refresher'[w].pc = "save" /\ refresher'[w].v = refresher[w].v
                  /\ refresher'[w].new = live + 1
                BY <4>2 DEF RefreshersOK, RefresherRec
            <4> QED
                BY <4>1, <4>2, <4>3 DEF TokenAtHand
        <3>3. CASE refresher[w].token # live
            BY <1>2, <2>1, <2>4, <3>1, <3>3 DEF Exchange
        <3> QED
            BY <3>2, <3>3
    <2>5. CASE Save(w)
        <3>1. ReadInOrder(w) /\ refreshFaults = 0 /\ refreshLock = w
            BY <2>5, OneUnderTheLock DEF Save, TokensGrow
        <3>2. refresher[w].token = cred.token /\ cred.token < refresher[w].new
              /\ refresher[w].new <= live /\ refresher[w].new \in Nat
            BY <2>5, <3>1 DEF Save, ReadInOrder, RefreshersOK, RefresherRec
        <3>3. PICK x \in Refreshers : AtHand(x)
            BY <3>1, <3>2 DEF TokenAtHand
        <3>4. x = w
            BY <3>1, <3>3, OneUnderTheLock
        <3> QED
            BY <2>5, <3>3, <3>4 DEF Save, TokenAtHand
    <2>6. CASE SaveFails(w)
        <3>1. /\ refreshFaults = 0 /\ cred.version # refresher[w].v
              /\ cred' = cred /\ live' = live
            BY <2>6 DEF SaveFails
        <3>2. \A x \in Refreshers : ~AtHand(x)
            BY <2>6, <3>1, OneUnderTheLock DEF SaveFails
        <3> QED
            BY <3>1, <3>2 DEF TokenAtHand
    <2>7. ASSUME NEW stored \in BOOLEAN, SaveFailure(w, stored) PROVE TokenAtHand'
        <3>1. /\ live' = live /\ refreshFaults = 0 /\ refresher[w].pc # "save"
              /\ \/ cred' = cred
                 \/ cred' = [cred EXCEPT !.state = FailureState(refresher[w].out), !.held = TRUE]
            BY <2>7 DEF SaveFailure
        <3>2. cred'.version = cred.version /\ cred'.token = cred.token
            BY <3>1 DEF CredentialOK
        <3> QED
            BY <1>2, <2>1, <3>1, <3>2
    <2> QED
        BY <1>4, <2>2, <2>3, <2>4, <2>5, <2>6, <2>7 DEF OfRefresher
<1>5. ASSUME OfNobody PROVE TokenAtHand'
    <2>1. CASE RotateByOperator
        BY <2>1 DEF RotateByOperator, TokenAtHand
    <2>2. CASE ~RotateByOperator
        BY <1>2, <1>5, <2>2 DEF OfNobody, Age, ReapStaleSlots, FallDue, WaitOver, CooldownOver,
                                SetState, Recover, CredentialOK
    <2> QED
        BY <2>1, <2>2
<1> QED
    BY <1>3, <1>4, <1>5 DEF RefreshNext, OfRefresher, OfNobody

LEMMA RefreshSteps == RefreshInv /\ [RefreshNext]_refreshVars => RefreshInv'
<1> SUFFICES ASSUME RefreshInv, [RefreshNext]_refreshVars PROVE RefreshInv'
    OBVIOUS
<1>1. RefreshersOK'
    <2>1. CASE UNCHANGED refreshVars
        BY <2>1 DEF refreshVars, RefreshInv, RefreshersOK
    <2>2. ASSUME NEW w \in Refreshers, OfRefresher(w) PROVE RefreshersOK'
        BY <2>2, RefresherSteps DEF RefreshInv
    <2>3. CASE OfNobody
        BY <2>3 DEF OfNobody, Age, ReapStaleSlots, FallDue, WaitOver, CooldownOver,
                    RotateByOperator, SetState, Recover, RefreshInv, RefreshersOK
    <2> QED
        BY <2>1, <2>2, <2>3 DEF RefreshNext, OfRefresher, OfNobody
<1> QED
    BY <1>1, RefreshTyped, TokensStep, AstrayStep, TokenStep DEF RefreshInv

(* A caller of the provider holds the lock, or is one whose session broke.  *)
LEMMA CallersAreFew == RefreshInv => OneRefreshAtATime
<1> SUFFICES ASSUME RefreshInv PROVE OneRefreshAtATime
    OBVIOUS
<1>1. /\ IsFiniteSet(Astray) /\ Cardinality(Astray) <= broken /\ broken \in Nat
      /\ Cardinality(Astray) \in Nat
    BY RefreshTypes, RefreshAssumption, FS_CardinalityType DEF RefreshInv, AstrayBroke
<1>2. Calling \subseteq Astray \cup {refreshLock}
    BY DEF Calling, Astray
<1>3. /\ IsFiniteSet(Astray \cup {refreshLock})
      /\ Cardinality(Astray \cup {refreshLock}) \in {Cardinality(Astray), Cardinality(Astray) + 1}
    BY <1>1, FS_AddElement
<1>4. /\ Cardinality(Calling) <= Cardinality(Astray \cup {refreshLock})
      /\ Cardinality(Calling) \in Nat /\ Cardinality(Astray \cup {refreshLock}) \in Nat
    BY <1>2, <1>3, FS_Subset, FS_CardinalityType
<1> QED
    BY <1>1, <1>3, <1>4 DEF OneRefreshAtATime

(* One refresh of an account calls the provider at a time, as many more as  *)
(* lock sessions broke, and without a fault the stored token is the one the *)
(* provider accepts (admitAndRefresh, acquireRefreshAccountLock,            *)
(* SaveRefreshSuccessWithAudit), for any workers, versions and faults.      *)
THEOREM RefreshesAreSafe == RefreshSpec => []RefreshSafety
<1>1. RefreshInv => RefreshSafety
    BY CallersAreFew DEF RefreshInv, RefreshSafety, TokenKept, TokenAtHand
<1> QED
    BY <1>1, RefreshStart, RefreshSteps, PTL DEF RefreshSpec

(* Only a success or an operator takes an account out of revoked, and to    *)
(* healthy; no cooldown and no late failure (updateProviderAccountHealth).  *)
THEOREM RevokedStaysShut == RefreshSpec => RevocationHolds
<1>1. [RefreshNext]_refreshVars =>
          [health = "revoked" => health' \in {"revoked", "healthy"}]_refreshVars
    BY DEF RefreshNext, refreshVars, StartRefresh, TakeSlot, NoSlot, TakeLock, Admit, Defer, Load,
           Exchange, CallFails, AnswerLost, Save, SaveFails, SaveFailure, Audit, AuditFails,
           Unlock, Unslot, UnslotFails, Die, Break, Age, ReapStaleSlots, FallDue, WaitOver,
           CooldownOver, RotateByOperator, SetState, Recover, Health
<1> QED
    BY <1>1, PTL DEF RefreshSpec, RevocationHolds

-----------------------------------------------------------------------------
(* Media tasks.                                                             *)

MediaSteps ==
    {"idle", "mark", "submit", "bind", "unknown", "defer", "report", "poll", "progress",
     "deferlease", "settle", "state", "charge", "succeed", "swept", "fail", "expire",
     "abort", "end"}

(* A worker that aborts a task knows what the task ends as.                 *)
MediaShapes ==
    /\ mediaWorker \in [MediaWorkers -> [pc : MediaSteps, out : {"none", "failed", "expired"}]]
    /\ \A w \in MediaWorkers :
          mediaWorker[w].pc \in {"abort", "end"} => mediaWorker[w].out # "none"

Submitting(w) == mediaWorker[w].pc \in {"submit", "defer"}

(* What makes one submission inductive: the step from queued to submitting  *)
(* is taken once before a job exists, whoever holds the lease later, and a  *)
(* task is queued again only by a worker that was told there is no job.     *)
OneSubmits ==
    /\ \A v, w \in MediaWorkers : Submitting(v) /\ Submitting(w) => v = w
    /\ task.status = "queued" => jobs = 0 /\ \A w \in MediaWorkers : ~Submitting(w)
    /\ jobs > 0 => \A w \in MediaWorkers : ~Submitting(w)

(* What a worker read of the claim still holds when it writes the task.     *)
MoneyIsRead == \A w \in MediaWorkers :
    /\ mediaWorker[w].pc = "end" => mediaClaim # "reserving"
    /\ mediaWorker[w].pc = "succeed" => mediaClaim = "committed"

(* Where the claim has the task's own lease, it runs out after the timeout. *)
SweepFollowsLease == ~task.video => (over => late) /\ (listed => over)

MediaInv == MediaSafety /\ MediaShapes /\ OneSubmits /\ MoneyIsRead /\ SweepFollowsLease

TaskRec ==
    [video : BOOLEAN, status : Runnable \cup Terminal \cup {"unknown"}, bound : BOOLEAN,
     owner : MediaWorkers \cup {NoOwner}, due : BOOLEAN]

(* What the two ways to let go of a row make of it (Released, Deferred).    *)
LEMMA TaskWrites ==
    ASSUME task \in TaskRec, NEW s \in Runnable \cup Terminal \cup {"unknown"}
    PROVE  /\ Released(s) \in TaskRec /\ Released(s).status = s
           /\ Released(s).bound = task.bound /\ Released(s).video = task.video
           /\ Deferred(s) \in TaskRec /\ Deferred(s).status = s
           /\ Deferred(s).bound = task.bound /\ Deferred(s).video = task.video
<1>1. Released(s) \in TaskRec
    BY Zenon DEF TaskRec, Released
<1>2. Deferred(s) \in TaskRec
    BY Zenon DEF TaskRec, Deferred
<1>3. Released(s).status = s /\ Released(s).bound = task.bound /\ Released(s).video = task.video
    BY SMT DEF TaskRec, Released
<1>4. Deferred(s).status = s /\ Deferred(s).bound = task.bound /\ Deferred(s).video = task.video
    BY SMT DEF TaskRec, Deferred
<1> QED
    BY <1>1, <1>2, <1>3, <1>4

(* A lease is taken (AcquireLease).                                         *)
LEMMA LeaseWrites ==
    ASSUME task \in TaskRec, NEW o \in MediaWorkers, NEW d \in BOOLEAN
    PROVE  /\ [task EXCEPT !.owner = o, !.due = d] \in TaskRec
           /\ [task EXCEPT !.owner = o, !.due = d].status = task.status
           /\ [task EXCEPT !.owner = o, !.due = d].bound = task.bound
           /\ [task EXCEPT !.owner = o, !.due = d].video = task.video
<1>1. [task EXCEPT !.owner = o, !.due = d] \in TaskRec
    BY Zenon DEF TaskRec
<1> QED
    BY <1>1, SMT DEF TaskRec

(* A task is bound to its job (MarkProviderSubmitted and                    *)
(* AttachUnknownSubmission).                                                *)
LEMMA BoundWrites ==
    ASSUME task \in TaskRec
    PROVE  /\ [Released("in_progress") EXCEPT !.bound = TRUE] \in TaskRec
           /\ [Released("in_progress") EXCEPT !.bound = TRUE].status = "in_progress"
           /\ [Released("in_progress") EXCEPT !.bound = TRUE].video = task.video
<1> DEFINE free == Released("in_progress")
           made == [free EXCEPT !.bound = TRUE]
<1>1. free \in TaskRec /\ free.status = "in_progress" /\ free.video = task.video
    BY TaskWrites, SMT DEF Runnable
<1> HIDE DEF free
<1>2. made \in TaskRec
    BY <1>1, Zenon DEF TaskRec
<1>3. made.status = "in_progress" /\ made.video = task.video
    BY <1>1, SMT DEF TaskRec
<1> QED
    BY <1>2, <1>3 DEF free

(* A queued task has no worker and no job, and holds its money.             *)
LEMMA MediaStarts == MediaInit => MediaInv
<1> SUFFICES ASSUME MediaInit PROVE MediaInv
    OBVIOUS
<1>1. PICK video \in BOOLEAN : task = [video |-> video, status |-> "queued", bound |-> FALSE,
                                       owner |-> NoOwner, due |-> TRUE]
    BY DEF MediaInit
<1>2. task \in TaskRec /\ task.status = "queued" /\ ~task.bound
    BY <1>1, SMT DEF TaskRec, Runnable
<1>3. \A w \in MediaWorkers : mediaWorker[w].pc = "idle" /\ mediaWorker[w].out = "none"
    BY DEF MediaInit, NoTask
<1>4. mediaWorker \in [MediaWorkers -> [pc : MediaSteps, out : {"none", "failed", "expired"}]]
    BY SMT DEF MediaInit, NoTask, MediaSteps
<1>5. MediaTypeOK
    <2>1. jobs = 0 /\ mediaFaults \in 0..MaxMediaFaults /\ defers \in 0..MaxDefers
        BY MediaAssumption, SMT DEF MediaInit
    <2>2. /\ mediaClaim = "reserving" /\ listed = FALSE /\ unknown = "none" /\ orphan = "none"
          /\ job = "none" /\ late = FALSE /\ over = FALSE
        BY DEF MediaInit
    <2>3. /\ task.bound => task.status \in Terminal \cup {"in_progress", "pending"}
          /\ task.status = "releasing" => unknown = "requested"
        BY <1>2
    <2> QED
        BY <1>2, <1>3, <2>1, <2>2, <2>3 DEF MediaTypeOK, TaskRec
<1>6. MediaShapes /\ OneSubmits /\ MoneyIsRead
    BY <1>3, <1>4, SMT DEF MediaInit, MediaShapes, OneSubmits, Submitting, MoneyIsRead
<1>7. /\ OneUpstreamJob /\ SucceededIsPaid /\ EndedWithoutProductIsFree
      /\ LeaseCoversTask /\ SweepFollowsLease
    BY <1>2, SMT DEF MediaInit, OneUpstreamJob, SucceededIsPaid, EndedWithoutProductIsFree,
                     LeaseCoversTask, SweepFollowsLease
<1> QED
    BY <1>5, <1>6, <1>7 DEF MediaInv, MediaSafety

(* The lease sweeper's abort keeps the types (sweepOnce).                   *)
LEMMA SweepTypes == ASSUME MediaTypeOK, SweepAbort PROVE MediaTypeOK'
<1>1. mediaClaim' \in {"reserving", "committed", "aborted", "swept"}
    BY SMT DEF MediaTypeOK, SweepAbort
<1>2. /\ listed' = FALSE
      /\ UNCHANGED <<task, unknown, orphan, jobs, job, late, over, mediaWorker, mediaFaults, defers>>
    BY DEF SweepAbort
<1>3. /\ task' = task /\ unknown' = unknown /\ orphan' = orphan /\ job' = job /\ jobs' = jobs
      /\ mediaWorker' = mediaWorker
    BY <1>2
<1>4. late' = late /\ over' = over /\ mediaFaults' = mediaFaults /\ defers' = defers
    BY <1>2
<1>5. (/\ late \in BOOLEAN /\ over \in BOOLEAN
       /\ mediaFaults \in 0..MaxMediaFaults /\ defers \in 0..MaxDefers)'
    BY <1>4, Zenon DEF MediaTypeOK
<1>6. (/\ task.bound => task.status \in Terminal \cup {"in_progress", "pending"}
       /\ task.status = "releasing" => unknown = "requested")'
    BY <1>3, Zenon DEF MediaTypeOK
<1> QED
    BY <1>1, <1>2, <1>3, <1>5, <1>6, Zenon DEF MediaTypeOK

(* Every step of a worker, the sweeper, time and the administrator keeps    *)
(* the invariant (processLeased and the store's functions).                 *)
LEMMA MediaInvHolds == MediaInv /\ [MediaNext]_mediaVars => MediaInv'
<1> SUFFICES ASSUME MediaInv, [MediaNext]_mediaVars PROVE MediaInv'
    OBVIOUS
<1> USE MediaAssumption
    DEF MediaInv, MediaSafety, MediaTypeOK, OneUpstreamJob, SucceededIsPaid,
        EndedWithoutProductIsFree, LeaseCoversTask, MediaShapes, OneSubmits, Submitting,
        MoneyIsRead, SweepFollowsLease, NoTask, MediaSteps, Runnable, Terminal, MoveTo,
        IsAt, TaskRec
<1>0. task \in TaskRec
    BY DEF MediaInv, MediaSafety, MediaTypeOK, TaskRec
<1>1. ASSUME NEW w \in MediaWorkers, AcquireLease(w) PROVE MediaInv'
    <2>1. task' \in TaskRec /\ task'.video = task.video
        <3>1. task' = [task EXCEPT !.owner = w, !.due = FALSE]
            BY <1>1 DEF AcquireLease
        <3> QED
            BY <1>0, <3>1, LeaseWrites, Zenon
    <2>2. MediaTypeOK'
        BY <2>1, <1>1, SMTT(30) DEF AcquireLease, FirstStep
    <2>3. MediaShapes'
        BY <1>1, SMTT(30) DEF AcquireLease, FirstStep
    <2>4. OneSubmits' /\ OneUpstreamJob'
        BY <1>1, SMTT(30) DEF AcquireLease, FirstStep
    <2>5. (SucceededIsPaid /\ EndedWithoutProductIsFree /\ MoneyIsRead)'
        BY <1>1, SMTT(30) DEF AcquireLease, FirstStep
    <2>6. ((~task.video => LeaseCoversTask) /\ SweepFollowsLease)'
        BY <1>1, SMTT(30) DEF AcquireLease, FirstStep
    <2> QED
        BY <2>2, <2>3, <2>4, <2>5, <2>6, Zenon DEF MediaInv, MediaSafety
<1>2. ASSUME NEW w \in MediaWorkers, MarkSubmitting(w) PROVE MediaInv'
    BY <1>2, SMTT(30) DEF MarkSubmitting, Owns, PutDown
<1>3. ASSUME NEW w \in MediaWorkers, SubmitAccepted(w) PROVE MediaInv'
    BY <1>3, SMTT(30) DEF SubmitAccepted
<1>4. ASSUME NEW w \in MediaWorkers, SubmitRefused(w) PROVE MediaInv'
    BY <1>4, SMTT(30) DEF SubmitRefused
<1>5. ASSUME NEW w \in MediaWorkers, DeferSubmission(w) PROVE MediaInv'
    <2>1. task' \in TaskRec /\ task'.video = task.video
        BY <1>5, TaskWrites, SMTT(30) DEF DeferSubmission, Owns, PutDown, TaskRec, Runnable,
           Terminal, MediaSteps
    <2>2. MediaTypeOK'
        BY <1>5, TaskWrites, SMTT(30) DEF DeferSubmission, Owns, PutDown
    <2>3. MediaShapes'
        BY <1>5, SMTT(30) DEF DeferSubmission, Owns, PutDown
    <2>4. OneSubmits' /\ OneUpstreamJob'
        BY <1>5, SMTT(30) DEF DeferSubmission, Owns, PutDown
    <2>5. (SucceededIsPaid /\ EndedWithoutProductIsFree /\ MoneyIsRead)'
        BY <1>5, TaskWrites, SMTT(30) DEF DeferSubmission, Owns, PutDown
    <2>6. ((~task.video => LeaseCoversTask) /\ SweepFollowsLease)'
        BY <2>1, <1>5, SMTT(30) DEF DeferSubmission, Owns, PutDown
    <2> QED
        BY <2>2, <2>3, <2>4, <2>5, <2>6, Zenon DEF MediaInv, MediaSafety
<1>6. ASSUME NEW w \in MediaWorkers, MarkProviderSubmitted(w) PROVE MediaInv'
    <2>0. /\ UNCHANGED <<mediaClaim, listed, unknown, orphan, jobs, job, late, over, mediaFaults, defers>>
          /\ \/ task' = task
             \/ task' = [Released("in_progress") EXCEPT !.bound = TRUE]
          /\ \/ mediaWorker' = [mediaWorker EXCEPT ![w] = NoTask]
             \/ mediaWorker' = [mediaWorker EXCEPT ![w].pc = "report"]
        BY <1>6 DEF MarkProviderSubmitted, PutDown
    <2>1. task' \in TaskRec /\ task'.video = task.video
        BY <1>0, <2>0, BoundWrites, Zenon
    <2>2. task' = task \/ task'.status = "in_progress"
        BY <2>0, BoundWrites, <1>0, Zenon
    <2>3. MediaShapes'
        <3>1. CASE mediaWorker' = [mediaWorker EXCEPT ![w] = NoTask]
            BY <3>1, SMT
        <3>2. CASE mediaWorker' = [mediaWorker EXCEPT ![w].pc = "report"]
            BY <3>2, SMT
        <3> QED
            BY <2>0, <3>1, <3>2
    <2>4. MediaTypeOK'
        <3>1. \A v \in MediaWorkers : mediaWorker'[v].out \in {"none", "failed", "expired"}
            BY <2>3, SMT DEF MediaShapes
        <3>2. (/\ task.bound => task.status \in Terminal \cup {"in_progress", "pending"}
               /\ task.status = "releasing" => unknown = "requested")'
            BY <2>0, <2>2, SMT
        <3> QED
            BY <2>0, <2>1, <3>1, <3>2, Zenon DEF MediaTypeOK, TaskRec
    <2>5. OneSubmits' /\ OneUpstreamJob'
        <3>1. \A v \in MediaWorkers : Submitting(v)' => Submitting(v)
            BY <2>0, SMT
        <3> HIDE DEF Submitting
        <3>2. (task.status = "queued" => jobs = 0 /\ \A v \in MediaWorkers : ~Submitting(v))'
            BY <2>0, <2>2, <3>1, Zenon
        <3> QED
            BY <2>0, <3>1, <3>2, Zenon
    <2>6. (SucceededIsPaid /\ EndedWithoutProductIsFree)'
        BY <2>0, <2>2, SMT
    <2>7. MoneyIsRead'
        BY <2>0, SMT
    <2>8. ((~task.video => LeaseCoversTask) /\ SweepFollowsLease)'
        BY <2>0, <2>1, Zenon
    <2> QED
        BY <2>3, <2>4, <2>5, <2>6, <2>7, <2>8, Zenon DEF MediaInv, MediaSafety
<1>7. ASSUME NEW w \in MediaWorkers, ReportOrphan(w) PROVE MediaInv'
    BY <1>7, SMTT(30) DEF ReportOrphan, PutDown
<1>8. ASSUME NEW w \in MediaWorkers, MarkSubmissionUnknown(w) PROVE MediaInv'
    <2>1. task' \in TaskRec /\ task'.video = task.video
        BY <1>8, TaskWrites, SMTT(30) DEF MarkSubmissionUnknown, Owns, PutDown, TaskRec,
           Runnable, Terminal, MediaSteps
    <2>2. MediaTypeOK'
        BY <1>8, TaskWrites, SMTT(30) DEF MarkSubmissionUnknown, Owns, PutDown
    <2>3. MediaShapes'
        BY <1>8, SMTT(30) DEF MarkSubmissionUnknown, Owns, PutDown
    <2>4. OneSubmits' /\ OneUpstreamJob'
        BY <1>8, TaskWrites, SMTT(30) DEF MarkSubmissionUnknown, Owns, PutDown
    <2>5. (SucceededIsPaid /\ EndedWithoutProductIsFree /\ MoneyIsRead)'
        BY <1>8, TaskWrites, SMTT(30) DEF MarkSubmissionUnknown, Owns, PutDown
    <2>6. ((~task.video => LeaseCoversTask) /\ SweepFollowsLease)'
        BY <2>1, <1>8, SMTT(30) DEF MarkSubmissionUnknown, Owns, PutDown
    <2> QED
        BY <2>2, <2>3, <2>4, <2>5, <2>6, Zenon DEF MediaInv, MediaSafety
<1>9. ASSUME NEW w \in MediaWorkers, Poll(w) PROVE MediaInv'
    BY <1>9, SMTT(30) DEF Poll, PutDown
<1>10. ASSUME NEW w \in MediaWorkers, UpdateProgress(w) PROVE MediaInv'
    <2>1. task' \in TaskRec /\ task'.video = task.video
        BY <1>10, TaskWrites, SMTT(30) DEF UpdateProgress, Owns, PutDown, TaskRec, Runnable,
           Terminal, MediaSteps
    <2>2. MediaTypeOK'
        BY <1>10, TaskWrites, SMTT(30) DEF UpdateProgress, Owns, PutDown
    <2>3. MediaShapes'
        BY <1>10, SMTT(30) DEF UpdateProgress, Owns, PutDown
    <2>4. OneSubmits' /\ OneUpstreamJob'
        BY <1>10, TaskWrites, SMTT(30) DEF UpdateProgress, Owns, PutDown
    <2>5. (SucceededIsPaid /\ EndedWithoutProductIsFree /\ MoneyIsRead)'
        BY <1>10, TaskWrites, SMTT(30) DEF UpdateProgress, Owns, PutDown
    <2>6. ((~task.video => LeaseCoversTask) /\ SweepFollowsLease)'
        BY <2>1, <1>10, SMTT(30) DEF UpdateProgress, Owns, PutDown
    <2> QED
        BY <2>2, <2>3, <2>4, <2>5, <2>6, Zenon DEF MediaInv, MediaSafety
<1>11. ASSUME NEW w \in MediaWorkers, DeferLease(w) PROVE MediaInv'
    <2>1. task' \in TaskRec /\ task'.video = task.video
        BY <1>11, TaskWrites, SMTT(30) DEF DeferLease, Owns, PutDown, TaskRec, Runnable,
           Terminal, MediaSteps
    <2>2. MediaTypeOK'
        BY <1>11, TaskWrites, SMTT(30) DEF DeferLease, Owns, PutDown
    <2>3. MediaShapes'
        BY <1>11, SMTT(30) DEF DeferLease, Owns, PutDown
    <2>4. OneSubmits' /\ OneUpstreamJob'
        BY <1>11, TaskWrites, SMTT(30) DEF DeferLease, Owns, PutDown
    <2>5. (SucceededIsPaid /\ EndedWithoutProductIsFree /\ MoneyIsRead)'
        BY <1>11, TaskWrites, SMTT(30) DEF DeferLease, Owns, PutDown
    <2>6. ((~task.video => LeaseCoversTask) /\ SweepFollowsLease)'
        BY <2>1, <1>11, SMTT(30) DEF DeferLease, Owns, PutDown
    <2> QED
        BY <2>2, <2>3, <2>4, <2>5, <2>6, Zenon DEF MediaInv, MediaSafety
<1>12. ASSUME NEW w \in MediaWorkers, PersistPendingSuccess(w) PROVE MediaInv'
    <2>0. /\ UNCHANGED <<mediaClaim, listed, unknown, orphan, jobs, job, late, over, mediaFaults, defers>>
          /\ \/ task' = task
             \/ task' = [task EXCEPT !.status = "pending"] /\ task.status \in {"in_progress", "pending"}
          /\ \/ mediaWorker' = [mediaWorker EXCEPT ![w] = NoTask]
             \/ mediaWorker' = [mediaWorker EXCEPT ![w].pc = "state"]
        BY <1>12 DEF PersistPendingSuccess, Owns, PutDown
    <2>1. task' \in TaskRec /\ task'.video = task.video
        BY <2>0, SMT
    <2>2. task' = task \/ task'.status = "pending"
        BY <2>0, SMT
    <2>3. MediaShapes' /\ MoneyIsRead'
        BY <2>0, SMT
    <2>4. MediaTypeOK'
        BY <2>0, <2>1, <2>3, SMTT(30)
    <2>5. OneSubmits' /\ OneUpstreamJob'
        BY <2>0, <2>2, SMT
    <2>6. (SucceededIsPaid /\ EndedWithoutProductIsFree)'
        BY <2>0, <2>2, SMT
    <2>7. ((~task.video => LeaseCoversTask) /\ SweepFollowsLease)'
        BY <2>0, <2>1, Zenon
    <2> QED
        BY <2>3, <2>4, <2>5, <2>6, <2>7, Zenon DEF MediaInv, MediaSafety
<1>13. ASSUME NEW w \in MediaWorkers, ClaimSettlementState(w) PROVE MediaInv'
    BY <1>13, SMTT(30) DEF ClaimSettlementState
<1>14. ASSUME NEW w \in MediaWorkers, Charge(w) PROVE MediaInv'
    BY <1>14, SMTT(30) DEF Charge, PutDown
<1>15. ASSUME NEW w \in MediaWorkers, MarkTaskSucceeded(w) PROVE MediaInv'
    <2>1. task' \in TaskRec /\ task'.video = task.video
        BY <1>15, TaskWrites, SMTT(30) DEF MarkTaskSucceeded, PutDown, Succeeded, TaskRec,
           Runnable, Terminal, Owns, MediaSteps
    <2>2. MediaTypeOK'
        BY <1>15, TaskWrites, SMTT(30) DEF MarkTaskSucceeded, PutDown, Succeeded
    <2>3. MediaShapes'
        BY <1>15, SMTT(30) DEF MarkTaskSucceeded, PutDown, Succeeded
    <2>4. OneSubmits' /\ OneUpstreamJob'
        BY <1>15, TaskWrites, SMTT(30) DEF MarkTaskSucceeded, PutDown, Succeeded
    <2>5. (SucceededIsPaid /\ EndedWithoutProductIsFree /\ MoneyIsRead)'
        BY <1>15, TaskWrites, SMTT(30) DEF MarkTaskSucceeded, PutDown, Succeeded
    <2>6. ((~task.video => LeaseCoversTask) /\ SweepFollowsLease)'
        BY <2>1, <1>15, SMTT(30) DEF MarkTaskSucceeded, PutDown, Succeeded
    <2> QED
        BY <2>2, <2>3, <2>4, <2>5, <2>6, Zenon DEF MediaInv, MediaSafety
<1>16. ASSUME NEW w \in MediaWorkers, FinishSuccessAfterSweptClaim(w) PROVE MediaInv'
    <2>1. task' \in TaskRec /\ task'.video = task.video
        BY <1>16, TaskWrites, SMTT(30) DEF FinishSuccessAfterSweptClaim, PutDown, Succeeded,
           Orphaned, TaskRec, Runnable, Terminal, Owns, MediaSteps
    <2>2. MediaTypeOK'
        BY <1>16, TaskWrites, SMTT(30) DEF FinishSuccessAfterSweptClaim, PutDown, Succeeded,
           Orphaned
    <2>3. MediaShapes'
        BY <1>16, SMTT(30) DEF FinishSuccessAfterSweptClaim, PutDown, Succeeded, Orphaned
    <2>4. OneSubmits' /\ OneUpstreamJob'
        BY <1>16, TaskWrites, SMTT(30) DEF FinishSuccessAfterSweptClaim, PutDown, Succeeded,
           Orphaned
    <2>5. (SucceededIsPaid /\ EndedWithoutProductIsFree /\ MoneyIsRead)'
        BY <1>16, TaskWrites, SMTT(30) DEF FinishSuccessAfterSweptClaim, PutDown, Succeeded,
           Orphaned
    <2>6. ((~task.video => LeaseCoversTask) /\ SweepFollowsLease)'
        BY <2>1, <1>16, SMTT(30) DEF FinishSuccessAfterSweptClaim, PutDown, Succeeded, Orphaned
    <2> QED
        BY <2>2, <2>3, <2>4, <2>5, <2>6, Zenon DEF MediaInv, MediaSafety
<1>17. ASSUME NEW w \in MediaWorkers, CompleteSuccess(w) PROVE MediaInv'
    <2>1. task' \in TaskRec /\ task'.video = task.video
        BY <1>17, TaskWrites, SMTT(30) DEF CompleteSuccess, Owns, PutDown, Succeeded, Orphaned,
           TaskRec, Runnable, Terminal, MediaSteps
    <2>2. MediaTypeOK'
        BY <1>17, TaskWrites, SMTT(30) DEF CompleteSuccess, Owns, PutDown, Succeeded, Orphaned
    <2>3. MediaShapes'
        BY <1>17, SMTT(30) DEF CompleteSuccess, Owns, PutDown, Succeeded, Orphaned
    <2>4. OneSubmits' /\ OneUpstreamJob'
        BY <1>17, TaskWrites, SMTT(30) DEF CompleteSuccess, Owns, PutDown, Succeeded, Orphaned
    <2>5. (SucceededIsPaid /\ EndedWithoutProductIsFree /\ MoneyIsRead)'
        BY <1>17, TaskWrites, SMTT(30) DEF CompleteSuccess, Owns, PutDown, Succeeded, Orphaned
    <2>6. ((~task.video => LeaseCoversTask) /\ SweepFollowsLease)'
        BY <1>17, SMTT(30) DEF CompleteSuccess, Owns, PutDown, Succeeded, Orphaned
    <2> QED
        BY <2>2, <2>3, <2>4, <2>5, <2>6, Zenon DEF MediaInv, MediaSafety
<1>18. ASSUME NEW w \in MediaWorkers, AbortRead(w) PROVE MediaInv'
    BY <1>18, SMTT(30) DEF AbortRead, Owns, PutDown, Ends
<1>19. ASSUME NEW w \in MediaWorkers, AbortClaim(w) PROVE MediaInv'
    BY <1>19, SMTT(30) DEF AbortClaim
<1>20. ASSUME NEW w \in MediaWorkers, AbortTask(w) PROVE MediaInv'
    <2>1. task' \in TaskRec /\ task'.video = task.video
        <3>1. mediaWorker[w].out \in Terminal
            BY <1>20, SMT DEF MediaInv, MediaShapes, AbortTask, IsAt, Terminal
        <3>2. task' = task \/ task' = Released(mediaWorker[w].out)
            BY <1>20 DEF AbortTask
        <3> QED
            BY <1>0, <3>1, <3>2, TaskWrites, SMT
    <2>2. MediaTypeOK'
        BY <1>20, TaskWrites, SMTT(30) DEF AbortTask, Owns, PutDown, Cancelled
    <2>3. MediaShapes'
        BY <1>20, SMTT(30) DEF AbortTask, Owns, PutDown, Cancelled
    <2>4. OneSubmits' /\ OneUpstreamJob'
        BY <1>20, TaskWrites, SMTT(30) DEF AbortTask, Owns, PutDown, Cancelled
    <2>5. (SucceededIsPaid /\ EndedWithoutProductIsFree /\ MoneyIsRead)'
        BY <1>20, TaskWrites, SMTT(30) DEF AbortTask, Owns, PutDown, Cancelled
    <2>6. ((~task.video => LeaseCoversTask) /\ SweepFollowsLease)'
        BY <2>1, <1>20, SMTT(30) DEF AbortTask, Owns, PutDown, Cancelled
    <2> QED
        BY <2>2, <2>3, <2>4, <2>5, <2>6, Zenon DEF MediaInv, MediaSafety
<1>21. ASSUME NEW w \in MediaWorkers, CompleteFailure(w) PROVE MediaInv'
    <2>1. task' \in TaskRec /\ task'.video = task.video
        BY <1>21, TaskWrites, SMTT(30) DEF CompleteFailure, Owns, PutDown, Cancelled, Orphaned,
           Ends, TaskRec, Runnable, Terminal, MediaSteps
    <2>2. MediaTypeOK'
        BY <1>21, TaskWrites, SMTT(30) DEF CompleteFailure, Owns, PutDown, Cancelled, Orphaned,
           Ends
    <2>3. MediaShapes'
        BY <1>21, SMTT(30) DEF CompleteFailure, Owns, PutDown, Cancelled, Orphaned, Ends
    <2>4. OneSubmits' /\ OneUpstreamJob'
        BY <1>21, TaskWrites, SMTT(30) DEF CompleteFailure, Owns, PutDown, Cancelled, Orphaned,
           Ends
    <2>5. (SucceededIsPaid /\ EndedWithoutProductIsFree /\ MoneyIsRead)'
        BY <1>21, TaskWrites, SMTT(30) DEF CompleteFailure, Owns, PutDown, Cancelled, Orphaned,
           Ends
    <2>6. ((~task.video => LeaseCoversTask) /\ SweepFollowsLease)'
        BY <1>21, SMTT(30) DEF CompleteFailure, Owns, PutDown, Cancelled, Orphaned, Ends
    <2> QED
        BY <2>2, <2>3, <2>4, <2>5, <2>6, Zenon DEF MediaInv, MediaSafety
<1>22. ASSUME NEW w \in MediaWorkers, Interrupted(w) PROVE MediaInv'
    BY <1>22, SMTT(30) DEF Interrupted, PutDown, MediaFault
<1>23. ASSUME LeaseEnds PROVE MediaInv'
    <2>1. task' \in TaskRec /\ task'.video = task.video
        <3>1. task' = [task EXCEPT !.due = TRUE]
            BY <1>23 DEF LeaseEnds
        <3> QED
            <4>1. [task EXCEPT !.due = TRUE] \in TaskRec
                BY <1>0, Zenon
            <4> QED
                BY <1>0, <3>1, <4>1, SMT
    <2>2. MediaTypeOK'
        BY <2>1, <1>23, SMTT(30) DEF LeaseEnds, MediaFault
    <2>3. MediaShapes'
        BY <1>23, SMTT(30) DEF LeaseEnds, MediaFault
    <2>4. OneSubmits' /\ OneUpstreamJob'
        BY <1>23, SMTT(30) DEF LeaseEnds, MediaFault
    <2>5. (SucceededIsPaid /\ EndedWithoutProductIsFree /\ MoneyIsRead)'
        BY <1>23, SMTT(30) DEF LeaseEnds, MediaFault
    <2>6. ((~task.video => LeaseCoversTask) /\ SweepFollowsLease)'
        BY <1>23, SMTT(30) DEF LeaseEnds, MediaFault
    <2> QED
        BY <2>2, <2>3, <2>4, <2>5, <2>6, Zenon DEF MediaInv, MediaSafety
<1>24. ASSUME JobEnds PROVE MediaInv'
    BY <1>24, SMTT(30) DEF JobEnds
<1>25. ASSUME TaskTimeout PROVE MediaInv'
    BY <1>25, SMTT(30) DEF TaskTimeout
<1>26. ASSUME ClaimLeaseEnds PROVE MediaInv'
    BY <1>26, SMTT(30) DEF ClaimLeaseEnds
<1>27. ASSUME SweepSelect PROVE MediaInv'
    BY <1>27, SMTT(30) DEF SweepSelect
<1>28. ASSUME SweepAbort PROVE MediaInv'
    <2>1. task' \in TaskRec /\ task'.video = task.video
        BY <1>28, SMTT(30) DEF SweepAbort, TaskRec, Runnable, Terminal, Owns, MediaSteps
    <2>2. MediaTypeOK'
        BY <1>28, SweepTypes
    <2>3. MediaShapes'
        BY <1>28, SMTT(30) DEF SweepAbort
    <2>4. OneSubmits' /\ OneUpstreamJob'
        BY <1>28, SMTT(30) DEF SweepAbort
    <2>5. (SucceededIsPaid /\ EndedWithoutProductIsFree /\ MoneyIsRead)'
        BY <1>28, SMTT(30) DEF SweepAbort
    <2>6. ((~task.video => LeaseCoversTask) /\ SweepFollowsLease)'
        BY <1>28, SMTT(30) DEF SweepAbort
    <2> QED
        BY <2>2, <2>3, <2>4, <2>5, <2>6, Zenon DEF MediaInv, MediaSafety
<1>29. ASSUME AttachUnknownSubmission PROVE MediaInv'
    <2>1. task' \in TaskRec /\ task'.video = task.video
        <3>1. task' = [Released("in_progress") EXCEPT !.bound = TRUE]
            BY <1>29 DEF AttachUnknownSubmission
        <3> QED
            BY <1>0, <3>1, BoundWrites, Zenon
    <2>2. MediaTypeOK'
        BY <2>1, <1>29, TaskWrites, SMTT(30) DEF AttachUnknownSubmission
    <2>3. MediaShapes'
        BY <1>29, SMTT(30) DEF AttachUnknownSubmission
    <2>4. OneSubmits' /\ OneUpstreamJob'
        BY <1>29, TaskWrites, SMTT(30) DEF AttachUnknownSubmission
    <2>5. (SucceededIsPaid /\ EndedWithoutProductIsFree /\ MoneyIsRead)'
        BY <1>29, TaskWrites, SMTT(30) DEF AttachUnknownSubmission
    <2>6. ((~task.video => LeaseCoversTask) /\ SweepFollowsLease)'
        BY <2>1, <1>29, SMTT(30) DEF AttachUnknownSubmission
    <2> QED
        BY <2>2, <2>3, <2>4, <2>5, <2>6, Zenon DEF MediaInv, MediaSafety
<1>30. ASSUME RequestUnknownSubmissionRelease PROVE MediaInv'
    <2>1. task' \in TaskRec /\ task'.video = task.video
        BY <1>30, TaskWrites, SMTT(30) DEF RequestUnknownSubmissionRelease, TaskRec, Runnable,
           Terminal, Owns, MediaSteps
    <2>2. MediaTypeOK'
        BY <1>30, TaskWrites, SMTT(30) DEF RequestUnknownSubmissionRelease
    <2>3. MediaShapes'
        BY <1>30, SMTT(30) DEF RequestUnknownSubmissionRelease
    <2>4. OneSubmits' /\ OneUpstreamJob'
        BY <1>30, TaskWrites, SMTT(30) DEF RequestUnknownSubmissionRelease
    <2>5. (SucceededIsPaid /\ EndedWithoutProductIsFree /\ MoneyIsRead)'
        BY <1>30, TaskWrites, SMTT(30) DEF RequestUnknownSubmissionRelease
    <2>6. ((~task.video => LeaseCoversTask) /\ SweepFollowsLease)'
        BY <2>1, <1>30, SMTT(30) DEF RequestUnknownSubmissionRelease
    <2> QED
        BY <2>2, <2>3, <2>4, <2>5, <2>6, Zenon DEF MediaInv, MediaSafety
<1>31. ASSUME NEW charge \in BOOLEAN, ReconcileOrphan(charge) PROVE MediaInv'
    BY <1>31, SMTT(30) DEF ReconcileOrphan
<1>32. ASSUME UNCHANGED mediaVars PROVE MediaInv'
    BY <1>32, SMTT(30) DEF mediaVars
<1> QED
    BY <1>1, <1>2, <1>3, <1>4, <1>5, <1>6, <1>7, <1>8, <1>9, <1>10, <1>11, <1>12, <1>13, <1>14,
       <1>15, <1>16, <1>17, <1>18, <1>19, <1>20, <1>21, <1>22, <1>23, <1>24, <1>25, <1>26,
       <1>27, <1>28, <1>29, <1>30, <1>31, <1>32 DEF MediaNext, MediaStep

(* A media task is submitted to its provider once, is paid for or has the   *)
(* row of its job, open or dealt with, if it is delivered, costs nothing if *)
(* it fails, and a claim with the task's own lease is not swept before the  *)
(* task's timeout (processLeased, CompleteSuccess, abortTask, reportOrphan, *)
(* resolveClaimLeaseWindow), for any workers, faults, deferrals and         *)
(* decisions of the administrator.                                          *)
THEOREM MediaTasksAreSafe == MediaSpec => []MediaSafety
<1>1. MediaInv => MediaSafety
    BY DEF MediaInv
<1> QED
    BY <1>1, MediaStarts, MediaInvHolds, PTL DEF MediaSpec

(* The claim of a media task is charged once or released once: no late      *)
(* worker, sweep or back charge moves its money again (Charge, AbortClaim,  *)
(* sweepOnce, ReconcileOrphan).                                             *)
THEOREM MediaMoneyMovesOnce == MediaSpec => MoneyMovesOnce
<1>1. MediaTypeOK /\ [MediaNext]_mediaVars
          => [mediaClaim # "reserving" => mediaClaim' = mediaClaim]_mediaVars
    <2> SUFFICES ASSUME MediaTypeOK, MediaNext, mediaClaim # "reserving"
                 PROVE  mediaClaim' = mediaClaim
        OBVIOUS
    <2>1. ASSUME NEW w \in MediaWorkers, AcquireLease(w) \/ MediaStep(w) \/ Interrupted(w)
          PROVE  mediaClaim' = mediaClaim
        BY <2>1 DEF MediaTypeOK, AcquireLease, MediaStep, Interrupted, MarkSubmitting,
                    SubmitAccepted, SubmitRefused, DeferSubmission, MarkProviderSubmitted,
                    ReportOrphan, MarkSubmissionUnknown, Poll, UpdateProgress, DeferLease,
                    PersistPendingSuccess, ClaimSettlementState, Charge, MarkTaskSucceeded,
                    FinishSuccessAfterSweptClaim, CompleteSuccess, AbortRead, AbortClaim,
                    AbortTask, CompleteFailure
    <2>2. CASE LeaseEnds \/ JobEnds \/ TaskTimeout \/ ClaimLeaseEnds \/ SweepSelect \/ SweepAbort
        BY <2>2 DEF LeaseEnds, JobEnds, TaskTimeout, ClaimLeaseEnds, SweepSelect, SweepAbort
    <2>3. ASSUME \/ AttachUnknownSubmission \/ RequestUnknownSubmissionRelease
                 \/ \E charge \in BOOLEAN : ReconcileOrphan(charge)
          PROVE  mediaClaim' = mediaClaim
        BY <2>3 DEF AttachUnknownSubmission, RequestUnknownSubmissionRelease, ReconcileOrphan
    <2> QED
        BY <2>1, <2>2, <2>3 DEF MediaNext
<1>2. MediaSpec => []MediaTypeOK
    BY MediaTasksAreSafe, PTL DEF MediaSafety
<1> QED
    BY <1>1, <1>2, PTL DEF MediaSpec, MoneyMovesOnce

-----------------------------------------------------------------------------
(* The log sink.                                                            *)

(* A sequence has as many places as it is long.                             *)
LEMMA PlacesAreFinite ==
    ASSUME NEW n \in Nat
    PROVE  IsFiniteSet(1..n) /\ Cardinality(1..n) = n
<1>1. 1 \in Int /\ n \in Int
    OBVIOUS
<1>2. IsFiniteSet(1..n) /\ Cardinality(1..n) = IF 1 > n THEN 0 ELSE n - 1 + 1
    BY <1>1, FS_Interval
<1>3. (IF 1 > n THEN 0 ELSE n - 1 + 1) = n
    OBVIOUS
<1> QED
    BY <1>2, <1>3

(* A sequence has at most as many members as places.                        *)
LEMMA MembersAreFew ==
    ASSUME NEW S, NEW s \in Seq(S)
    PROVE  /\ IsFiniteSet(ToSet(s)) /\ Cardinality(ToSet(s)) \in Nat
           /\ Cardinality(ToSet(s)) <= Len(s) /\ ToSet(s) \subseteq S
<1> DEFINE f == [i \in 1..Len(s) |-> s[i]]
<1>1. Len(s) \in Nat /\ DOMAIN s = 1..Len(s) /\ \A i \in 1..Len(s) : s[i] \in S
    BY LenProperties, ElementOfSeq
<1>2. f \in Surjection(1..Len(s), ToSet(s))
    BY <1>1 DEF Surjection, ToSet
<1>3. IsFiniteSet(1..Len(s)) /\ Cardinality(1..Len(s)) = Len(s)
    BY <1>1, PlacesAreFinite
<1>4. IsFiniteSet(ToSet(s)) /\ Cardinality(ToSet(s)) <= Cardinality(1..Len(s))
    BY <1>2, <1>3, FS_Surjection
<1> QED
    BY <1>1, <1>3, <1>4, FS_CardinalityType DEF ToSet

(* What a record joins.                                                     *)
LEMMA Joined ==
    ASSUME NEW S, NEW s \in Seq(S), NEW e \in S
    PROVE  /\ Append(s, e) \in Seq(S) /\ Append(s, e) # <<>>
           /\ Len(Append(s, e)) = Len(s) + 1
           /\ ToSet(Append(s, e)) = ToSet(s) \cup {e}
<1> DEFINE t == Append(s, e)
<1>1. /\ t \in Seq(S) /\ t # <<>> /\ Len(t) = Len(s) + 1 /\ t[Len(s) + 1] = e
      /\ \A i \in 1..Len(s) : t[i] = s[i]
    BY AppendProperties
<1>2. Len(s) \in Nat /\ DOMAIN s = 1..Len(s) /\ DOMAIN t = 1..(Len(s) + 1)
    BY <1>1, LenProperties
<1> HIDE DEF t
<1>3. ToSet(t) \subseteq ToSet(s) \cup {e}
    BY <1>1, <1>2 DEF ToSet
<1>4. ToSet(s) \subseteq ToSet(t) /\ e \in ToSet(t)
    <2>1. 1..Len(s) \subseteq 1..(Len(s) + 1) /\ Len(s) + 1 \in 1..(Len(s) + 1)
        BY <1>2
    <2> QED
        BY <1>1, <1>2, <2>1, Zenon DEF ToSet
<1> QED
    BY <1>1, <1>3, <1>4 DEF t

(* What a queue keeps when its first record leaves.                         *)
LEMMA Taken ==
    ASSUME NEW S, NEW s \in Seq(S), s # <<>>
    PROVE  /\ Head(s) \in S /\ Tail(s) \in Seq(S) /\ Len(Tail(s)) = Len(s) - 1
           /\ ToSet(s) = {Head(s)} \cup ToSet(Tail(s))
<1> DEFINE t == Tail(s)
<1>1. /\ Head(s) \in S /\ t \in Seq(S) /\ Len(t) = Len(s) - 1
      /\ \A i \in 1..Len(t) : t[i] = s[i + 1]
    BY HeadTailProperties
<1>2. /\ Len(s) \in Nat \ {0} /\ DOMAIN s = 1..Len(s) /\ DOMAIN t = 1..(Len(s) - 1)
      /\ Head(s) = s[1]
    BY <1>1, LenProperties, EmptySeq
<1> HIDE DEF t
<1>3. ToSet(s) \subseteq {Head(s)} \cup ToSet(t)
    <2> SUFFICES ASSUME NEW i \in 1..Len(s) PROVE s[i] = Head(s) \/ s[i] \in ToSet(t)
        BY <1>2 DEF ToSet
    <2>1. CASE i = 1
        BY <2>1, <1>2
    <2>2. CASE i # 1
        <3>1. i - 1 \in DOMAIN t /\ t[i - 1] = s[i]
            BY <2>2, <1>1, <1>2
        <3> QED
            BY <3>1 DEF ToSet
    <2> QED
        BY <2>1, <2>2
<1>4. {Head(s)} \cup ToSet(t) \subseteq ToSet(s)
    <2>1. Head(s) \in ToSet(s)
        BY <1>2 DEF ToSet
    <2>2. ASSUME NEW i \in DOMAIN t PROVE t[i] \in ToSet(s)
        <3>1. i + 1 \in DOMAIN s /\ t[i] = s[i + 1]
            BY <1>1, <1>2
        <3> QED
            BY <3>1 DEF ToSet
    <2> QED
        BY <2>1, <2>2, Zenon DEF ToSet
<1> QED
    BY <1>1, <1>3, <1>4 DEF t

(* The empty sequence holds nothing.                                        *)
LEMMA NoMembers == ToSet(<<>>) = {} /\ Len(<<>>) = 0
    BY DEF ToSet

(* A batch's records are of one level or the other, and there are no more   *)
(* different ones of a level than the batch has places for it.              *)
LEMMA BatchByLevel ==
    ASSUME batch \in Seq(Entries)
    PROVE  /\ OfLevel("priority") \in Nat /\ OfLevel("info") \in Nat
           /\ OfLevel("priority") + OfLevel("info") = Len(batch)
           /\ \A l \in Levels :
                 /\ IsFiniteSet({e \in ToSet(batch) : Level(e) = l})
                 /\ Cardinality({e \in ToSet(batch) : Level(e) = l}) <= OfLevel(l)
<1> DEFINE PlacesOf(l) == {i \in DOMAIN batch : Level(batch[i]) = l}
<1>1. /\ Len(batch) \in Nat /\ DOMAIN batch = 1..Len(batch)
      /\ IsFiniteSet(DOMAIN batch) /\ Cardinality(DOMAIN batch) = Len(batch)
    BY LenProperties, PlacesAreFinite
<1>2. \A l : IsFiniteSet(PlacesOf(l)) /\ Cardinality(PlacesOf(l)) \in Nat
    BY <1>1, FS_Subset, FS_CardinalityType
<1>3. PlacesOf("priority") \cup PlacesOf("info") = DOMAIN batch /\ PlacesOf("priority") \cap PlacesOf("info") = {}
    BY DEF Level
<1>4. Cardinality(PlacesOf("priority")) + Cardinality(PlacesOf("info")) = Len(batch)
    <2> HIDE DEF PlacesOf
    <2>1. Cardinality(PlacesOf("priority") \cup PlacesOf("info"))
              = Cardinality(PlacesOf("priority")) + Cardinality(PlacesOf("info")) - Cardinality({})
        BY <1>2, <1>3, FS_Union
    <2>2. Cardinality({}) = 0
        BY FS_EmptySet
    <2>3. Cardinality(DOMAIN batch) = Cardinality(PlacesOf("priority")) + Cardinality(PlacesOf("info"))
        BY <1>2, <1>3, <2>1, <2>2
    <2> QED
        BY <1>1, <2>3
<1>5. ASSUME NEW l \in Levels
      PROVE  /\ IsFiniteSet({e \in ToSet(batch) : Level(e) = l})
             /\ Cardinality({e \in ToSet(batch) : Level(e) = l}) <= Cardinality(PlacesOf(l))
    <2> DEFINE f == [i \in PlacesOf(l) |-> batch[i]]
    <2>1. f \in Surjection(PlacesOf(l), {e \in ToSet(batch) : Level(e) = l})
        BY DEF Surjection, ToSet
    <2> QED
        BY <2>1, <1>2, FS_Surjection
<1> QED
    BY <1>2, <1>4, <1>5 DEF OfLevel

(* The records in the two queues.                                           *)
Buffered == ToSet(buffer["priority"]) \cup ToSet(buffer["info"])

(* What the sink's variables hold: every record in the table or in hand was *)
(* logged, and a queue holds records of its level and no more than it may.  *)
SinkData ==
    /\ buffer \in [Levels -> Seq(Entries)] /\ batch \in Seq(Entries)
    /\ logged \subseteq Entries /\ IsFiniteSet(logged)
    /\ rows \subseteq logged /\ InHand \subseteq logged
    /\ inserted \in Nat /\ lost \in [Levels -> Nat]
    /\ \A l \in Levels :
          Len(buffer[l]) <= SinkRoom[l] /\ \A e \in ToSet(buffer[l]) : Level(e) = l

(* The numbers of an operator's page agree with what became of the records. *)
SinkBooks == SinkData /\ CountersAddUp /\ EveryLossIsCounted

(* The records of a level that are neither in the table nor in hand.        *)
Missing(l) == {e \in logged \ (rows \cup InHand) : Level(e) = l}

(* What the sink counts are numbers.                                        *)
LEMMA SinkNumbers ==
    ASSUME SinkData
    PROVE  /\ Len(buffer["priority"]) \in Nat /\ Len(buffer["info"]) \in Nat /\ Len(batch) \in Nat
           /\ Cardinality(logged) \in Nat
           /\ lost["priority"] \in Nat /\ lost["info"] \in Nat /\ inserted \in Nat
           /\ IsFiniteSet(InHand) /\ Cardinality(InHand) \in Nat
           /\ \A l \in Levels : IsFiniteSet(Missing(l)) /\ Cardinality(Missing(l)) \in Nat
<1>1. "priority" \in Levels /\ "info" \in Levels
    BY DEF Levels
<1>2. buffer["priority"] \in Seq(Entries) /\ buffer["info"] \in Seq(Entries) /\ batch \in Seq(Entries)
    BY <1>1 DEF SinkData
<1>3. Len(buffer["priority"]) \in Nat /\ Len(buffer["info"]) \in Nat /\ Len(batch) \in Nat
    BY <1>2, LenProperties
<1>4. IsFiniteSet(logged) /\ InHand \subseteq logged /\ \A l \in Levels : Missing(l) \subseteq logged
    BY DEF SinkData, Missing
<1>5. IsFiniteSet(InHand) /\ \A l \in Levels : IsFiniteSet(Missing(l))
    BY <1>4, FS_Subset
<1> QED
    BY <1>1, <1>3, <1>4, <1>5, FS_CardinalityType DEF SinkData

(* The books balance after a step by what it adds: to the records logged, in *)
(* hand, in the queues, in the batch, acknowledged and lost.                *)
LEMMA BooksMove ==
    ASSUME SinkData, CountersAddUp, buffer' \in [Levels -> Seq(Entries)], lost' \in [Levels -> Nat],
           NEW dn \in Int, NEW dh \in Int, NEW dq \in Int, NEW db \in Int, NEW di \in Int, NEW dl \in Int,
           Cardinality(logged') = Cardinality(logged) + dn,
           Cardinality(InHand') = Cardinality(InHand) + dh,
           Len(buffer'["priority"]) + Len(buffer'["info"])
               = Len(buffer["priority"]) + Len(buffer["info"]) + dq,
           Len(batch') = Len(batch) + db,
           inserted' = inserted + di,
           lost'["priority"] + lost'["info"] = lost["priority"] + lost["info"] + dl,
           dn = di + dl + dh, dh = dq + db
    PROVE  CountersAddUp'
<1> DEFINE n == Cardinality(logged)  n2 == Cardinality(logged')
           h == Cardinality(InHand)  h2 == Cardinality(InHand')
           p == Len(buffer["priority"])  p2 == Len(buffer'["priority"])
           q == Len(buffer["info"])  q2 == Len(buffer'["info"])
           b == Len(batch)  b2 == Len(batch')
           lp == lost["priority"]  lp2 == lost'["priority"]
           li == lost["info"]  li2 == lost'["info"]
           i == inserted  i2 == inserted'
<1>1. "priority" \in Levels /\ "info" \in Levels
    BY DEF Levels
<1>2. n \in Nat /\ h \in Nat /\ p \in Nat /\ q \in Nat /\ b \in Nat /\ lp \in Nat /\ li \in Nat /\ i \in Nat
    BY SinkNumbers
<1>3. p2 \in Nat /\ q2 \in Nat /\ lp2 \in Nat /\ li2 \in Nat
    BY <1>1, LenProperties
<1>4. n = i + lp + li + h /\ h = p + q + b
    BY DEF CountersAddUp
<1>5. n2 = n + dn /\ h2 = h + dh /\ p2 + q2 = p + q + dq /\ b2 = b + db /\ i2 = i + di /\ lp2 + li2 = lp + li + dl
    OBVIOUS
<1>6. n2 = i2 + lp2 + li2 + h2 /\ h2 = p2 + q2 + b2
    <2> HIDE DEF n, n2, h, h2, p, p2, q, q2, b, b2, lp, lp2, li, li2, i, i2
    <2> QED
        BY <1>2, <1>3, <1>4, <1>5
<1> QED
    BY <1>6 DEF CountersAddUp

(* A record logged is in a queue or counted as lost, whichever way Enqueue  *)
(* went (LogRecord).                                                        *)
LEMMA RecordLogged ==
    ASSUME SinkBooks, NEW e \in Entries, LogRecord(e)
    PROVE  SinkBooks'
<1> DEFINE l == Level(e)
<1>0. SinkData /\ CountersAddUp /\ EveryLossIsCounted
    BY DEF SinkBooks
<1>1. /\ l \in Levels /\ e \notin logged /\ logged' = logged \cup {e}
      /\ batch' = batch /\ rows' = rows /\ inserted' = inserted
      /\ \/ Len(buffer[l]) < SinkRoom[l] /\ lost' = lost
            /\ buffer' = [buffer EXCEPT ![l] = Append(@, e)]
         \/ buffer' = buffer /\ lost' = [lost EXCEPT ![l] = @ + 1]
    BY DEF LogRecord, HasRoom, Level, Levels
<1>2. IsFiniteSet(logged') /\ Cardinality(logged') = Cardinality(logged) + 1
    BY <1>0, <1>1, FS_AddElement DEF SinkData
<1>3. e \notin InHand /\ e \notin rows
    BY <1>0, <1>1 DEF SinkData
<1>4. "priority" \in Levels /\ "info" \in Levels /\ "priority" # "info" /\ Levels = {"priority", "info"}
    BY DEF Levels
<1>7. /\ Len(buffer["priority"]) \in Nat /\ Len(buffer["info"]) \in Nat /\ Len(batch) \in Nat
      /\ Cardinality(logged) \in Nat
      /\ lost["priority"] \in Nat /\ lost["info"] \in Nat /\ inserted \in Nat
      /\ IsFiniteSet(InHand) /\ Cardinality(InHand) \in Nat
      /\ \A m \in Levels : IsFiniteSet(Missing(m)) /\ Cardinality(Missing(m)) \in Nat
    BY <1>0, SinkNumbers
<1>5. CASE Len(buffer[l]) < SinkRoom[l] /\ lost' = lost /\ buffer' = [buffer EXCEPT ![l] = Append(@, e)]
    <2>1. /\ Append(buffer[l], e) \in Seq(Entries)
          /\ Len(Append(buffer[l], e)) = Len(buffer[l]) + 1
          /\ ToSet(Append(buffer[l], e)) = ToSet(buffer[l]) \cup {e}
        BY <1>0, <1>1, Joined DEF SinkData
    <2>2. /\ buffer' \in [Levels -> Seq(Entries)]
          /\ buffer'[l] = Append(buffer[l], e) /\ \A m \in Levels \ {l} : buffer'[m] = buffer[m]
        BY <1>0, <1>1, <1>5, <2>1 DEF SinkData
    <2> HIDE DEF l
    <2>3. InHand' = InHand \cup {e}
        <3>1. CASE l = "priority"
            BY <3>1, <1>1, <1>4, <2>1, <2>2, Zenon DEF InHand
        <3>2. CASE l = "info"
            BY <3>2, <1>1, <1>4, <2>1, <2>2, Zenon DEF InHand
        <3> QED
            BY <1>1, <1>4, <3>1, <3>2
    <2>4. Cardinality(InHand') = Cardinality(InHand) + 1
        BY <1>3, <1>7, <2>3, FS_AddElement
    <2>5. Len(buffer'["priority"]) + Len(buffer'["info"]) = Len(buffer["priority"]) + Len(buffer["info"]) + 1
        <3> DEFINE p == Len(buffer["priority"])  p2 == Len(buffer'["priority"])
                   q == Len(buffer["info"])  q2 == Len(buffer'["info"])
        <3>1. (p2 = p + 1 /\ q2 = q) \/ (p2 = p /\ q2 = q + 1)
            <4>1. CASE l = "priority"
                BY <4>1, <1>4, <2>1, <2>2
            <4>2. CASE l = "info"
                BY <4>2, <1>4, <2>1, <2>2
            <4> QED
                BY <4>1, <4>2, <1>1, <1>4
        <3>2. p \in Nat /\ q \in Nat
            BY <1>7
        <3> HIDE DEF p, p2, q, q2
        <3>3. p2 + q2 = p + q + 1
            BY <3>1, <3>2
        <3> QED
            BY <3>3 DEF p, p2, q, q2
    <2>6. CountersAddUp'
        <3>1. /\ Len(batch') = Len(batch) + 0 /\ inserted' = inserted + 0
              /\ lost' = lost /\ lost \in [Levels -> Nat]
            BY <1>0, <1>1, <1>5, <1>7 DEF SinkData
        <3>2. lost'["priority"] + lost'["info"] = lost["priority"] + lost["info"] + 0
            BY <1>4, <3>1
        <3>3. 0 \in Int /\ 1 \in Int /\ 1 = 0 + 0 + 1 /\ 1 = 1 + 0
            OBVIOUS
        <3> QED
            BY <1>0, <1>2, <2>2, <2>4, <2>5, <3>1, <3>2, <3>3, BooksMove, Zenon
    <2>7. \A m \in Levels : Missing(m)' = Missing(m)
        BY <1>1, <1>3, <2>3 DEF Missing
    <2>8. EveryLossIsCounted'
        BY <1>0, <1>5, <2>7, Zenon DEF EveryLossIsCounted, Missing
    <2>9. \A m \in Levels : (Len(buffer[m]) <= SinkRoom[m] /\ \A x \in ToSet(buffer[m]) : Level(x) = m)'
        <3> SUFFICES ASSUME NEW m \in Levels
                     PROVE  Len(buffer'[m]) <= SinkRoom[m] /\ \A x \in ToSet(buffer'[m]) : Level(x) = m
            OBVIOUS
        <3>1. CASE m = l
            <4>1. Len(buffer[l]) \in Nat /\ SinkRoom[l] \in Nat
                BY <1>0, <1>1, LenProperties, SinkAssumption DEF SinkData
            <4>2. Len(buffer'[m]) <= SinkRoom[m]
                BY <3>1, <4>1, <1>5, <2>1, <2>2
            <4>3. \A x \in ToSet(buffer'[m]) : Level(x) = m
                BY <3>1, <1>0, <1>1, <2>1, <2>2 DEF SinkData, l
            <4> QED
                BY <4>2, <4>3
        <3>2. CASE m # l
            BY <3>2, <1>0, <2>2 DEF SinkData
        <3> QED
            BY <3>1, <3>2
    <2>10. SinkData'
        <3>1. logged' \subseteq Entries /\ rows' \subseteq logged' /\ InHand' \subseteq logged'
            BY <1>0, <1>1, <2>3 DEF SinkData
        <3>2. batch' \in Seq(Entries) /\ inserted' \in Nat /\ lost' \in [Levels -> Nat]
            BY <1>0, <1>1, <1>5 DEF SinkData
        <3> QED
            BY <1>2, <2>2, <2>9, <3>1, <3>2 DEF SinkData
    <2> QED
        BY <2>6, <2>8, <2>10 DEF SinkBooks
<1>6. CASE buffer' = buffer /\ lost' = [lost EXCEPT ![l] = @ + 1]
    <2>1. InHand' = InHand
        BY <1>1, <1>6 DEF InHand
    <2>2. /\ lost' \in [Levels -> Nat] /\ lost'[l] = lost[l] + 1
          /\ \A m \in Levels \ {l} : lost'[m] = lost[m]
        BY <1>0, <1>1, <1>6 DEF SinkData
    <2> HIDE DEF l
    <2>3. CountersAddUp'
        <3>1. lost'["priority"] + lost'["info"] = lost["priority"] + lost["info"] + 1
            <4> DEFINE p == lost["priority"]  p2 == lost'["priority"]
                       q == lost["info"]  q2 == lost'["info"]
            <4>1. (p2 = p + 1 /\ q2 = q) \/ (p2 = p /\ q2 = q + 1)
                <5>1. CASE l = "priority"
                    BY <5>1, <1>4, <2>2
                <5>2. CASE l = "info"
                    BY <5>2, <1>4, <2>2
                <5> QED
                    BY <5>1, <5>2, <1>1, <1>4
            <4>2. p \in Nat /\ q \in Nat
                BY <1>7
            <4> HIDE DEF p, p2, q, q2
            <4>3. p2 + q2 = p + q + 1
                BY <4>1, <4>2
            <4> QED
                BY <4>3 DEF p, p2, q, q2
        <3>2. /\ Len(batch') = Len(batch) + 0 /\ inserted' = inserted + 0
              /\ Cardinality(InHand') = Cardinality(InHand) + 0
              /\ buffer' \in [Levels -> Seq(Entries)]
            BY <1>0, <1>1, <1>6, <1>7, <2>1 DEF SinkData
        <3>3. Len(buffer'["priority"]) + Len(buffer'["info"])
                  = Len(buffer["priority"]) + Len(buffer["info"]) + 0
            BY <1>6, <1>7
        <3>4. 0 \in Int /\ 1 \in Int /\ 1 = 0 + 1 + 0 /\ 0 = 0 + 0
            OBVIOUS
        <3> QED
            BY <1>0, <1>2, <2>2, <3>1, <3>2, <3>3, <3>4, BooksMove, Zenon
    <2>4. ASSUME NEW m \in Levels PROVE Cardinality(Missing(m)') <= lost'[m]
        <3>1. CASE m = l
            <4>1. Missing(m)' \subseteq Missing(m) \cup {e}
                BY <1>1, <2>1 DEF Missing
            <4>2. /\ IsFiniteSet(Missing(m) \cup {e})
                  /\ Cardinality(Missing(m) \cup {e}) \in {Cardinality(Missing(m)), Cardinality(Missing(m)) + 1}
                BY <1>7, FS_AddElement
            <4>3. Cardinality(Missing(m)') <= Cardinality(Missing(m) \cup {e})
                BY <4>1, <4>2, FS_Subset
            <4>4. Cardinality(Missing(m)') \in Nat
                BY <4>1, <4>2, FS_Subset, FS_CardinalityType
            <4>5. Cardinality(Missing(m)) <= lost[m] /\ lost[m] \in Nat /\ Cardinality(Missing(m)) \in Nat
                BY <1>0, <1>7 DEF EveryLossIsCounted, Missing, SinkData
            <4> QED
                BY <3>1, <2>2, <4>2, <4>3, <4>4, <4>5
        <3>2. CASE m # l
            <4>1. Missing(m)' = Missing(m)
                BY <3>2, <1>1, <2>1 DEF Missing, l
            <4> QED
                BY <3>2, <4>1, <1>0, <2>2 DEF EveryLossIsCounted, Missing
        <3> QED
            BY <3>1, <3>2
    <2>5. SinkData'
        <3>1. logged' \subseteq Entries /\ rows' \subseteq logged' /\ InHand' \subseteq logged'
            BY <1>0, <1>1, <2>1 DEF SinkData
        <3> QED
            BY <1>0, <1>1, <1>2, <1>6, <2>2, <3>1 DEF SinkData
    <2> QED
        BY <2>3, <2>4, <2>5 DEF SinkBooks, EveryLossIsCounted, Missing
<1> QED
    BY <1>1, <1>5, <1>6

(* A record the worker takes moves from its queue to the batch (Receive).   *)
LEMMA RecordReceived ==
    ASSUME SinkBooks, NEW l \in Levels, NEW next, Receive(l, next)
    PROVE  SinkBooks'
<1>0. SinkData /\ CountersAddUp /\ EveryLossIsCounted
    BY DEF SinkBooks
<1>1. /\ buffer[l] # <<>> /\ buffer[l] \in Seq(Entries) /\ batch \in Seq(Entries)
      /\ batch' = Append(batch, Head(buffer[l])) /\ buffer' = [buffer EXCEPT ![l] = Tail(@)]
      /\ UNCHANGED <<logged, rows, inserted, lost>>
    BY <1>0 DEF SinkData, Receive
<1>2. /\ Head(buffer[l]) \in Entries /\ Tail(buffer[l]) \in Seq(Entries)
      /\ Len(Tail(buffer[l])) = Len(buffer[l]) - 1
      /\ ToSet(buffer[l]) = {Head(buffer[l])} \cup ToSet(Tail(buffer[l]))
    BY <1>1, Taken
<1>3. /\ batch' \in Seq(Entries) /\ Len(batch') = Len(batch) + 1
      /\ ToSet(batch') = ToSet(batch) \cup {Head(buffer[l])}
    BY <1>1, <1>2, Joined
<1>4. /\ buffer' \in [Levels -> Seq(Entries)] /\ buffer'[l] = Tail(buffer[l])
      /\ \A m \in Levels \ {l} : buffer'[m] = buffer[m]
    BY <1>0, <1>1, <1>2 DEF SinkData
<1>5. "priority" \in Levels /\ "info" \in Levels /\ "priority" # "info" /\ Levels = {"priority", "info"}
    BY DEF Levels
<1>6. InHand' = InHand
    <2>1. CASE l = "priority"
        <3>1. buffer'["priority"] = Tail(buffer["priority"]) /\ buffer'["info"] = buffer["info"]
            BY <2>1, <1>4, <1>5
        <3> QED
            BY <2>1, <3>1, <1>2, <1>3 DEF InHand
    <2>2. CASE l = "info"
        <3>1. buffer'["info"] = Tail(buffer["info"]) /\ buffer'["priority"] = buffer["priority"]
            BY <2>2, <1>4, <1>5
        <3> QED
            BY <2>2, <3>1, <1>2, <1>3 DEF InHand
    <2> QED
        BY <1>5, <2>1, <2>2
<1>7. Len(buffer'["priority"]) + Len(buffer'["info"]) = Len(buffer["priority"]) + Len(buffer["info"]) + (-1)
    <2> DEFINE p == Len(buffer["priority"])  p2 == Len(buffer'["priority"])
               q == Len(buffer["info"])  q2 == Len(buffer'["info"])
    <2>1. (p2 = p - 1 /\ q2 = q) \/ (p2 = p /\ q2 = q - 1)
        <3>1. CASE l = "priority"
            BY <3>1, <1>2, <1>4, <1>5
        <3>2. CASE l = "info"
            BY <3>2, <1>2, <1>4, <1>5
        <3> QED
            BY <3>1, <3>2, <1>5
    <2>2. p \in Nat /\ q \in Nat
        BY <1>0, SinkNumbers
    <2> HIDE DEF p, p2, q, q2
    <2>3. p2 + q2 = p + q + (-1)
        BY <2>1, <2>2
    <2> QED
        BY <2>3 DEF p, p2, q, q2
<1>8. CountersAddUp'
    <2>1. /\ Cardinality(logged') = Cardinality(logged) + 0 /\ inserted' = inserted + 0
          /\ Cardinality(InHand') = Cardinality(InHand) + 0
        BY <1>0, <1>1, <1>6, SinkNumbers
    <2>2. lost' \in [Levels -> Nat] /\ lost'["priority"] + lost'["info"] = lost["priority"] + lost["info"] + 0
        BY <1>0, <1>1, <1>5 DEF SinkData
    <2>3. 0 \in Int /\ 1 \in Int /\ -1 \in Int /\ 0 = 0 + 0 + 0 /\ 0 = (-1) + 1
        OBVIOUS
    <2> QED
        BY <1>0, <1>3, <1>4, <1>7, <2>1, <2>2, <2>3, BooksMove, Zenon
<1>9. EveryLossIsCounted'
    BY <1>0, <1>1, <1>6 DEF EveryLossIsCounted
<1>10. SinkData'
    <2>1. ASSUME NEW m \in Levels
          PROVE  Len(buffer'[m]) <= SinkRoom[m] /\ \A x \in ToSet(buffer'[m]) : Level(x) = m
        <3>1. CASE m = l
            <4>1. Len(buffer[l]) \in Nat /\ SinkRoom[l] \in Nat /\ Len(buffer[l]) <= SinkRoom[l]
                BY <1>0, <1>1, LenProperties, SinkAssumption DEF SinkData
            <4>2. Len(buffer'[m]) <= SinkRoom[m]
                BY <3>1, <4>1, <1>2, <1>4
            <4>3. \A x \in ToSet(buffer'[m]) : Level(x) = m
                BY <3>1, <1>0, <1>2, <1>4 DEF SinkData
            <4> QED
                BY <4>2, <4>3
        <3>2. CASE m # l
            BY <3>2, <1>0, <1>4 DEF SinkData
        <3> QED
            BY <3>1, <3>2
    <2> QED
        BY <1>0, <1>1, <1>3, <1>4, <1>6, <2>1 DEF SinkData
<1> QED
    BY <1>8, <1>9, <1>10 DEF SinkBooks

(* No record is in two places, so what is left in the queues is as many     *)
(* records as the queues are long.                                          *)
LEMMA QueuesAreDistinct ==
    ASSUME SinkBooks
    PROVE  /\ IsFiniteSet(Buffered)
           /\ Cardinality(Buffered) = Len(buffer["priority"]) + Len(buffer["info"])
<1> DEFINE p == Len(buffer["priority"])  q == Len(buffer["info"])  b == Len(batch)
           P == ToSet(buffer["priority"])  Q == ToSet(buffer["info"])  B == ToSet(batch)
<1>0. SinkData /\ CountersAddUp
    BY DEF SinkBooks
<1>1. /\ buffer["priority"] \in Seq(Entries) /\ buffer["info"] \in Seq(Entries) /\ batch \in Seq(Entries)
      /\ p \in Nat /\ q \in Nat /\ b \in Nat
    BY <1>0, SinkNumbers DEF SinkData, Levels
<1>2. /\ IsFiniteSet(P) /\ Cardinality(P) \in Nat /\ Cardinality(P) <= p
      /\ IsFiniteSet(Q) /\ Cardinality(Q) \in Nat /\ Cardinality(Q) <= q
      /\ IsFiniteSet(B) /\ Cardinality(B) \in Nat /\ Cardinality(B) <= b
    BY <1>1, MembersAreFew
<1>3. Buffered = P \cup Q /\ InHand = Buffered \cup B
    BY DEF Buffered, InHand
<1>4. Cardinality(InHand) = p + q + b
    BY <1>0 DEF CountersAddUp
<1> HIDE DEF p, q, b, P, Q, B
<1>5. /\ IsFiniteSet(P \cup Q) /\ Cardinality(P \cup Q) \in Nat
      /\ Cardinality(P \cup Q) = Cardinality(P) + Cardinality(Q) - Cardinality(P \cap Q)
    BY <1>2, FS_Union, FS_CardinalityType
<1>6. Cardinality(P \cap Q) \in Nat
    BY <1>2, FS_Intersection, FS_CardinalityType
<1>7. /\ IsFiniteSet((P \cup Q) \cup B)
      /\ Cardinality((P \cup Q) \cup B) = Cardinality(P \cup Q) + Cardinality(B) - Cardinality((P \cup Q) \cap B)
    BY <1>2, <1>5, FS_Union
<1>8. Cardinality((P \cup Q) \cap B) \in Nat
    BY <1>2, <1>5, FS_Intersection, FS_CardinalityType
<1>9. Cardinality(P \cup Q) = p + q
    <2>1. Cardinality(P \cup Q) <= p + q
        BY <1>1, <1>2, <1>5, <1>6
    <2>2. p + q + b <= Cardinality(P \cup Q) + b
        <3>1. p + q + b = Cardinality(P \cup Q) + Cardinality(B) - Cardinality((P \cup Q) \cap B)
            BY <1>3, <1>4, <1>7
        <3> QED
            BY <1>1, <1>2, <1>5, <1>8, <3>1
    <2> QED
        BY <1>1, <1>5, <2>1, <2>2
<1> QED
    BY <1>3, <1>5, <1>9 DEF p, q

(* A batch flushed is acknowledged or counted by level, committed or not    *)
(* (flush, recordBatchDrop).                                                *)
LEMMA BatchFlushed ==
    ASSUME SinkBooks, FlushOk \/ FlushFails
    PROVE  SinkBooks'
<1>0. SinkData /\ CountersAddUp /\ EveryLossIsCounted
    BY DEF SinkBooks
<1>1. /\ batch' = <<>> /\ UNCHANGED <<logged, buffer>> /\ batch \in Seq(Entries)
    BY <1>0 DEF FlushOk, FlushFails, Flushed, SinkData
<1>2. InHand' = Buffered /\ Len(batch') = 0 /\ InHand = Buffered \cup ToSet(batch)
    BY <1>1, NoMembers DEF InHand, Buffered
<1>3. /\ OfLevel("priority") \in Nat /\ OfLevel("info") \in Nat /\ Len(batch) \in Nat
      /\ OfLevel("priority") + OfLevel("info") = Len(batch)
    BY <1>1, BatchByLevel, LenProperties
<1>4. "priority" \in Levels /\ "info" \in Levels
    BY DEF Levels
<1>5. rows' \subseteq rows \cup ToSet(batch) /\ rows \subseteq rows'
    BY DEF FlushOk, FlushFails
<1>6. \/ /\ rows' = rows \cup ToSet(batch) /\ inserted' = inserted + Len(batch) /\ lost' = lost
      \/ /\ inserted' = inserted /\ lost' = [l \in Levels |-> lost[l] + OfLevel(l)]
    BY DEF FlushOk, FlushFails
<1>7. \A l \in Levels : OfLevel(l) \in Nat
    BY <1>3 DEF Levels
<1>8. lost' \in [Levels -> Nat] /\ inserted' \in Nat
    BY <1>0, <1>3, <1>6, <1>7 DEF SinkData
<1>9. ToSet(batch) \subseteq logged /\ Buffered \subseteq logged
    BY <1>0, <1>2 DEF SinkData
<1>10. SinkData'
    BY <1>0, <1>1, <1>2, <1>5, <1>8, <1>9, EmptySeq DEF SinkData
<1>11. CountersAddUp'
    <2> DEFINE b == Len(batch)
    <2>1. /\ Cardinality(InHand') = Len(buffer'["priority"]) + Len(buffer'["info"]) + Len(batch')
          /\ Len(batch') = b + (-b)
        <3> DEFINE p == Len(buffer["priority"])  q == Len(buffer["info"])
        <3>1. p \in Nat /\ q \in Nat /\ b \in Nat /\ Cardinality(Buffered) = p + q
            BY <1>0, QueuesAreDistinct, SinkNumbers
        <3>2. Len(buffer'["priority"]) = p /\ Len(buffer'["info"]) = q
            BY <1>1
        <3> HIDE DEF p, q, b
        <3> QED
            BY <1>2, <3>1, <3>2
    <2>2. Cardinality(InHand') = Cardinality(InHand) + (-b)
        <3> DEFINE p == Len(buffer["priority"])  q == Len(buffer["info"])
        <3>1. p \in Nat /\ q \in Nat /\ b \in Nat
            BY <1>0, SinkNumbers
        <3>2. Cardinality(Buffered) = p + q
            BY QueuesAreDistinct
        <3>3. Cardinality(InHand) = p + q + b
            BY <1>0 DEF CountersAddUp
        <3> HIDE DEF p, q, b
        <3>4. p + q = (p + q + b) + (-b)
            BY <3>1
        <3> QED
            BY <1>2, <3>2, <3>3, <3>4, Zenon
    <2>3. /\ Cardinality(logged') = Cardinality(logged) + 0
          /\ Len(buffer'["priority"]) + Len(buffer'["info"])
                 = Len(buffer["priority"]) + Len(buffer["info"]) + 0
          /\ buffer' \in [Levels -> Seq(Entries)]
        BY <1>0, <1>1, SinkNumbers DEF SinkData
    <2>4. b \in Int /\ -b \in Int /\ 0 \in Int /\ 0 = b + 0 + (-b) /\ 0 = 0 + b + (-b) /\ -b = 0 + (-b)
        BY <1>3
    <2>5. CASE rows' = rows \cup ToSet(batch) /\ inserted' = inserted + Len(batch) /\ lost' = lost
        <3>1. lost'["priority"] + lost'["info"] = lost["priority"] + lost["info"] + 0
            BY <2>5, <1>0, <1>4 DEF SinkData
        <3>2. Len(batch') = Len(batch) + (-b) /\ inserted' = inserted + b
            BY <2>1, <2>5
        <3> HIDE DEF b
        <3> QED
            BY <1>0, <1>8, <2>2, <2>3, <2>4, <3>1, <3>2, BooksMove, Zenon
    <2>6. CASE inserted' = inserted /\ lost' = [l \in Levels |-> lost[l] + OfLevel(l)]
        <3>1. lost'["priority"] + lost'["info"] = lost["priority"] + lost["info"] + b
            <4> DEFINE lp == lost["priority"]  li == lost["info"]
                       op == OfLevel("priority")  oi == OfLevel("info")
            <4>1. lost'["priority"] = lp + op /\ lost'["info"] = li + oi
                BY <2>6, <1>4
            <4>2. lp \in Nat /\ li \in Nat /\ op \in Nat /\ oi \in Nat /\ op + oi = b
                BY <1>0, <1>3, SinkNumbers
            <4> HIDE DEF lp, li, op, oi, b
            <4>3. (lp + op) + (li + oi) = lp + li + b
                BY <4>2
            <4> QED
                BY <4>1, <4>3 DEF lp, li
        <3>2. Len(batch') = Len(batch) + (-b) /\ inserted' = inserted + 0
            BY <1>0, <2>1, <2>6, SinkNumbers
        <3> HIDE DEF b
        <3> QED
            BY <1>0, <1>8, <2>2, <2>3, <2>4, <3>1, <3>2, BooksMove, Zenon
    <2> QED
        BY <1>6, <2>5, <2>6
<1>12. EveryLossIsCounted'
    <2> SUFFICES ASSUME NEW l \in Levels PROVE Cardinality(Missing(l)') <= lost'[l]
        BY DEF EveryLossIsCounted, Missing
    <2>1. /\ IsFiniteSet(Missing(l)) /\ Cardinality(Missing(l)) \in Nat /\ lost[l] \in Nat
          /\ Cardinality(Missing(l)) <= lost[l]
        BY <1>0, SinkNumbers DEF EveryLossIsCounted, Missing, SinkData
    <2>2. CASE rows' = rows \cup ToSet(batch) /\ lost' = lost
        <3>1. Missing(l)' \subseteq Missing(l)
            BY <1>1, <1>2, <2>2 DEF Missing
        <3>2. Cardinality(Missing(l)') <= Cardinality(Missing(l)) /\ Cardinality(Missing(l)') \in Nat
            BY <3>1, <2>1, FS_Subset, FS_CardinalityType
        <3> QED
            BY <2>1, <2>2, <3>2
    <2>3. CASE lost' = [m \in Levels |-> lost[m] + OfLevel(m)]
        <3> DEFINE New == {e \in ToSet(batch) : Level(e) = l}
        <3>1. IsFiniteSet(New) /\ Cardinality(New) \in Nat /\ Cardinality(New) <= OfLevel(l)
            BY <1>1, BatchByLevel, FS_CardinalityType
        <3>2. Missing(l)' \subseteq Missing(l) \cup New
            BY <1>1, <1>2, <1>5 DEF Missing
        <3> HIDE DEF New
        <3>3. /\ IsFiniteSet(Missing(l) \cup New)
              /\ Cardinality(Missing(l) \cup New)
                     = Cardinality(Missing(l)) + Cardinality(New) - Cardinality(Missing(l) \cap New)
              /\ Cardinality(Missing(l) \cap New) \in Nat
            BY <2>1, <3>1, FS_Union, FS_Intersection, FS_CardinalityType
        <3>4. /\ Cardinality(Missing(l)') <= Cardinality(Missing(l) \cup New)
              /\ Cardinality(Missing(l)') \in Nat
            BY <3>2, <3>3, FS_Subset, FS_CardinalityType
        <3>5. lost'[l] = lost[l] + OfLevel(l) /\ OfLevel(l) \in Nat
            BY <1>7, <2>3
        <3> QED
            BY <2>1, <3>1, <3>3, <3>4, <3>5
    <2> QED
        BY <1>6, <2>2, <2>3
<1> QED
    BY <1>10, <1>11, <1>12 DEF SinkBooks

(* A step of the worker alone leaves the books as they are.                 *)
LEMMA BooksStay ==
    ASSUME SinkBooks, UNCHANGED <<logged, buffer, batch, rows, inserted, lost>>
    PROVE  SinkBooks'
BY DEF SinkBooks, SinkData, CountersAddUp, EveryLossIsCounted, InHand

(* Where the worker is and what follows from it.                            *)
SinkEnding ==
    /\ writer \in {"off", "first", "second", "flush", "drain", "gone"}
    /\ back \in {"off", "first", "drain", "gone"}
    /\ Len(batch) <= BatchSize /\ (writer # "flush" => Len(batch) < BatchSize)
    /\ writer = "flush" => batch # <<>> /\ back # "off"
    /\ writer = "drain" \/ (writer = "flush" /\ back = "drain") => stopped
    /\ writer = "gone" \/ (writer = "flush" /\ back = "gone") => stopped /\ Buffered \subseteq tardy
    /\ writer = "gone" => batch = <<>>

(* Before the worker starts every priority record is in its queue or counted, *)
(* and none is counted while the queue has room.                            *)
Early ==
    writer = "off" =>
        /\ batch = <<>>
        /\ Len(buffer["priority"]) + lost["priority"] = Cardinality(logged \cap Priority)
        /\ lost["priority"] > 0 => Len(buffer["priority"]) = SinkRoom["priority"]

(* What is inductive: the balance of the books needs that each record is in *)
(* hand at one place, the end that the worker drains only once stopped.     *)
SinkInv == SinkBooks /\ SinkEnding /\ Early

(* A sink that was just built owes nothing.                                 *)
LEMMA SinkStarts ==
    ASSUME SinkInit
    PROVE  SinkInv
<1>1. /\ Levels = {"priority", "info"} /\ BatchSize \in Nat \ {0}
      /\ \A l \in Levels : SinkRoom[l] \in Nat \ {0}
    BY SinkAssumption DEF Levels
<1>2. /\ logged = {} /\ buffer["priority"] = <<>> /\ buffer["info"] = <<>> /\ batch = <<>>
      /\ writer = "off" /\ back = "off" /\ rows = {} /\ inserted = 0
      /\ lost["priority"] = 0 /\ lost["info"] = 0 /\ lost \in [Levels -> Nat]
    BY <1>1 DEF SinkInit
<1>3. InHand = {} /\ Buffered = {} /\ IsFiniteSet({}) /\ Cardinality({}) = 0
    BY <1>2, NoMembers, FS_EmptySet DEF InHand, Buffered
<1>4. <<>> \in Seq(Entries) /\ Len(<<>>) = 0 /\ ToSet(<<>>) = {}
    BY EmptySeq, NoMembers
<1>5. buffer \in [Levels -> Seq(Entries)] /\ \A l \in Levels : buffer[l] = <<>>
    BY <1>4 DEF SinkInit
<1>6. \A l \in Levels : Len(buffer[l]) <= SinkRoom[l] /\ \A e \in ToSet(buffer[l]) : Level(e) = l
    <2>1. \A l \in Levels : Len(buffer[l]) = 0 /\ ToSet(buffer[l]) = {} /\ 0 <= SinkRoom[l]
        BY <1>1, <1>4, <1>5
    <2> QED
        BY <2>1
<1>7. SinkData
    BY <1>2, <1>3, <1>4, <1>5, <1>6 DEF SinkData
<1>8. CountersAddUp
    BY <1>2, <1>3, <1>4 DEF CountersAddUp
<1>9. EveryLossIsCounted
    <2>1. \A l \in Levels : {e \in logged \ (rows \cup InHand) : Level(e) = l} = {}
        BY <1>2
    <2>2. \A l \in Levels : lost[l] \in Nat
        BY <1>2
    <2> QED
        BY <1>3, <2>1, <2>2 DEF EveryLossIsCounted
<1>10. SinkEnding
    BY <1>1, <1>2, <1>4 DEF SinkEnding
<1>11. Early
    <2>1. logged \cap Priority = {}
        BY <1>2
    <2> QED
        BY <1>2, <1>3, <1>4, <2>1 DEF Early
<1> QED
    BY <1>7, <1>8, <1>9, <1>10, <1>11 DEF SinkInv, SinkBooks

(* A record logged disturbs nothing the worker relies on: what comes after  *)
(* the stop is tardy, and a priority record takes room or is counted.       *)
LEMMA LoggingKeepsEnding ==
    ASSUME SinkInv, NEW e \in Entries, LogRecord(e)
    PROVE  SinkEnding' /\ Early'
<1> DEFINE l == Level(e)
<1>0. SinkData /\ SinkData' /\ SinkEnding /\ Early
    BY RecordLogged DEF SinkInv, SinkBooks
<1>1. /\ l \in Levels /\ e \notin logged /\ logged' = logged \cup {e}
      /\ tardy' = (IF stopped THEN tardy \cup {e} ELSE tardy)
      /\ UNCHANGED <<batch, writer, back, stopped>>
      /\ \/ Len(buffer[l]) < SinkRoom[l] /\ lost' = lost
            /\ buffer' = [buffer EXCEPT ![l] = Append(@, e)]
         \/ Len(buffer[l]) = SinkRoom[l] /\ buffer' = buffer /\ lost' = [lost EXCEPT ![l] = @ + 1]
    <2>1. l \in Levels
        BY DEF Level, Levels
    <2>2. Len(buffer[l]) \in Nat /\ SinkRoom[l] \in Nat /\ Len(buffer[l]) <= SinkRoom[l]
        BY <1>0, <2>1, SinkAssumption, LenProperties DEF SinkData
    <2>3. Len(buffer[l]) < SinkRoom[l] \/ Len(buffer[l]) = SinkRoom[l]
        BY <2>2
    <2> QED
        BY <2>1, <2>3 DEF LogRecord, HasRoom
<1>2. /\ "priority" \in Levels /\ "info" \in Levels /\ "priority" # "info"
      /\ Levels = {"priority", "info"} /\ buffer \in [Levels -> Seq(Entries)]
      /\ lost \in [Levels -> Nat]
    BY <1>0 DEF Levels, SinkData
<1>3. /\ Append(buffer[l], e) \in Seq(Entries)
      /\ Len(Append(buffer[l], e)) = Len(buffer[l]) + 1
      /\ ToSet(Append(buffer[l], e)) = ToSet(buffer[l]) \cup {e}
    BY <1>1, <1>2, Joined
<1>4. \A m \in Levels : buffer'[m] = buffer[m] \/ (m = l /\ buffer'[m] = Append(buffer[l], e))
    BY <1>1, <1>2
<1>5. Buffered' \subseteq Buffered \cup {e}
    <2> HIDE DEF l
    <2>1. \A m \in Levels : ToSet(buffer'[m]) \subseteq ToSet(buffer[m]) \cup {e}
        BY <1>3, <1>4
    <2> QED
        BY <1>2, <2>1, Zenon DEF Buffered
<1>6. SinkEnding'
    <2>1. stopped => Buffered' \subseteq Buffered \cup {e} /\ tardy' = tardy \cup {e}
        BY <1>1, <1>5
    <2> HIDE DEF l
    <2>2. stopped /\ Buffered \subseteq tardy => Buffered' \subseteq tardy'
        BY <2>1
    <2> QED
        BY <1>0, <1>1, <2>2 DEF SinkEnding
<1>7. Early'
    <2> SUFFICES ASSUME writer = "off"
                 PROVE  /\ batch' = <<>>
                        /\ Len(buffer'["priority"]) + lost'["priority"]
                               = Cardinality(logged' \cap Priority)
                        /\ lost'["priority"] > 0 =>
                               Len(buffer'["priority"]) = SinkRoom["priority"]
        BY <1>1 DEF Early
    <2>1. /\ batch = <<>>
          /\ Len(buffer["priority"]) + lost["priority"] = Cardinality(logged \cap Priority)
          /\ lost["priority"] > 0 => Len(buffer["priority"]) = SinkRoom["priority"]
        BY <1>0 DEF Early
    <2>2. CASE e \in Priority
        <3>1. l = "priority" /\ logged' \cap Priority = (logged \cap Priority) \cup {e}
            BY <2>2, <1>1 DEF Level
        <3>2. Cardinality(logged' \cap Priority) = Cardinality(logged \cap Priority) + 1
            <4>1. IsFiniteSet(logged \cap Priority)
                BY <1>0, FS_Subset DEF SinkData
            <4> QED
                BY <4>1, <3>1, <1>1, FS_AddElement
        <3> DEFINE n == Len(buffer["priority"])  k == lost["priority"]
                   r == SinkRoom["priority"]  c == Cardinality(logged \cap Priority)
        <3>3. n \in Nat /\ k \in Nat /\ r \in Nat
            BY <1>0, <1>2, SinkAssumption, LenProperties
        <3>4. \/ n < r /\ lost'["priority"] = k /\ Len(buffer'["priority"]) = n + 1
              \/ n = r /\ lost'["priority"] = k + 1 /\ Len(buffer'["priority"]) = n
            BY <1>1, <1>2, <1>3, <3>1
        <3>5. n + k = c /\ (k > 0 => n = r)
            BY <2>1
        <3> HIDE DEF n, k, r, c
        <3>6. \/ n < r /\ k = 0 /\ lost'["priority"] = 0 /\ Len(buffer'["priority"]) = n + 1 /\ c = n
              \/ n = r /\ lost'["priority"] = k + 1 /\ Len(buffer'["priority"]) = r /\ c = n + k
            BY <3>3, <3>4, <3>5
        <3>7. CASE n < r /\ k = 0 /\ lost'["priority"] = 0 /\ Len(buffer'["priority"]) = n + 1 /\ c = n
            <4>1. Len(buffer'["priority"]) + lost'["priority"] = c + 1 /\ ~(lost'["priority"] > 0)
                BY <3>3, <3>7
            <4> QED
                BY <4>1, <1>1, <2>1, <3>2 DEF c
        <3>8. CASE n = r /\ lost'["priority"] = k + 1 /\ Len(buffer'["priority"]) = r /\ c = n + k
            <4>1. Len(buffer'["priority"]) + lost'["priority"] = c + 1
                BY <3>3, <3>8
            <4> QED
                BY <4>1, <3>8, <1>1, <2>1, <3>2 DEF c, r
        <3> QED
            BY <3>6, <3>7, <3>8
    <2>3. CASE e \notin Priority
        <3>1. l = "info" /\ logged' \cap Priority = logged \cap Priority
            BY <2>3, <1>1 DEF Level
        <3>2. buffer'["priority"] = buffer["priority"] /\ lost'["priority"] = lost["priority"]
            BY <1>1, <1>2, <3>1
        <3> QED
            BY <1>1, <2>1, <3>1, <3>2
    <2> QED
        BY <2>2, <2>3
<1> QED
    BY <1>6, <1>7

(* A record the worker takes joins a batch that had room for it, and a full *)
(* batch is flushed next.                                                   *)
LEMMA ReceivingKeepsEnding ==
    ASSUME SinkInv, NEW l \in Levels, NEW next \in {"first", "drain"}, Receive(l, next),
           writer \in {"first", "second", "drain"}, next = "drain" => stopped
    PROVE  SinkEnding' /\ Early'
<1>0. SinkData /\ SinkEnding
    BY DEF SinkInv, SinkBooks
<1>1. /\ buffer[l] \in Seq(Entries) /\ buffer[l] # <<>> /\ batch \in Seq(Entries)
      /\ batch' = Append(batch, Head(buffer[l])) /\ back' = next
      /\ writer' = (IF Len(batch) + 1 >= BatchSize THEN "flush" ELSE next)
      /\ UNCHANGED <<stopped, tardy>>
    BY <1>0 DEF SinkData, Receive
<1>2. Head(buffer[l]) \in Entries
    BY <1>1, Taken
<1>3. batch' # <<>> /\ Len(batch') = Len(batch) + 1 /\ Len(batch) \in Nat
    BY <1>1, <1>2, Joined, LenProperties
<1>4. Len(batch) < BatchSize /\ BatchSize \in Nat
    BY <1>0, SinkAssumption DEF SinkEnding
<1>5. Len(batch') <= BatchSize /\ (Len(batch) + 1 < BatchSize => Len(batch') < BatchSize)
    BY <1>3, <1>4
<1>6. writer' = "flush" \/ (writer' = next /\ Len(batch) + 1 < BatchSize)
    BY <1>1, <1>3, <1>4
<1>7. SinkEnding'
    BY <1>1, <1>3, <1>5, <1>6 DEF SinkEnding
<1>8. Early'
    BY <1>6 DEF Early
<1> QED
    BY <1>7, <1>8

(* One step of whoever logs, of the shutdown or of the worker.              *)
LEMMA SinkMoves ==
    ASSUME SinkInv, [SinkNext]_sinkVars
    PROVE  SinkInv'
<1>0. SinkBooks /\ SinkData /\ SinkEnding /\ Early
    BY DEF SinkInv, SinkBooks
<1> DEFINE Still == UNCHANGED <<logged, buffer, batch, rows, inserted, lost>>
<1>1. ASSUME NEW e \in Entries, LogRecord(e) PROVE SinkInv'
    BY <1>0, <1>1, RecordLogged, LoggingKeepsEnding DEF SinkInv
<1>2. ASSUME NEW l \in Levels, NEW next \in {"first", "drain"}, Receive(l, next),
             writer \in {"first", "second", "drain"}, next = "drain" => stopped
      PROVE  SinkInv'
    BY <1>0, <1>2, RecordReceived, ReceivingKeepsEnding DEF SinkInv
<1>3. "priority" \in Levels /\ "info" \in Levels
    BY DEF Levels
<1>4. CASE StartSink
    <2>1. Still /\ UNCHANGED <<back, stopped, tardy>> /\ writer = "off" /\ writer' = "first"
        BY <1>4 DEF StartSink
    <2>2. Buffered' = Buffered
        BY <2>1 DEF Buffered
    <2>3. SinkEnding' /\ Early'
        BY <1>0, <2>1, <2>2 DEF SinkEnding, Early
    <2> QED
        BY <1>0, <2>1, <2>3, BooksStay DEF SinkInv
<1>5. CASE Cancel
    <2>1. Still /\ UNCHANGED <<writer, back, tardy>> /\ writer # "off" /\ stopped'
        BY <1>5 DEF Cancel
    <2>2. Buffered' = Buffered
        BY <2>1 DEF Buffered
    <2>3. SinkEnding' /\ Early'
        BY <1>0, <2>1, <2>2 DEF SinkEnding, Early
    <2> QED
        BY <1>0, <2>1, <2>3, BooksStay DEF SinkInv
<1>6. CASE PriorityFirst
    BY <1>2, <1>3, <1>6 DEF PriorityFirst
<1>7. CASE NoPriority
    <2>1. /\ Still /\ UNCHANGED <<back, stopped, tardy>>
          /\ writer = "first" /\ writer' = "second"
        BY <1>7 DEF NoPriority, Move
    <2>2. SinkEnding' /\ Early'
        BY <1>0, <2>1 DEF SinkEnding, Early
    <2> QED
        BY <1>0, <2>1, <2>2, BooksStay DEF SinkInv
<1>8. CASE AnyRecord
    BY <1>2, <1>8 DEF AnyRecord
<1>9. CASE Tick
    <2>1. /\ Still /\ UNCHANGED <<stopped, tardy>> /\ batch # <<>>
          /\ writer' = "flush" /\ back' = "first"
        BY <1>9 DEF Tick
    <2>2. SinkEnding' /\ Early'
        BY <1>0, <2>1 DEF SinkEnding, Early
    <2> QED
        BY <1>0, <2>1, <2>2, BooksStay DEF SinkInv
<1>10. CASE SeesStop
    <2>1. /\ Still /\ UNCHANGED <<back, stopped, tardy>> /\ stopped
          /\ writer = "second" /\ writer' = "drain"
        BY <1>10 DEF SeesStop, Move
    <2>2. SinkEnding' /\ Early'
        BY <1>0, <2>1 DEF SinkEnding, Early
    <2> QED
        BY <1>0, <2>1, <2>2, BooksStay DEF SinkInv
<1>11. ASSUME writer = "drain" PROVE stopped
    BY <1>0, <1>11 DEF SinkEnding
<1>12. CASE DrainPriority
    BY <1>2, <1>3, <1>11, <1>12 DEF DrainPriority
<1>13. CASE DrainInfo
    BY <1>2, <1>3, <1>11, <1>13 DEF DrainInfo
<1>14. CASE DrainEnd
    <2>1. /\ Still /\ UNCHANGED <<stopped, tardy>> /\ writer = "drain" /\ back' = "gone"
          /\ writer' = (IF batch = <<>> THEN "gone" ELSE "flush")
          /\ buffer["priority"] = <<>> /\ buffer["info"] = <<>>
        BY <1>3, <1>14 DEF DrainEnd
    <2>2. Buffered' = {} /\ stopped
        BY <1>11, <2>1, NoMembers DEF Buffered
    <2>3. SinkEnding' /\ Early'
        BY <1>0, <2>1, <2>2 DEF SinkEnding, Early
    <2> QED
        BY <1>0, <2>1, <2>3, BooksStay DEF SinkInv
<1>15. CASE FlushOk \/ FlushFails
    <2>1. /\ UNCHANGED <<buffer, back, stopped, tardy>> /\ writer = "flush"
          /\ writer' = back /\ batch' = <<>>
        BY <1>15 DEF FlushOk, FlushFails, Flushed
    <2>2. Buffered' = Buffered /\ Len(<<>>) = 0 /\ 0 < BatchSize /\ 0 <= BatchSize
        BY <2>1, NoMembers, SinkAssumption DEF Buffered
    <2>3. SinkEnding' /\ Early'
        BY <1>0, <2>1, <2>2 DEF SinkEnding, Early
    <2> QED
        BY <1>0, <1>15, <2>3, BatchFlushed DEF SinkInv
<1>16. CASE UNCHANGED sinkVars
    <2>1. Still /\ UNCHANGED <<writer, back, stopped, tardy>>
        BY <1>16 DEF sinkVars
    <2>2. Buffered' = Buffered
        BY <2>1 DEF Buffered
    <2>3. SinkEnding' /\ Early'
        BY <1>0, <2>1, <2>2 DEF SinkEnding, Early
    <2> QED
        BY <1>0, <2>1, <2>3, BooksStay DEF SinkInv
<1> QED
    BY <1>1, <1>4, <1>5, <1>6, <1>7, <1>8, <1>9, <1>10, <1>12, <1>13, <1>14, <1>15, <1>16
        DEF SinkNext, WriterStep

(* The books, the worker's place and the early queue together.              *)
LEMMA SinkInvariant == SinkSpec => []SinkInv
<1>1. SinkInit => SinkInv
    BY SinkStarts
<1>2. SinkInv /\ [SinkNext]_sinkVars => SinkInv'
    BY SinkMoves
<1> QED
    BY <1>1, <1>2, PTL DEF SinkSpec

(* For any records, rooms and batch size: the counters add up, no record    *)
(* disappears without one, a flood of info records costs no warning its     *)
(* place, and what the ended worker left behind was logged after the stop   *)
(* (Enqueue, run, drain and flush of logsink).                              *)
THEOREM LogsAreSafe == SinkSpec => []SinkSafety
<1>1. SinkInv => SinkSafety
    <2> SUFFICES ASSUME SinkInv PROVE SinkSafety
        OBVIOUS
    <2>1. SinkBooks /\ SinkData /\ SinkEnding /\ Early
        BY DEF SinkInv, SinkBooks
    <2>2. SinkTypeOK
        BY <2>1 DEF SinkData, SinkEnding, SinkTypeOK
    <2>3. FloodSparesPriority
        <3> SUFFICES ASSUME writer = "off", Cardinality(logged \cap Priority) <= SinkRoom["priority"]
                     PROVE  lost["priority"] = 0
            BY DEF FloodSparesPriority
        <3> DEFINE n == Len(buffer["priority"])  k == lost["priority"]
                   r == SinkRoom["priority"]  c == Cardinality(logged \cap Priority)
        <3>1. n + k = c /\ (k > 0 => n = r) /\ c <= r
            BY <2>1 DEF Early
        <3>2. n \in Nat /\ k \in Nat /\ r \in Nat
            BY <2>1, SinkNumbers, SinkAssumption DEF Levels
        <3> HIDE DEF n, k, r, c
        <3>3. k = 0
            BY <3>1, <3>2
        <3> QED
            BY <3>3 DEF k
    <2>4. NothingLeftBehind
        <3> SUFFICES ASSUME writer = "gone" PROVE InHand \subseteq tardy
            BY DEF NothingLeftBehind
        <3>1. batch = <<>> /\ Buffered \subseteq tardy
            BY <2>1 DEF SinkEnding
        <3> QED
            BY <3>1, NoMembers DEF InHand, Buffered
    <2> QED
        BY <2>1, <2>2, <2>3, <2>4 DEF SinkBooks, SinkSafety
<1> QED
    BY <1>1, SinkInvariant, PTL

-----------------------------------------------------------------------------
(* The event bus.                                                           *)

(* The copies, the stages of a call, and the type of the whole.             *)
BusPairs == Events \X Handlers
Stages == {"new", "submit", "send", "await", "direct", "drop", "again", "answered"}

BusTypes ==
    /\ wiring \in Wirings
    /\ closed \in BOOLEAN /\ outOfTime \in BOOLEAN
    /\ stopping \in {"up", "draining", "cancelling", "stopped"}
    /\ closed = (stopping # "up")
    /\ cancelled \subseteq Registered
    /\ exited \in [Handlers -> Nat]
    /\ queue \in [Handlers -> Seq(Events)]
    /\ copy \in [BusPairs -> {"none"} \cup Waiting \cup Fates]
    /\ work \in [BusPairs -> {"none", "running", "ok", "failed"}]
    /\ handled \subseteq BusPairs /\ notices \subseteq BusPairs
    /\ reply \in [Events -> {"none", "ok", "err"}]
    /\ stage \in [Events -> Stages]
    /\ at \in [Events -> DOMAIN Plan]
    /\ verdict \in [Events -> {"none", "ok", "error"}]

(* A copy is in its queue once, or not at all.                              *)
QueueBooks ==
    /\ \A h \in Handlers : Len(queue[h]) <= wiring.room[h] /\ IsInjective(queue[h])
    /\ \A e \in Events, h \in Handlers : copy[<<e, h>>] = "queued" <=> e \in ToSet(queue[h])

(* A worker is busy, gone or free.                                          *)
CrewBooks ==
    \A h \in Handlers : exited[h] + Cardinality(BusyWith(h)) <= wiring.workers[h]

(* The copy at which an event's Emit is.                                    *)
Here(e) == <<e, Plan[at[e]]>>

(* Where an event's Emit is and what it has behind it: the critical         *)
(* handlers done, a copy for each of the others, and nothing ahead.         *)
PlaceOf(e) ==
    /\ stage[e] = "await" => Plan[at[e]] \in Critical
    /\ stage[e] = "direct" => closed \/ Plan[at[e]] \in Critical
    /\ stage[e] \in {"drop", "again"} => Plan[at[e]] \notin Critical
    /\ stage[e] \in {"new", "submit", "send", "drop", "again"} => copy[Here(e)] = "none"
    /\ stage[e] \in {"new", "submit", "send", "drop"} => Here(e) \notin notices
    /\ \A h \in Handlers : copy[<<e, h>>] # "none" \/ <<e, h>> \in notices =>
          \E i \in DOMAIN Plan : i <= at[e] /\ h = Plan[i]
    /\ \A i \in DOMAIN Plan : i < at[e] /\ Plan[i] \in Critical => copy[<<e, Plan[i]>>] = "done"
    /\ ~closed => \A i \in DOMAIN Plan :
          i <= Passed(e) /\ Plan[i] \notin Critical => copy[<<e, Plan[i]>>] # "none"
Places == \A e \in Events : PlaceOf(e)

(* What a goroutine, a copy, a reply or a verdict says was done was done,   *)
(* and only a closed bus refuses.                                           *)
Truth ==
    /\ \A p \in BusPairs : work[p] = "ok" \/ copy[p] = "done" => p \in handled
    /\ \A e \in Events : stage[e] = "await" /\ reply[e] = "ok" => copy[Here(e)] = "done"
    /\ OkMeansSettled
    /\ ~closed => \A p \in BusPairs : copy[p] # "refused"

(* How far Stop is, and what it found.                                      *)
Stops ==
    /\ stopping = "stopped" => \A h \in Registered : exited[h] = wiring.workers[h]
    /\ wiring.callersFirst /\ closed => Ended
    /\ wiring.callersFirst /\ stopping \in {"cancelling", "stopped"} /\ ~outOfTime =>
          \A p \in Events \X Low : copy[p] # "queued"

BusInv == BusTypes /\ QueueBooks /\ CrewBooks /\ Places /\ Truth /\ DropsAreNoticed /\ Stops

CopyStates == {"none"} \cup Waiting \cup Fates

(* What a wiring is.                                                        *)
LEMMA WiringFacts ==
    ASSUME BusTypes
    PROVE  /\ Plan \in Seq(Handlers) /\ Len(Plan) \in Nat /\ DOMAIN Plan = 1..Len(Plan) /\ Len(Plan) > 0
           /\ \A i \in DOMAIN Plan : Plan[i] \in Handlers /\ Plan[i] \in Registered
           /\ \A i, j \in DOMAIN Plan : Plan[i] = Plan[j] => i = j
           /\ Registered \subseteq Handlers
           /\ Critical \subseteq Registered /\ Low \subseteq Registered /\ Low \cap Critical = {}
           /\ \A h \in Registered : \E i \in DOMAIN Plan : h = Plan[i]
           /\ \A i, j \in DOMAIN Plan : Plan[i] \notin Critical /\ i < j => Plan[j] \notin Critical
           /\ wiring.room \in [Handlers -> Nat \ {0}] /\ wiring.workers \in [Handlers -> Nat \ {0}]
<1>1. wiring \in Wirings
    BY DEF BusTypes
<1>2. /\ Plan \in Seq(Handlers) /\ Plan # <<>> /\ IsInjective(Plan)
      /\ Critical \subseteq ToSet(Plan) /\ Low \subseteq ToSet(Plan) \ Critical
      /\ \A i, j \in DOMAIN Plan : Plan[i] \notin Critical /\ i < j => Plan[j] \notin Critical
      /\ wiring.room \in [Handlers -> Nat \ {0}] /\ wiring.workers \in [Handlers -> Nat \ {0}]
    BY <1>1, WiringsAssumption DEF Plan, Critical, Low
<1>3. Len(Plan) \in Nat /\ DOMAIN Plan = 1..Len(Plan) /\ Len(Plan) > 0
    BY <1>2, LenProperties, EmptySeq
<1>4. \A i \in DOMAIN Plan : Plan[i] \in Handlers
    BY <1>2, <1>3, ElementOfSeq
<1>5. Registered = {Plan[i] : i \in DOMAIN Plan}
    BY DEF Registered, ToSet
<1> QED
    BY <1>2, <1>3, <1>4, <1>5 DEF Registered, IsInjective

(* Where an event's Emit is, a handler is.                                  *)
LEMMA AtHandler ==
    ASSUME BusTypes, NEW e \in Events
    PROVE  /\ at[e] \in DOMAIN Plan /\ at[e] \in Nat /\ at[e] >= 1 /\ at[e] <= Len(Plan)
           /\ Plan[at[e]] \in Handlers /\ Plan[at[e]] \in Registered
           /\ <<e, Plan[at[e]]>> \in BusPairs
           /\ at[e] # Len(Plan) => at[e] + 1 \in DOMAIN Plan
<1>1. at[e] \in DOMAIN Plan
    BY DEF BusTypes
<1>2. Plan[at[e]] \in Handlers /\ Plan[at[e]] \in Registered
    BY <1>1, WiringFacts
<1>3. DOMAIN Plan = 1..Len(Plan) /\ Len(Plan) \in Nat
    BY WiringFacts
<1> QED
    BY <1>1, <1>2, <1>3 DEF BusPairs

(* One copy moves, the others stay where they are.                          *)
LEMMA CopyMoves ==
    ASSUME BusTypes, NEW e \in Events, NEW h \in Handlers, NEW v \in CopyStates,
           copy' = [copy EXCEPT ![<<e, h>>] = v]
    PROVE  /\ copy' \in [BusPairs -> CopyStates]
           /\ copy'[<<e, h>>] = v
           /\ \A g \in Events, k \in Handlers :
                g # e \/ k # h => copy'[<<g, k>>] = copy[<<g, k>>]
           /\ \A p \in BusPairs : copy'[p] = IF p = <<e, h>> THEN v ELSE copy[p]
<1>1. copy \in [BusPairs -> CopyStates] /\ <<e, h>> \in BusPairs
    BY DEF BusTypes, CopyStates, BusPairs
<1>2. /\ copy' \in [BusPairs -> CopyStates]
      /\ \A p \in BusPairs : copy'[p] = IF p = <<e, h>> THEN v ELSE copy[p]
    BY <1>1
<1>3. \A g \in Events, k \in Handlers : <<g, k>> \in BusPairs /\ (<<g, k>> = <<e, h>> <=> g = e /\ k = h)
    BY DEF BusPairs
<1> QED
    BY <1>1, <1>2, <1>3

(* Emit goes on to the next handler, answers or moves on the spot.          *)
LEMMA CallerMoves ==
    ASSUME BusTypes, NEW e \in Events, wiring' = wiring
    PROVE  /\ NextHandler(e) =>
                /\ stage' \in [Events -> Stages] /\ at' \in [Events -> DOMAIN Plan]
                /\ verdict' \in [Events -> {"none", "ok", "error"}]
                /\ \A g \in Events : g # e =>
                    stage'[g] = stage[g] /\ at'[g] = at[g] /\ verdict'[g] = verdict[g]
                /\ \/ /\ at[e] = Len(Plan) /\ at'[e] = at[e]
                      /\ stage'[e] = "answered" /\ verdict'[e] = "ok"
                   \/ /\ at[e] # Len(Plan) /\ at'[e] = at[e] + 1
                      /\ stage'[e] = "submit" /\ verdict'[e] = verdict[e]
           /\ \A a \in {"ok", "error"} : Answer(e, a) =>
                /\ stage' \in [Events -> Stages] /\ at' = at
                /\ verdict' \in [Events -> {"none", "ok", "error"}]
                /\ \A g \in Events : g # e => stage'[g] = stage[g] /\ verdict'[g] = verdict[g]
                /\ stage'[e] = "answered" /\ verdict'[e] = a
           /\ \A s \in Stages : EmitAt(e, s) =>
                /\ stage' \in [Events -> Stages] /\ at' = at /\ verdict' = verdict
                /\ \A g \in Events : g # e => stage'[g] = stage[g]
                /\ stage'[e] = s
<1>1. /\ stage \in [Events -> Stages] /\ at \in [Events -> DOMAIN Plan]
      /\ verdict \in [Events -> {"none", "ok", "error"}]
    BY DEF BusTypes
<1>2. at[e] # Len(Plan) => at[e] + 1 \in DOMAIN Plan
    BY AtHandler
<1>3. "answered" \in Stages /\ "submit" \in Stages
    BY DEF Stages
<1>4. \A a \in {"ok", "error"} : Answer(e, a) =>
        /\ stage' \in [Events -> Stages] /\ at' = at
        /\ verdict' \in [Events -> {"none", "ok", "error"}]
        /\ \A g \in Events : g # e => stage'[g] = stage[g] /\ verdict'[g] = verdict[g]
        /\ stage'[e] = "answered" /\ verdict'[e] = a
    BY <1>1, <1>3 DEF Answer
<1>5. \A s \in Stages : EmitAt(e, s) =>
        /\ stage' \in [Events -> Stages] /\ at' = at /\ verdict' = verdict
        /\ \A g \in Events : g # e => stage'[g] = stage[g]
        /\ stage'[e] = s
    BY <1>1 DEF EmitAt
<1>6. ASSUME NextHandler(e)
      PROVE  /\ stage' \in [Events -> Stages] /\ at' \in [Events -> DOMAIN Plan]
             /\ verdict' \in [Events -> {"none", "ok", "error"}]
             /\ \A g \in Events : g # e =>
                  stage'[g] = stage[g] /\ at'[g] = at[g] /\ verdict'[g] = verdict[g]
             /\ \/ /\ at[e] = Len(Plan) /\ at'[e] = at[e]
                   /\ stage'[e] = "answered" /\ verdict'[e] = "ok"
                \/ /\ at[e] # Len(Plan) /\ at'[e] = at[e] + 1
                   /\ stage'[e] = "submit" /\ verdict'[e] = verdict[e]
    <2>1. CASE at[e] = Len(Plan)
        BY <1>1, <1>4, <1>6, <2>1 DEF NextHandler
    <2>2. CASE at[e] # Len(Plan)
        BY <1>1, <1>2, <1>3, <1>6, <2>2 DEF NextHandler
    <2> QED
        BY <2>1, <2>2
<1> QED
    BY <1>4, <1>5, <1>6

LEMMA CopyAt ==
    ASSUME BusTypes, NEW e \in Events, NEW h \in Handlers, NEW v \in CopyStates,
           copy' = [copy EXCEPT ![<<e, h>>] = v]
    PROVE  copy'[<<e, h>>] = v
<1>1. copy \in [BusPairs -> CopyStates] /\ <<e, h>> \in BusPairs
    BY DEF BusTypes, CopyStates, BusPairs
<1> QED
    BY <1>1

LEMMA CopyElsewhere ==
    ASSUME BusTypes, NEW e \in Events, NEW h \in Handlers, NEW v \in CopyStates,
           copy' = [copy EXCEPT ![<<e, h>>] = v]
    PROVE  \A g \in Events, k \in Handlers :
                g # e \/ k # h => copy'[<<g, k>>] = copy[<<g, k>>]
<1>1. copy \in [BusPairs -> CopyStates]
    BY DEF BusTypes, CopyStates, BusPairs
<1> SUFFICES ASSUME NEW g \in Events, NEW k \in Handlers, g # e \/ k # h
             PROVE  copy'[<<g, k>>] = copy[<<g, k>>]
    OBVIOUS
<1>2. <<g, k>> \in BusPairs /\ <<g, k>> # <<e, h>>
    BY DEF BusPairs
<1> QED
    BY <1>1, <1>2


(* What a step of the bus is.                                               *)
LEMMA BusSteps ==
    ASSUME BusNext
    PROVE  \/ \E e \in Events :
                \/ Emit(e) \/ GiveUp(e) \/ Check(e) \/ SendCritical(e) \/ Reply(e) \/ RunnerGone(e)
                \/ DirectSettle(e) \/ SendAsync(e) \/ Full(e) \/ DropOldest(e) \/ SecondRefusal(e)
           \/ \E e \in Events, h \in Handlers :
                Handle(e, h) \/ StartHandler(e, h) \/ Collect(e, h) \/ TimeOut(e, h)
           \/ \E h \in Handlers : Take(h) \/ Exit(h)
           \/ Stop \/ Drained \/ DrainTimesOut \/ Stopped \/ \E h \in Registered : CancelRunner(h)
    BY Zenon DEF BusNext, CallerStep, RunnerStep, StopStep

(* A copy joins its runner's queue, a copy leaves it at the head.           *)
LEMMA QueueGrows ==
    ASSUME BusTypes, NEW e \in Events, NEW h \in Handlers, Append1(e, h)
    PROVE  /\ queue' \in [Handlers -> Seq(Events)]
           /\ \A k \in Handlers : k # h => queue'[k] = queue[k]
           /\ queue'[h] = Append(queue[h], e) /\ Len(queue'[h]) = Len(queue[h]) + 1
           /\ ToSet(queue'[h]) = ToSet(queue[h]) \cup {e}
           /\ Len(queue[h]) \in Nat /\ Len(queue[h]) < wiring.room[h]
<1>1. queue \in [Handlers -> Seq(Events)]
    BY DEF BusTypes
<1>2. queue' = [queue EXCEPT ![h] = Append(queue[h], e)] /\ Len(queue[h]) < wiring.room[h]
    BY <1>1 DEF Append1
<1>3. /\ Append(queue[h], e) \in Seq(Events) /\ Len(Append(queue[h], e)) = Len(queue[h]) + 1
      /\ ToSet(Append(queue[h], e)) = ToSet(queue[h]) \cup {e} /\ Len(queue[h]) \in Nat
    BY <1>1, Joined, LenProperties
<1> QED
    BY <1>1, <1>2, <1>3

LEMMA QueueShrinks ==
    ASSUME BusTypes, NEW h \in Handlers, queue[h] # <<>>,
           queue' = [queue EXCEPT ![h] = Tail(@)]
    PROVE  /\ queue' \in [Handlers -> Seq(Events)] /\ Head(queue[h]) \in Events
           /\ \A k \in Handlers : k # h => queue'[k] = queue[k]
           /\ queue'[h] = Tail(queue[h]) /\ Len(queue'[h]) = Len(queue[h]) - 1
           /\ ToSet(queue[h]) = {Head(queue[h])} \cup ToSet(queue'[h])
           /\ Len(queue[h]) \in Nat
<1>1. queue \in [Handlers -> Seq(Events)]
    BY DEF BusTypes
<1>2. /\ Tail(queue[h]) \in Seq(Events) /\ Len(Tail(queue[h])) = Len(queue[h]) - 1
      /\ ToSet(queue[h]) = {Head(queue[h])} \cup ToSet(Tail(queue[h]))
      /\ Head(queue[h]) \in Events /\ Len(queue[h]) \in Nat
    BY <1>1, Taken, LenProperties
<1> QED
    BY <1>1, <1>2

(* No event is twice in a queue that it joins once.                         *)
LEMMA DistinctGrows ==
    ASSUME NEW S, NEW s \in Seq(S), NEW e \in S, IsInjective(s), e \notin ToSet(s)
    PROVE  IsInjective(Append(s, e))
<1> DEFINE t == Append(s, e)
<1>1. /\ Len(s) \in Nat /\ DOMAIN s = 1..Len(s) /\ DOMAIN t = 1..(Len(s) + 1) /\ t[Len(s) + 1] = e
      /\ \A i \in 1..Len(s) : t[i] = s[i]
    BY AppendProperties, LenProperties
<1>2. \A i \in 1..Len(s) : s[i] # e
    BY <1>1 DEF ToSet
<1>3. \A i, j \in 1..Len(s) : s[i] = s[j] => i = j
    BY <1>1 DEF IsInjective
<1> HIDE DEF t
<1>4. \A i, j \in 1..(Len(s) + 1) : t[i] = t[j] => i = j
    BY <1>1, <1>2, <1>3
<1>5. IsInjective(t)
    BY <1>1, <1>4 DEF IsInjective
<1> QED
    BY <1>5 DEF t

LEMMA DistinctShrinks ==
    ASSUME NEW S, NEW s \in Seq(S), IsInjective(s), s # <<>>
    PROVE  IsInjective(Tail(s)) /\ Head(s) \notin ToSet(Tail(s))
<1> DEFINE t == Tail(s)
<1>1. /\ Len(s) \in Nat \ {0} /\ DOMAIN s = 1..Len(s) /\ DOMAIN t = 1..(Len(s) - 1) /\ Head(s) = s[1]
      /\ \A i \in 1..(Len(s) - 1) : t[i] = s[i + 1]
    <2>1. t \in Seq(S) /\ Len(t) = Len(s) - 1 /\ \A i \in 1..Len(t) : t[i] = s[i + 1]
        BY HeadTailProperties
    <2> QED
        BY <2>1, LenProperties, EmptySeq
<1>2. \A i, j \in 1..Len(s) : s[i] = s[j] => i = j
    BY <1>1 DEF IsInjective
<1> HIDE DEF t
<1>3. \A i, j \in 1..(Len(s) - 1) : t[i] = t[j] => i = j
    BY <1>1, <1>2
<1>4. \A i \in 1..(Len(s) - 1) : t[i] # s[1]
    BY <1>1, <1>2
<1>5. IsInjective(t) /\ Head(s) \notin ToSet(t)
    BY <1>1, <1>3, <1>4 DEF IsInjective, ToSet
<1> QED
    BY <1>5 DEF t

(* The types, and what a process is wired by never changes.                 *)
LEMMA WiredOnce ==
    ASSUME [BusNext]_busVars
    PROVE  wiring' = wiring
<1>1. CASE UNCHANGED busVars
    BY <1>1 DEF busVars
<1>2. CASE \E e \in Events : Emit(e) \/ GiveUp(e) \/ Check(e) \/ SendCritical(e) \/ Reply(e)
    BY <1>2 DEF Emit, GiveUp, Check, SendCritical, Reply, runner
<1>3. CASE \E e \in Events : RunnerGone(e) \/ DirectSettle(e) \/ SendAsync(e) \/ Full(e)
                             \/ DropOldest(e) \/ SecondRefusal(e)
    BY <1>3 DEF RunnerGone, DirectSettle, SendAsync, Full, DropOldest, SecondRefusal, runner
<1>4. CASE \E e \in Events, h \in Handlers :
             Handle(e, h) \/ StartHandler(e, h) \/ Collect(e, h) \/ TimeOut(e, h)
    BY <1>4 DEF Handle, StartHandler, Collect, TimeOut, Conclude, runner
<1>5. CASE (\E h \in Handlers : Take(h) \/ Exit(h)) \/ \E h \in Registered : CancelRunner(h)
    BY <1>5 DEF Take, Exit, CancelRunner, runner
<1>6. CASE Stop \/ Drained \/ DrainTimesOut \/ Stopped
    BY <1>6 DEF Stop, Drained, DrainTimesOut, Stopped
<1> QED
    BY <1>1, <1>2, <1>3, <1>4, <1>5, <1>6, BusSteps

LEMMA BusTyped ==
    ASSUME BusTypes, [BusNext]_busVars
    PROVE  BusTypes'
<1> USE DEF CopyStates
<1>0. Plan' = Plan /\ Registered' = Registered /\ wiring' = wiring /\ Registered \subseteq Handlers
    BY WiredOnce, WiringFacts DEF Plan, Registered
<1>c. UNCHANGED runner => /\ closed' \in BOOLEAN /\ outOfTime' \in BOOLEAN
                          /\ stopping' \in {"up", "draining", "cancelling", "stopped"}
                          /\ closed' = (stopping' # "up") /\ cancelled' \subseteq Registered
                          /\ exited' \in [Handlers -> Nat]
    BY DEF runner, BusTypes
<1>t. /\ queue \in [Handlers -> Seq(Events)] /\ copy \in [BusPairs -> CopyStates]
      /\ work \in [BusPairs -> {"none", "running", "ok", "failed"}]
      /\ handled \subseteq BusPairs /\ notices \subseteq BusPairs
      /\ reply \in [Events -> {"none", "ok", "err"}] /\ stage \in [Events -> Stages]
      /\ at \in [Events -> DOMAIN Plan] /\ verdict \in [Events -> {"none", "ok", "error"}]
    BY DEF BusTypes
<1>s. {"submit", "send", "await", "direct", "drop", "again"} \subseteq Stages
    BY DEF Stages
<1>k. {"none", "queued", "taken", "running", "done", "parked", "unparked", "dropped", "refused"} = CopyStates
    BY DEF Waiting, Fates
<1>n. /\ (UNCHANGED runner \/ (/\ closed' \in BOOLEAN /\ outOfTime' \in BOOLEAN
                               /\ stopping' \in {"up", "draining", "cancelling", "stopped"}
                               /\ closed' = (stopping' # "up") /\ cancelled' \subseteq Registered
                               /\ exited' \in [Handlers -> Nat]))
      /\ queue' \in [Handlers -> Seq(Events)] /\ copy' \in [BusPairs -> CopyStates]
      /\ work' \in [BusPairs -> {"none", "running", "ok", "failed"}]
      /\ handled' \subseteq BusPairs /\ notices' \subseteq BusPairs
      /\ reply' \in [Events -> {"none", "ok", "err"}] /\ stage' \in [Events -> Stages]
      /\ at' \in [Events -> DOMAIN Plan] /\ verdict' \in [Events -> {"none", "ok", "error"}]
      => BusTypes'
    <2>1. wiring' \in Wirings
        BY <1>0 DEF BusTypes
    <2> QED
        BY <1>0, <1>c, <2>1 DEF BusTypes
<1> HIDE DEF CopyStates
<1>1. CASE UNCHANGED busVars
    BY <1>1, <1>t, <1>n DEF busVars, runner
<1>2. ASSUME NEW e \in Events,
             Emit(e) \/ GiveUp(e) \/ Reply(e) \/ RunnerGone(e) \/ Full(e)
      PROVE  BusTypes'
    <2>1. UNCHANGED <<runner, queue, copy, work, handled, reply, notices>>
        BY <1>2 DEF Emit, GiveUp, Reply, RunnerGone, Full
    <2>2. NextHandler(e) \/ (\E a \in {"ok", "error"} : Answer(e, a)) \/ (\E s \in Stages : EmitAt(e, s))
        BY <1>2, <1>s DEF Emit, GiveUp, Reply, RunnerGone, Full
    <2>3. /\ stage' \in [Events -> Stages] /\ at' \in [Events -> DOMAIN Plan]
          /\ verdict' \in [Events -> {"none", "ok", "error"}]
        BY <1>0, <1>t, <2>2, CallerMoves
    <2> QED
        BY <1>t, <1>n, <2>1, <2>3
<1>3. ASSUME NEW e \in Events, Check(e) PROVE BusTypes'
    <2>0. Plan[at[e]] \in Handlers
        BY AtHandler
    <2>1. UNCHANGED <<runner, queue, work, handled, reply, notices>>
        BY <1>3 DEF Check
    <2>2. NextHandler(e) \/ (\E s \in Stages : EmitAt(e, s))
        BY <1>3, <1>s DEF Check
    <2>3. /\ stage' \in [Events -> Stages] /\ at' \in [Events -> DOMAIN Plan]
          /\ verdict' \in [Events -> {"none", "ok", "error"}]
        BY <1>0, <1>t, <2>2, CallerMoves
    <2>4. copy' = copy \/ copy' = [copy EXCEPT ![<<e, Plan[at[e]]>>] = "refused"]
        BY <1>3 DEF Check
    <2>5. copy' \in [BusPairs -> CopyStates]
        BY <1>t, <1>k, <2>0, <2>4, CopyMoves
    <2> QED
        BY <1>t, <1>n, <2>1, <2>3, <2>5
<1>4. ASSUME NEW e \in Events, SendCritical(e) \/ SendAsync(e) PROVE BusTypes'
    <2> DEFINE h == Plan[at[e]]
    <2>0. h \in Handlers
        BY AtHandler
    <2>1. UNCHANGED <<runner, work, handled, notices>> /\ Append1(e, h)
        BY <1>4 DEF SendCritical, SendAsync
    <2>2. NextHandler(e) \/ (\E s \in Stages : EmitAt(e, s))
        BY <1>4, <1>s DEF SendCritical, SendAsync
    <2>3. /\ stage' \in [Events -> Stages] /\ at' \in [Events -> DOMAIN Plan]
          /\ verdict' \in [Events -> {"none", "ok", "error"}]
        BY <1>0, <1>t, <2>2, CallerMoves
    <2>4. copy' \in [BusPairs -> CopyStates]
        <3>1. copy' = [copy EXCEPT ![<<e, h>>] = "queued"]
            BY <2>1 DEF Append1
        <3> QED
            BY <1>k, <2>0, <3>1, CopyMoves
    <2>5. queue' \in [Handlers -> Seq(Events)]
        BY <2>0, <2>1, QueueGrows
    <2>6. reply' \in [Events -> {"none", "ok", "err"}]
        BY <1>4, <1>t DEF SendCritical, SendAsync
    <2> QED
        BY <1>t, <1>n, <2>1, <2>3, <2>4, <2>5, <2>6
<1>5. ASSUME NEW e \in Events, DirectSettle(e) PROVE BusTypes'
    <2>1. UNCHANGED <<runner, queue, copy, work, reply, notices>>
        BY <1>5 DEF DirectSettle
    <2>2. \E a \in {"ok", "error"} : Answer(e, a)
        BY <1>5 DEF DirectSettle
    <2>3. /\ stage' \in [Events -> Stages] /\ at' \in [Events -> DOMAIN Plan]
          /\ verdict' \in [Events -> {"none", "ok", "error"}]
        BY <1>0, <1>t, <2>2, CallerMoves
    <2>4. handled' \subseteq BusPairs
        <3>1. {e} \X Critical \subseteq BusPairs
            BY WiringFacts DEF BusPairs
        <3>2. handled' = handled \cup ({e} \X Critical) \/ handled' = handled \cup {}
            BY <1>5 DEF DirectSettle
        <3> QED
            BY <1>t, <3>1, <3>2
    <2> QED
        BY <1>t, <1>n, <2>1, <2>3, <2>4
<1>6. ASSUME NEW e \in Events, DropOldest(e) PROVE BusTypes'
    <2> DEFINE h == Plan[at[e]]
    <2>0. h \in Handlers /\ <<e, h>> \in BusPairs
        BY AtHandler
    <2>1. UNCHANGED <<runner, work, handled, reply>> /\ Oldest(h) /\ EmitAt(e, "again")
          /\ notices' = notices \cup {<<e, h>>}
        BY <1>6 DEF DropOldest
    <2>2. stage' \in [Events -> Stages] /\ at' = at /\ verdict' = verdict
        BY <1>0, <1>s, <2>1, CallerMoves
    <2>3. queue' \in [Handlers -> Seq(Events)] /\ copy' \in [BusPairs -> CopyStates]
        <3>1. CASE queue[h] = <<>>
            BY <1>t, <2>1, <3>1 DEF Oldest
        <3>2. CASE queue[h] # <<>>
            <4>1. queue' \in [Handlers -> Seq(Events)] /\ Head(queue[h]) \in Events
                BY <2>0, <2>1, <3>2, QueueShrinks DEF Oldest
            <4>2. copy' = [copy EXCEPT ![<<Head(queue[h]), h>>] = "dropped"]
                BY <2>1, <3>2 DEF Oldest
            <4> QED
                BY <1>k, <2>0, <4>1, <4>2, CopyMoves
        <3> QED
            BY <3>1, <3>2
    <2> QED
        BY <1>t, <1>n, <2>0, <2>1, <2>2, <2>3
<1>7. ASSUME NEW e \in Events, SecondRefusal(e) PROVE BusTypes'
    <2>0. Plan[at[e]] \in Handlers
        BY AtHandler
    <2>1. UNCHANGED <<runner, queue, work, handled, reply, notices>> /\ NextHandler(e)
        BY <1>7 DEF SecondRefusal
    <2>2. /\ stage' \in [Events -> Stages] /\ at' \in [Events -> DOMAIN Plan]
          /\ verdict' \in [Events -> {"none", "ok", "error"}]
        BY <1>0, <2>1, CallerMoves
    <2>3. \E v \in CopyStates : copy' = [copy EXCEPT ![<<e, Plan[at[e]]>>] = v]
        BY <1>7, <1>k DEF SecondRefusal
    <2>4. copy' \in [BusPairs -> CopyStates]
        BY <2>0, <2>3, CopyMoves
    <2> QED
        BY <1>t, <1>n, <2>1, <2>2, <2>4
<1>8. ASSUME NEW e \in Events, NEW h \in Handlers, Handle(e, h) PROVE BusTypes'
    <2>0. <<e, h>> \in BusPairs
        BY DEF BusPairs
    <2>1. UNCHANGED <<runner, queue, copy, reply, caller, notices>>
        BY <1>8 DEF Handle
    <2>2. work' \in [BusPairs -> {"none", "running", "ok", "failed"}]
        BY <1>8, <1>t DEF Handle
    <2>3. handled' \subseteq BusPairs
        BY <1>8, <1>t, <2>0 DEF Handle
    <2> QED
        BY <1>t, <1>n, <2>1, <2>2, <2>3 DEF caller
<1>9. ASSUME NEW e \in Events, NEW h \in Handlers, StartHandler(e, h) PROVE BusTypes'
    <2>1. UNCHANGED <<runner, queue, handled, reply, caller, notices>>
          /\ copy' = [copy EXCEPT ![<<e, h>>] = "running"]
        BY <1>9 DEF StartHandler
    <2>2. work' \in [BusPairs -> {"none", "running", "ok", "failed"}]
        BY <1>9, <1>t DEF StartHandler
    <2>3. copy' \in [BusPairs -> CopyStates]
        BY <1>k, <2>1, CopyMoves
    <2> QED
        BY <1>t, <1>n, <2>1, <2>2, <2>3 DEF caller
<1>10. ASSUME NEW e \in Events, NEW h \in Handlers, NEW ok \in BOOLEAN, Conclude(e, h, ok)
       PROVE BusTypes'
    <2>1. UNCHANGED <<runner, queue, work, handled, caller, notices>>
        BY <1>10 DEF Conclude
    <2>2. \E v \in CopyStates : copy' = [copy EXCEPT ![<<e, h>>] = v]
        BY <1>10, <1>k DEF Conclude
    <2>3. copy' \in [BusPairs -> CopyStates]
        BY <2>2, CopyMoves
    <2>4. reply' \in [Events -> {"none", "ok", "err"}]
        BY <1>10, <1>t DEF Conclude
    <2> QED
        BY <1>t, <1>n, <2>1, <2>3, <2>4 DEF caller
<1>11. ASSUME NEW e \in Events, NEW h \in Handlers, Collect(e, h) \/ TimeOut(e, h) PROVE BusTypes'
    BY <1>10, <1>11 DEF Collect, TimeOut
<1>12. ASSUME NEW h \in Handlers, Take(h) PROVE BusTypes'
    <2>1. UNCHANGED <<runner, work, handled, reply, caller, notices>>
          /\ copy' = [copy EXCEPT ![<<Head(queue[h]), h>>] = "taken"]
        BY <1>12 DEF Take
    <2>2. queue' \in [Handlers -> Seq(Events)] /\ Head(queue[h]) \in Events
        BY <1>12, QueueShrinks DEF Take
    <2>3. copy' \in [BusPairs -> CopyStates]
        BY <1>k, <2>1, <2>2, CopyMoves
    <2> QED
        BY <1>t, <1>n, <2>1, <2>2, <2>3 DEF caller
<1>13. ASSUME NEW h \in Handlers, Exit(h) PROVE BusTypes'
    BY <1>13, <1>t, <1>n DEF Exit, BusTypes, fabric, caller
<1>14. CASE Stop \/ Drained \/ DrainTimesOut \/ Stopped \/ \E h \in Registered : CancelRunner(h)
    BY <1>14, <1>t, <1>n DEF Stop, Drained, DrainTimesOut, Stopped, CancelRunner, BusTypes, fabric, caller
<1> QED
    BY <1>1, <1>2, <1>3, <1>4, <1>5, <1>6, <1>7, <1>8, <1>9, <1>11, <1>12, <1>13, <1>14, BusSteps

(* The queues' books, per step that moves a copy.                           *)
LEMMA EnqueueKeepsQueues ==
    ASSUME BusTypes, QueueBooks, wiring' = wiring, NEW e \in Events, NEW h \in Handlers,
           Append1(e, h), copy[<<e, h>>] = "none"
    PROVE  QueueBooks'
<1>1. /\ \A k \in Handlers : k # h => queue'[k] = queue[k]
      /\ queue'[h] = Append(queue[h], e) /\ Len(queue'[h]) = Len(queue[h]) + 1
      /\ ToSet(queue'[h]) = ToSet(queue[h]) \cup {e}
      /\ Len(queue[h]) \in Nat /\ Len(queue[h]) < wiring.room[h]
    BY QueueGrows
<1>2. copy' = [copy EXCEPT ![<<e, h>>] = "queued"] /\ "queued" \in CopyStates
    BY DEF Append1, CopyStates, Waiting
<1>3. /\ copy'[<<e, h>>] = "queued"
      /\ \A g \in Events, k \in Handlers : g # e \/ k # h => copy'[<<g, k>>] = copy[<<g, k>>]
    BY <1>2, CopyAt, CopyElsewhere
<1>4. e \notin ToSet(queue[h])
    BY DEF QueueBooks
<1>5. IsInjective(queue'[h])
    BY <1>1, <1>4, DistinctGrows DEF QueueBooks, BusTypes
<1>6. wiring.room[h] \in Nat
    BY WiringFacts
<1>7. \A k \in Handlers : Len(queue'[k]) <= wiring'.room[k] /\ IsInjective(queue'[k])
    <2> TAKE k \in Handlers
    <2>1. CASE k # h
        BY <1>1, <2>1 DEF QueueBooks
    <2>2. CASE k = h
        <3>1. Len(queue'[h]) <= wiring.room[h]
            BY <1>1, <1>6
        <3> QED
            BY <1>5, <2>2, <3>1
    <2> QED
        BY <2>1, <2>2
<1>8. \A g \in Events, k \in Handlers : copy'[<<g, k>>] = "queued" <=> g \in ToSet(queue'[k])
    <2> TAKE g \in Events, k \in Handlers
    <2>1. CASE k # h
        BY <1>1, <1>3, <2>1 DEF QueueBooks
    <2>2. CASE k = h /\ g = e
        BY <1>1, <1>3, <2>2
    <2>3. CASE k = h /\ g # e
        <3>1. copy'[<<g, h>>] = copy[<<g, h>>] /\ (copy[<<g, h>>] = "queued" <=> g \in ToSet(queue[h]))
            BY <1>3, <2>3 DEF QueueBooks
        <3> QED
            BY <1>1, <2>3, <3>1
    <2> QED
        BY <2>1, <2>2, <2>3
<1> QED
    BY <1>7, <1>8 DEF QueueBooks

LEMMA DequeueKeepsQueues ==
    ASSUME BusTypes, QueueBooks, wiring' = wiring, NEW h \in Handlers, queue[h] # <<>>,
           queue' = [queue EXCEPT ![h] = Tail(@)],
           NEW v \in CopyStates \ {"queued"}, copy' = [copy EXCEPT ![<<Head(queue[h]), h>>] = v]
    PROVE  /\ QueueBooks'
           /\ Head(queue[h]) \in Events /\ copy[<<Head(queue[h]), h>>] = "queued"
<1> DEFINE e == Head(queue[h])
<1>1. /\ \A k \in Handlers : k # h => queue'[k] = queue[k]
      /\ queue'[h] = Tail(queue[h]) /\ Len(queue'[h]) = Len(queue[h]) - 1
      /\ ToSet(queue[h]) = {e} \cup ToSet(queue'[h])
      /\ Len(queue[h]) \in Nat /\ e \in Events
    BY QueueShrinks
<1>2. IsInjective(queue[h]) /\ queue[h] \in Seq(Events)
    BY DEF QueueBooks, BusTypes
<1>3. IsInjective(queue'[h]) /\ e \notin ToSet(queue'[h])
    BY <1>1, <1>2, DistinctShrinks
<1>4. /\ copy'[<<e, h>>] = v
      /\ \A g \in Events, k \in Handlers : g # e \/ k # h => copy'[<<g, k>>] = copy[<<g, k>>]
    <2>1. v \in CopyStates
        OBVIOUS
    <2> HIDE DEF e
    <2> QED
        BY <1>1, <2>1, CopyAt, CopyElsewhere DEF e
<1>5. copy[<<e, h>>] = "queued"
    BY <1>1 DEF QueueBooks
<1>6. wiring.room[h] \in Nat
    BY WiringFacts
<1>7. \A k \in Handlers : Len(queue'[k]) <= wiring'.room[k] /\ IsInjective(queue'[k])
    <2>1. Len(queue[h]) <= wiring.room[h]
        BY DEF QueueBooks
    <2> QED
        BY <1>1, <1>3, <1>6, <2>1 DEF QueueBooks
<1>8. \A g \in Events, k \in Handlers : copy'[<<g, k>>] = "queued" <=> g \in ToSet(queue'[k])
    <2> TAKE g \in Events, k \in Handlers
    <2>1. CASE k # h
        BY <1>1, <1>4, <2>1 DEF QueueBooks
    <2>2. CASE k = h /\ g # e
        BY <1>1, <1>4, <2>2 DEF QueueBooks
    <2>3. CASE k = h /\ g = e
        BY <1>3, <1>4, <2>3
    <2> QED
        BY <2>1, <2>2, <2>3
<1> HIDE DEF e
<1> QED
    BY <1>1, <1>5, <1>7, <1>8 DEF QueueBooks, e

LEMMA OtherwiseQueuesKeep ==
    ASSUME BusTypes, QueueBooks, wiring' = wiring, NEW e \in Events, NEW h \in Handlers,
           copy[<<e, h>>] # "queued", UNCHANGED queue,
           NEW v \in CopyStates \ {"queued"}, copy' = [copy EXCEPT ![<<e, h>>] = v]
    PROVE  QueueBooks'
<1>1. /\ copy'[<<e, h>>] = v
      /\ \A g \in Events, k \in Handlers : g # e \/ k # h => copy'[<<g, k>>] = copy[<<g, k>>]
    <2>1. v \in CopyStates
        OBVIOUS
    <2> QED
        BY <2>1, CopyAt, CopyElsewhere
<1>2. \A g \in Events, k \in Handlers : copy'[<<g, k>>] = "queued" <=> copy[<<g, k>>] = "queued"
    <2> TAKE g \in Events, k \in Handlers
    <2>1. CASE g = e /\ k = h
        BY <1>1, <2>1
    <2>2. CASE g # e \/ k # h
        BY <1>1, <2>2
    <2> QED
        BY <2>1, <2>2
<1> QED
    BY <1>2 DEF QueueBooks

(* What becomes of the copies in a step: the ways they move.                *)
Moved(e, h, from, to) ==
    copy[<<e, h>>] \in from /\ \E v \in to : copy' = [copy EXCEPT ![<<e, h>>] = v]
Untouched == UNCHANGED <<copy, queue>>
Enqueued(e, h) == Append1(e, h) /\ copy[<<e, h>>] = "none"
Dequeued(h, v) ==
    /\ queue[h] # <<>> /\ queue' = [queue EXCEPT ![h] = Tail(@)]
    /\ copy' = [copy EXCEPT ![<<Head(queue[h]), h>>] = v]

LEMMA CopiesMove ==
    ASSUME BusTypes, Places, [BusNext]_busVars
    PROVE  \/ Untouched
           \/ \E e \in Events, h \in Handlers : Enqueued(e, h)
           \/ \E h \in Handlers : Take(h) /\ Dequeued(h, "taken")
           \/ \E e \in Events, h \in Handlers :
                h = Plan[at[e]] /\ DropOldest(e) /\ Dequeued(h, "dropped")
           \/ /\ UNCHANGED queue
              /\ \E e \in Events, h \in Handlers :
                    \/ Moved(e, h, {"none"}, {"refused", "parked", "unparked"})
                    \/ Moved(e, h, {"taken"}, {"running"})
                    \/ Moved(e, h, {"running"}, {"parked", "unparked"})
                    \/ work[<<e, h>>] = "ok" /\ Moved(e, h, {"running"}, {"done"})
<1>1. CASE UNCHANGED busVars
    BY <1>1 DEF busVars, Untouched
<1>2. CASE \E e \in Events : Emit(e) \/ GiveUp(e) \/ Reply(e) \/ RunnerGone(e) \/ DirectSettle(e) \/ Full(e)
    BY <1>2 DEF Emit, GiveUp, Reply, RunnerGone, DirectSettle, Full, Untouched
<1>3. ASSUME NEW e \in Events, Check(e) \/ SecondRefusal(e)
      PROVE  Untouched \/ (/\ UNCHANGED queue
                           /\ \E h \in Handlers : Moved(e, h, {"none"}, {"refused", "parked", "unparked"}))
    <2>1. Plan[at[e]] \in Handlers
        BY AtHandler
    <2>2. copy[<<e, Plan[at[e]]>>] = "none" /\ UNCHANGED queue
        BY <1>3 DEF Check, SecondRefusal, Places, PlaceOf, Here
    <2>3. copy' = copy \/ \E v \in {"refused", "parked", "unparked"} : copy' = [copy EXCEPT ![<<e, Plan[at[e]]>>] = v]
        BY <1>3 DEF Check, SecondRefusal
    <2> QED
        BY <2>1, <2>2, <2>3, Zenon DEF Moved, Untouched
<1>4. ASSUME NEW e \in Events, SendCritical(e) \/ SendAsync(e)
      PROVE  \E h \in Handlers : Enqueued(e, h)
    <2>1. Plan[at[e]] \in Handlers
        BY AtHandler
    <2>2. copy[<<e, Plan[at[e]]>>] = "none" /\ Append1(e, Plan[at[e]])
        BY <1>4 DEF SendCritical, SendAsync, Places, PlaceOf, Here
    <2> QED
        BY <2>1, <2>2 DEF Enqueued
<1>5. ASSUME NEW e \in Events, DropOldest(e)
      PROVE  Untouched \/ \E h \in Handlers : h = Plan[at[e]] /\ Dequeued(h, "dropped")
    <2>1. Plan[at[e]] \in Handlers /\ Oldest(Plan[at[e]])
        BY <1>5, AtHandler DEF DropOldest
    <2> QED
        BY <2>1 DEF Oldest, Dequeued, Untouched
<1>6. ASSUME NEW h \in Handlers, Take(h) PROVE Dequeued(h, "taken")
    BY <1>6 DEF Take, Dequeued
<1>7. CASE \E e \in Events, h \in Handlers : Handle(e, h)
    BY <1>7 DEF Handle, Untouched
<1>8. ASSUME NEW e \in Events, NEW h \in Handlers, StartHandler(e, h)
      PROVE  UNCHANGED queue /\ Moved(e, h, {"taken"}, {"running"})
    BY <1>8 DEF StartHandler, Moved
<1>9. ASSUME NEW e \in Events, NEW h \in Handlers, Collect(e, h) \/ TimeOut(e, h)
      PROVE  /\ UNCHANGED queue
             /\ \/ Moved(e, h, {"running"}, {"parked", "unparked"})
                \/ work[<<e, h>>] = "ok" /\ Moved(e, h, {"running"}, {"done"})
    <2>1. CASE Collect(e, h) /\ work[<<e, h>>] = "ok"
        <3>1. copy[<<e, h>>] = "running" /\ UNCHANGED queue /\ copy' = [copy EXCEPT ![<<e, h>>] = "done"]
            BY <2>1 DEF Collect, Conclude
        <3> QED
            BY <2>1, <3>1 DEF Moved
    <2>2. CASE TimeOut(e, h) \/ (Collect(e, h) /\ work[<<e, h>>] # "ok")
        <3>1. copy[<<e, h>>] = "running" /\ Conclude(e, h, FALSE)
            BY <2>2 DEF Collect, TimeOut
        <3>2. UNCHANGED queue /\ \E v \in {"parked", "unparked"} : copy' = [copy EXCEPT ![<<e, h>>] = v]
            BY <3>1 DEF Conclude
        <3> QED
            BY <3>1, <3>2, Zenon DEF Moved
    <2> QED
        BY <1>9, <2>1, <2>2
<1>10. CASE (\E h \in Handlers : Exit(h)) \/ Stop \/ Drained \/ DrainTimesOut \/ Stopped
            \/ \E h \in Registered : CancelRunner(h)
    BY <1>10 DEF Exit, Stop, Drained, DrainTimesOut, Stopped, CancelRunner, fabric, Untouched
<1> QED
    BY <1>1, <1>2, <1>3, <1>4, <1>5, <1>6, <1>7, <1>8, <1>9, <1>10, BusSteps

LEMMA QueuesKept ==
    ASSUME BusTypes, QueueBooks, Places, [BusNext]_busVars
    PROVE  QueueBooks'
<1>1. wiring' = wiring
    BY WiredOnce
<1>2. CASE Untouched
    BY <1>1, <1>2 DEF QueueBooks, Untouched
<1>3. CASE \E e \in Events, h \in Handlers : Enqueued(e, h)
    BY <1>1, <1>3, EnqueueKeepsQueues DEF Enqueued
<1>4. ASSUME NEW h \in Handlers, Dequeued(h, "taken") \/ Dequeued(h, "dropped")
      PROVE  QueueBooks'
    <2>1. {"taken", "dropped"} \subseteq CopyStates \ {"queued"}
        BY DEF CopyStates, Waiting, Fates
    <2> QED
        BY <1>1, <1>4, <2>1, DequeueKeepsQueues DEF Dequeued
<1>5. ASSUME UNCHANGED queue, NEW e \in Events, NEW h \in Handlers,
             \/ Moved(e, h, {"none"}, {"refused", "parked", "unparked"})
             \/ Moved(e, h, {"taken"}, {"running"})
             \/ Moved(e, h, {"running"}, {"parked", "unparked"})
             \/ work[<<e, h>>] = "ok" /\ Moved(e, h, {"running"}, {"done"})
      PROVE  QueueBooks'
    <2>1. PICK v \in {"refused", "parked", "unparked", "running", "done"} :
                copy[<<e, h>>] # "queued" /\ copy' = [copy EXCEPT ![<<e, h>>] = v]
        BY <1>5 DEF Moved
    <2>2. v \in CopyStates \ {"queued"}
        BY <2>1 DEF CopyStates, Waiting, Fates
    <2> QED
        BY <1>1, <1>5, <2>1, <2>2, OtherwiseQueuesKeep
<1> QED
    BY <1>2, <1>3, <1>4, <1>5, CopiesMove

(* The copies of a handler that are in a worker's hands, or were dropped,   *)
(* or whose drop the hook was told.                                         *)
Dropped(h) == {e \in Events : copy[<<e, h>>] = "dropped"}
Noticed(h) == {e \in Events : <<e, h>> \in notices}

LEMMA FewEvents ==
    ASSUME NEW S, S \subseteq Events, NEW T, T \subseteq S
    PROVE  /\ IsFiniteSet(S) /\ Cardinality(S) \in Nat
           /\ IsFiniteSet(T) /\ Cardinality(T) \in Nat /\ Cardinality(T) <= Cardinality(S)
<1>1. IsFiniteSet(S)
    BY WiringsAssumption, FS_Subset
<1> QED
    BY <1>1, FS_Subset, FS_CardinalityType

LEMMA OneMore ==
    ASSUME NEW S, S \subseteq Events, NEW T, NEW e, T \subseteq S \cup {e}
    PROVE  IsFiniteSet(T) /\ Cardinality(T) \in Nat /\ Cardinality(T) <= Cardinality(S) + 1
<1>1. IsFiniteSet(S) /\ Cardinality(S) \in Nat
    BY FewEvents
<1>2. IsFiniteSet(S \cup {e}) /\ Cardinality(S \cup {e}) <= Cardinality(S) + 1
      /\ Cardinality(S \cup {e}) \in Nat
    <2>1. IsFiniteSet(S \cup {e})
          /\ Cardinality(S \cup {e}) = IF e \in S THEN Cardinality(S) ELSE Cardinality(S) + 1
        BY <1>1, FS_AddElement
    <2>2. Cardinality(S \cup {e}) \in Nat
        BY <2>1, FS_CardinalityType
    <2> QED
        BY <1>1, <2>1, <2>2
<1>3. IsFiniteSet(T) /\ Cardinality(T) <= Cardinality(S \cup {e}) /\ Cardinality(T) \in Nat
    BY <1>2, FS_Subset, FS_CardinalityType
<1> QED
    BY <1>1, <1>2, <1>3

(* What a moved copy does to the two sets.                                  *)
LEMMA MovesAreNarrow ==
    ASSUME BusTypes, NEW e \in Events, NEW h \in Handlers, NEW v \in CopyStates,
           copy' = [copy EXCEPT ![<<e, h>>] = v]
    PROVE  /\ \A k \in Handlers : k # h => BusyWith(k)' = BusyWith(k) /\ Dropped(k)' = Dropped(k)
           /\ BusyWith(h)' \subseteq BusyWith(h) \cup {e}
           /\ v \notin {"taken", "running"} \/ copy[<<e, h>>] \in {"taken", "running"}
                => BusyWith(h)' \subseteq BusyWith(h)
           /\ Dropped(h)' \subseteq Dropped(h) \cup {e}
<1>1. copy'[<<e, h>>] = v
    BY CopyAt
<1>2. \A g \in Events, k \in Handlers : g # e \/ k # h => copy'[<<g, k>>] = copy[<<g, k>>]
    BY CopyElsewhere
<1> QED
    BY <1>1, <1>2 DEF BusyWith, Dropped

LEMMA CrewsKept ==
    ASSUME BusTypes, QueueBooks, CrewBooks, Places, [BusNext]_busVars
    PROVE  CrewBooks'
<1>0. wiring' = wiring /\ wiring.workers \in [Handlers -> Nat \ {0}] /\ exited \in [Handlers -> Nat]
    BY WiredOnce, WiringFacts DEF BusTypes
<1>1. exited' = exited \/ \E h \in Handlers : Exit(h)
    <2>1. CASE UNCHANGED busVars
        BY <2>1 DEF busVars
    <2>2. CASE \E e \in Events : Emit(e) \/ GiveUp(e) \/ Check(e) \/ SendCritical(e) \/ Reply(e)
        BY <2>2 DEF Emit, GiveUp, Check, SendCritical, Reply, runner
    <2>3. CASE \E e \in Events : RunnerGone(e) \/ DirectSettle(e) \/ SendAsync(e) \/ Full(e)
                                 \/ DropOldest(e) \/ SecondRefusal(e)
        BY <2>3 DEF RunnerGone, DirectSettle, SendAsync, Full, DropOldest, SecondRefusal, runner
    <2>4. CASE \E e \in Events, h \in Handlers :
                 Handle(e, h) \/ StartHandler(e, h) \/ Collect(e, h) \/ TimeOut(e, h)
        BY <2>4 DEF Handle, StartHandler, Collect, TimeOut, Conclude, runner
    <2>5. CASE (\E h \in Handlers : Take(h)) \/ \E h \in Registered : CancelRunner(h)
        BY <2>5 DEF Take, CancelRunner, runner
    <2>6. CASE Stop \/ Drained \/ DrainTimesOut \/ Stopped
        BY <2>6 DEF Stop, Drained, DrainTimesOut, Stopped
    <2> QED
        BY <2>1, <2>2, <2>3, <2>4, <2>5, <2>6, BusSteps
<1>2. ASSUME NEW h \in Handlers
      PROVE  BusyWith(h) \subseteq Events /\ BusyWith(h)' \subseteq Events
             /\ Cardinality(BusyWith(h)) \in Nat /\ Cardinality(BusyWith(h)') \in Nat
    <2>1. BusyWith(h) \subseteq Events /\ BusyWith(h)' \subseteq Events
        BY DEF BusyWith
    <2> QED
        BY <2>1, FewEvents
<1>3. ASSUME NEW h \in Handlers, Exit(h) PROVE CrewBooks'
    <2>1. /\ Cardinality(BusyWith(h)) + exited[h] < wiring.workers[h]
          /\ exited' = [exited EXCEPT ![h] = exited[h] + 1] /\ UNCHANGED copy
        BY <1>3 DEF Exit, fabric
    <2>2. \A k \in Handlers : BusyWith(k)' = BusyWith(k)
        BY <2>1 DEF BusyWith
    <2> SUFFICES ASSUME NEW k \in Handlers
                 PROVE  exited'[k] + Cardinality(BusyWith(k)) <= wiring.workers[k]
        BY <1>0, <2>2 DEF CrewBooks
    <2>3. CASE k # h
        BY <1>0, <2>1, <2>3 DEF CrewBooks
    <2>4. CASE k = h
        <3>1. exited'[h] = exited[h] + 1 /\ Cardinality(BusyWith(h)) \in Nat
              /\ wiring.workers[h] \in Nat /\ exited[h] \in Nat
            BY <1>0, <1>2, <2>1
        <3> QED
            BY <2>1, <2>4, <3>1
    <2> QED
        BY <2>3, <2>4
<1>4. ASSUME exited' = exited, \A k \in Handlers : BusyWith(k)' \subseteq BusyWith(k)
      PROVE  CrewBooks'
    <2> SUFFICES ASSUME NEW k \in Handlers
                 PROVE  exited[k] + Cardinality(BusyWith(k)') <= wiring.workers[k]
        BY <1>0, <1>4 DEF CrewBooks
    <2>1. Cardinality(BusyWith(k)') <= Cardinality(BusyWith(k))
        BY <1>2, <1>4, FewEvents
    <2>2. exited[k] + Cardinality(BusyWith(k)) <= wiring.workers[k]
        BY DEF CrewBooks
    <2>3. exited[k] \in Nat /\ wiring.workers[k] \in Nat
        BY <1>0
    <2> QED
        BY <1>2, <2>1, <2>2, <2>3
<1>5. CASE Untouched
    <2>1. \A k \in Handlers : BusyWith(k)' = BusyWith(k)
        BY <1>5 DEF Untouched, BusyWith
    <2> QED
        BY <1>1, <1>3, <1>4, <2>1
<1>7. ASSUME ~Untouched PROVE exited' = exited
    BY <1>1, <1>7 DEF Exit, fabric, Untouched
<1>8. ASSUME NEW h \in Handlers, Take(h), Dequeued(h, "taken"), ~Untouched PROVE CrewBooks'
    <2> DEFINE e == Head(queue[h])
    <2>1. e \in Events
        BY <1>8, QueueShrinks DEF Dequeued
    <2>2. copy' = [copy EXCEPT ![<<e, h>>] = "taken"] /\ "taken" \in CopyStates
        BY <1>8 DEF Dequeued, CopyStates, Waiting
    <2> HIDE DEF e
    <2>3. /\ \A k \in Handlers : k # h => BusyWith(k)' = BusyWith(k)
          /\ BusyWith(h)' \subseteq BusyWith(h) \cup {e}
        BY <2>1, <2>2, MovesAreNarrow
    <2>4. Cardinality(BusyWith(h)) + exited[h] < wiring.workers[h]
        BY <1>8 DEF Take
    <2>5. Cardinality(BusyWith(h)') <= Cardinality(BusyWith(h)) + 1
        BY <1>2, <2>3, OneMore
    <2>6. exited[h] + Cardinality(BusyWith(h)') <= wiring.workers[h]
        <3>1. exited[h] \in Nat /\ wiring.workers[h] \in Nat
            BY <1>0
        <3> QED
            BY <1>2, <2>4, <2>5, <3>1
    <2>7. \A k \in Handlers : k # h => exited[k] + Cardinality(BusyWith(k)') <= wiring.workers[k]
        BY <2>3 DEF CrewBooks
    <2> QED
        BY <1>0, <1>7, <1>8, <2>6, <2>7 DEF CrewBooks
<1>9. ASSUME NEW e \in Events, NEW h \in Handlers, NEW v \in CopyStates,
             copy' = [copy EXCEPT ![<<e, h>>] = v], ~Untouched,
             v \notin {"taken", "running"} \/ copy[<<e, h>>] \in {"taken", "running"}
      PROVE  CrewBooks'
    <2>1. \A k \in Handlers : k # h => BusyWith(k)' = BusyWith(k)
        BY <1>9, MovesAreNarrow
    <2>2. BusyWith(h)' \subseteq BusyWith(h)
        BY <1>9, MovesAreNarrow
    <2>3. \A k \in Handlers : BusyWith(k)' \subseteq BusyWith(k)
        BY <2>1, <2>2
    <2> QED
        BY <1>4, <1>7, <1>9, <2>3
<1>10. ASSUME NEW e \in Events, NEW h \in Handlers, Enqueued(e, h), ~Untouched PROVE CrewBooks'
    <2>1. copy' = [copy EXCEPT ![<<e, h>>] = "queued"] /\ "queued" \in CopyStates
        BY <1>10 DEF Enqueued, Append1, CopyStates, Waiting
    <2> QED
        BY <1>9, <1>10, <2>1
<1>11. ASSUME NEW h \in Handlers, Dequeued(h, "dropped"), ~Untouched PROVE CrewBooks'
    <2>1. Head(queue[h]) \in Events
        BY <1>11, QueueShrinks DEF Dequeued
    <2>2. copy' = [copy EXCEPT ![<<Head(queue[h]), h>>] = "dropped"] /\ "dropped" \in CopyStates
        BY <1>11 DEF Dequeued, CopyStates, Fates
    <2> QED
        BY <1>9, <1>11, <2>1, <2>2
<1>12. ASSUME ~Untouched, NEW e \in Events, NEW h \in Handlers,
              \/ Moved(e, h, {"none"}, {"refused", "parked", "unparked"})
              \/ Moved(e, h, {"taken"}, {"running"})
              \/ Moved(e, h, {"running"}, {"parked", "unparked"})
              \/ work[<<e, h>>] = "ok" /\ Moved(e, h, {"running"}, {"done"})
       PROVE  CrewBooks'
    <2>1. PICK v \in {"refused", "parked", "unparked", "running", "done"} :
                /\ copy' = [copy EXCEPT ![<<e, h>>] = v]
                /\ v \notin {"taken", "running"} \/ copy[<<e, h>>] \in {"taken", "running"}
        BY <1>12 DEF Moved
    <2>2. v \in CopyStates
        BY <2>1 DEF CopyStates, Waiting, Fates
    <2> QED
        BY <1>9, <1>12, <2>1, <2>2
<1> QED
    BY <1>5, <1>8, <1>10, <1>11, <1>12, CopiesMove

LEMMA DropsKept ==
    ASSUME BusTypes, QueueBooks, Places, DropsAreNoticed, [BusNext]_busVars
    PROVE  DropsAreNoticed'
<1>0. DropsAreNoticed <=> \A h \in Handlers : Cardinality(Dropped(h)) <= Cardinality(Noticed(h))
    BY DEF DropsAreNoticed, Dropped, Noticed
<1>1. DropsAreNoticed' <=> \A h \in Handlers : Cardinality(Dropped(h)') <= Cardinality(Noticed(h)')
    BY DEF DropsAreNoticed, Dropped, Noticed
<1>2. ASSUME NEW h \in Handlers
      PROVE  /\ Dropped(h) \subseteq Events /\ Dropped(h)' \subseteq Events
             /\ Noticed(h) \subseteq Events /\ Noticed(h)' \subseteq Events
             /\ Cardinality(Dropped(h)) \in Nat /\ Cardinality(Dropped(h)') \in Nat
             /\ Cardinality(Noticed(h)) \in Nat /\ Cardinality(Noticed(h)') \in Nat
    <2>1. /\ Dropped(h) \subseteq Events /\ Dropped(h)' \subseteq Events
          /\ Noticed(h) \subseteq Events /\ Noticed(h)' \subseteq Events
        BY DEF Dropped, Noticed
    <2> QED
        BY <2>1, FewEvents
<1>3. notices \subseteq notices'
    <2>1. CASE UNCHANGED busVars
        BY <2>1 DEF busVars
    <2>2. CASE \E e \in Events : Emit(e) \/ GiveUp(e) \/ Check(e) \/ SendCritical(e) \/ Reply(e)
        BY <2>2 DEF Emit, GiveUp, Check, SendCritical, Reply
    <2>3. CASE \E e \in Events : RunnerGone(e) \/ DirectSettle(e) \/ SendAsync(e) \/ Full(e)
                                 \/ DropOldest(e) \/ SecondRefusal(e)
        BY <2>3 DEF RunnerGone, DirectSettle, SendAsync, Full, DropOldest, SecondRefusal
    <2>4. CASE \E e \in Events, h \in Handlers :
                 Handle(e, h) \/ StartHandler(e, h) \/ Collect(e, h) \/ TimeOut(e, h)
        BY <2>4 DEF Handle, StartHandler, Collect, TimeOut, Conclude
    <2>5. CASE (\E h \in Handlers : Take(h) \/ Exit(h)) \/ \E h \in Registered : CancelRunner(h)
        BY <2>5 DEF Take, Exit, CancelRunner, fabric
    <2>6. CASE Stop \/ Drained \/ DrainTimesOut \/ Stopped
        BY <2>6 DEF Stop, Drained, DrainTimesOut, Stopped, fabric
    <2> QED
        BY <2>1, <2>2, <2>3, <2>4, <2>5, <2>6, BusSteps
<1>4. \A h \in Handlers : Cardinality(Noticed(h)) <= Cardinality(Noticed(h)')
    <2>1. \A h \in Handlers : Noticed(h) \subseteq Noticed(h)'
        BY <1>3 DEF Noticed
    <2> QED
        BY <1>2, <2>1, FewEvents
<1>5. ASSUME \A k \in Handlers : Dropped(k)' \subseteq Dropped(k)
      PROVE  DropsAreNoticed'
    <2> SUFFICES ASSUME NEW k \in Handlers
                 PROVE  Cardinality(Dropped(k)') <= Cardinality(Noticed(k)')
        BY <1>1
    <2>1. Cardinality(Dropped(k)') <= Cardinality(Dropped(k))
        BY <1>2, <1>5, FewEvents
    <2>2. Cardinality(Dropped(k)) <= Cardinality(Noticed(k)) /\ Cardinality(Noticed(k)) <= Cardinality(Noticed(k)')
        BY <1>0, <1>4
    <2> QED
        BY <1>2, <2>1, <2>2
<1>6. CASE Untouched
    <2>1. \A k \in Handlers : Dropped(k)' \subseteq Dropped(k)
        BY <1>6 DEF Untouched, Dropped
    <2> QED
        BY <1>5, <2>1
<1>7. ASSUME NEW e \in Events, NEW h \in Handlers, NEW v \in CopyStates,
             copy' = [copy EXCEPT ![<<e, h>>] = v], v # "dropped"
      PROVE  DropsAreNoticed'
    <2>1. copy'[<<e, h>>] # "dropped"
        BY <1>7, CopyAt
    <2>2. \A g \in Events, k \in Handlers : g # e \/ k # h => copy'[<<g, k>>] = copy[<<g, k>>]
        BY <1>7, CopyElsewhere
    <2>3. \A k \in Handlers : Dropped(k)' \subseteq Dropped(k)
        BY <2>1, <2>2 DEF Dropped
    <2> QED
        BY <1>5, <2>3
<1>8. ASSUME NEW e \in Events, NEW h \in Handlers, Enqueued(e, h) PROVE DropsAreNoticed'
    <2>1. copy' = [copy EXCEPT ![<<e, h>>] = "queued"] /\ "queued" \in CopyStates
        BY <1>8 DEF Enqueued, Append1, CopyStates, Waiting
    <2> QED
        BY <1>7, <2>1
<1>9. ASSUME NEW h \in Handlers, Dequeued(h, "taken") PROVE DropsAreNoticed'
    <2>1. Head(queue[h]) \in Events
        BY <1>9, QueueShrinks DEF Dequeued
    <2>2. copy' = [copy EXCEPT ![<<Head(queue[h]), h>>] = "taken"] /\ "taken" \in CopyStates
        BY <1>9 DEF Dequeued, CopyStates, Waiting
    <2> QED
        BY <1>7, <2>1, <2>2
<1>10. ASSUME NEW e \in Events, NEW h \in Handlers, h = Plan[at[e]], DropOldest(e), Dequeued(h, "dropped")
       PROVE  DropsAreNoticed'
    <2>1. PICK g \in Events : g = Head(queue[h])
        BY <1>10, QueueShrinks DEF Dequeued
    <2>2. copy' = [copy EXCEPT ![<<g, h>>] = "dropped"] /\ "dropped" \in CopyStates
        BY <1>10, <2>1 DEF Dequeued, CopyStates, Fates
    <2>3. stage[e] = "drop" /\ notices' = notices \cup {<<e, h>>} /\ <<e, h>> \notin notices
        BY <1>10 DEF DropOldest, Places, PlaceOf, Here
    <2>4. /\ \A k \in Handlers : k # h => Dropped(k)' = Dropped(k)
          /\ Dropped(h)' \subseteq Dropped(h) \cup {g}
        BY <2>2, MovesAreNarrow
    <2>5. Noticed(h)' = Noticed(h) \cup {e} /\ e \notin Noticed(h)
        BY <2>3 DEF Noticed
    <2>6. Cardinality(Noticed(h)') = Cardinality(Noticed(h)) + 1
        BY <1>2, <2>5, FewEvents, FS_AddElement
    <2>7. Cardinality(Dropped(h)') <= Cardinality(Dropped(h)) + 1
        BY <1>2, <2>4, OneMore
    <2> SUFFICES ASSUME NEW k \in Handlers
                 PROVE  Cardinality(Dropped(k)') <= Cardinality(Noticed(k)')
        BY <1>1
    <2>8. CASE k = h
        <3>1. Cardinality(Dropped(h)) <= Cardinality(Noticed(h))
            BY <1>0
        <3> QED
            BY <1>2, <2>6, <2>7, <2>8, <3>1
    <2>9. CASE k # h
        <3>1. Cardinality(Dropped(k)') <= Cardinality(Noticed(k)) /\ Cardinality(Noticed(k)) <= Cardinality(Noticed(k)')
            BY <1>0, <1>4, <2>4, <2>9
        <3> QED
            BY <1>2, <3>1
    <2> QED
        BY <2>8, <2>9
<1>11. ASSUME NEW e \in Events, NEW h \in Handlers,
              \/ Moved(e, h, {"none"}, {"refused", "parked", "unparked"})
              \/ Moved(e, h, {"taken"}, {"running"})
              \/ Moved(e, h, {"running"}, {"parked", "unparked"})
              \/ work[<<e, h>>] = "ok" /\ Moved(e, h, {"running"}, {"done"})
       PROVE  DropsAreNoticed'
    <2>1. PICK v \in {"refused", "parked", "unparked", "running", "done"} :
                copy' = [copy EXCEPT ![<<e, h>>] = v]
        BY <1>11 DEF Moved
    <2>2. v \in CopyStates
        BY <2>1 DEF CopyStates, Waiting, Fates
    <2> QED
        BY <1>7, <2>1, <2>2
<1> QED
    BY <1>6, <1>8, <1>9, <1>10, <1>11, CopiesMove


(* When the callers are gone before the bus is closed, nobody emits after,  *)
(* and no copy joins a queue.                                               *)
LEMMA CallersRest ==
    ASSUME BusTypes, Places, wiring.callersFirst, closed, Ended, [BusNext]_busVars
    PROVE  /\ UNCHANGED stage
           /\ \A p \in BusPairs : copy'[p] = "queued" => copy[p] = "queued"
<1>1. \A e \in Events : stage[e] \in {"new", "answered"}
    BY DEF Ended
<1>2. ASSUME NEW e \in Events,
             \/ Emit(e) \/ GiveUp(e) \/ Check(e) \/ SendCritical(e) \/ Reply(e) \/ RunnerGone(e)
             \/ DirectSettle(e) \/ SendAsync(e) \/ Full(e) \/ DropOldest(e) \/ SecondRefusal(e)
      PROVE  FALSE
    <2>1. stage[e] \in {"new", "answered"}
        BY <1>1
    <2>2. CASE Emit(e) \/ GiveUp(e) \/ Check(e) \/ SendCritical(e) \/ Reply(e) \/ RunnerGone(e)
        BY <2>1, <2>2 DEF Emit, GiveUp, Check, SendCritical, Reply, RunnerGone
    <2>3. CASE DirectSettle(e) \/ SendAsync(e) \/ Full(e) \/ DropOldest(e) \/ SecondRefusal(e)
        BY <2>1, <2>3 DEF DirectSettle, SendAsync, Full, DropOldest, SecondRefusal
    <2> QED
        BY <1>2, <2>2, <2>3
<1>3. UNCHANGED stage
    <2>1. CASE UNCHANGED busVars
        BY <2>1 DEF busVars
    <2>2. CASE \E e \in Events, h \in Handlers :
                 Handle(e, h) \/ StartHandler(e, h) \/ Collect(e, h) \/ TimeOut(e, h)
        BY <2>2 DEF Handle, StartHandler, Collect, TimeOut, Conclude, caller
    <2>3. CASE (\E h \in Handlers : Take(h) \/ Exit(h)) \/ \E h \in Registered : CancelRunner(h)
        BY <2>3 DEF Take, Exit, CancelRunner, fabric, caller
    <2>4. CASE Stop \/ Drained \/ DrainTimesOut \/ Stopped
        BY <2>4 DEF Stop, Drained, DrainTimesOut, Stopped, fabric, caller
    <2> QED
        BY <1>2, <2>1, <2>2, <2>3, <2>4, BusSteps
<1>4. ASSUME NEW e \in Events, NEW h \in Handlers, NEW v \in CopyStates,
             copy' = [copy EXCEPT ![<<e, h>>] = v], v # "queued"
      PROVE  \A p \in BusPairs : copy'[p] = "queued" => copy[p] = "queued"
    BY <1>4, CopyMoves
<1>5. CASE Untouched
    BY <1>3, <1>5 DEF Untouched
<1>6. \/ Untouched
      \/ \E h \in Handlers : Dequeued(h, "taken")
      \/ \E e \in Events, h \in Handlers :
            Moved(e, h, {"taken"}, {"running"}) \/ Moved(e, h, {"running"}, {"done", "parked", "unparked"})
    <2>1. CASE UNCHANGED busVars
        BY <2>1 DEF busVars, Untouched
    <2>2. ASSUME NEW e \in Events, NEW h \in Handlers, StartHandler(e, h)
          PROVE  Moved(e, h, {"taken"}, {"running"})
        BY <2>2 DEF StartHandler, Moved
    <2>3. ASSUME NEW e \in Events, NEW h \in Handlers, Collect(e, h) \/ TimeOut(e, h)
          PROVE  Moved(e, h, {"running"}, {"done", "parked", "unparked"})
        <3>1. copy[<<e, h>>] = "running" /\ \E ok \in BOOLEAN : Conclude(e, h, ok)
            BY <2>3 DEF Collect, TimeOut
        <3>2. \E v \in {"done", "parked", "unparked"} : copy' = [copy EXCEPT ![<<e, h>>] = v]
            BY <3>1 DEF Conclude
        <3> QED
            BY <3>1, <3>2, Zenon DEF Moved
    <2>4. CASE \E e \in Events, h \in Handlers : Handle(e, h)
        BY <2>4 DEF Handle, Untouched
    <2>5. CASE \E h \in Handlers : Take(h)
        BY <2>5 DEF Take, Dequeued
    <2>6. CASE (\E h \in Handlers : Exit(h)) \/ Stop \/ Drained \/ DrainTimesOut \/ Stopped
               \/ \E h \in Registered : CancelRunner(h)
        BY <2>6 DEF Exit, Stop, Drained, DrainTimesOut, Stopped, CancelRunner, fabric, Untouched
    <2> QED
        BY <1>2, <2>1, <2>2, <2>3, <2>4, <2>5, <2>6, BusSteps
<1>7. ASSUME NEW h \in Handlers, Dequeued(h, "taken")
      PROVE  \A p \in BusPairs : copy'[p] = "queued" => copy[p] = "queued"
    <2>1. Head(queue[h]) \in Events
        BY <1>7, QueueShrinks DEF Dequeued
    <2>2. copy' = [copy EXCEPT ![<<Head(queue[h]), h>>] = "taken"] /\ "taken" \in CopyStates
        BY <1>7 DEF Dequeued, CopyStates, Waiting
    <2> QED
        BY <1>4, <2>1, <2>2
<1>8. ASSUME NEW e \in Events, NEW h \in Handlers,
             Moved(e, h, {"taken"}, {"running"}) \/ Moved(e, h, {"running"}, {"done", "parked", "unparked"})
      PROVE  \A p \in BusPairs : copy'[p] = "queued" => copy[p] = "queued"
    <2>1. PICK v \in {"running", "done", "parked", "unparked"} : copy' = [copy EXCEPT ![<<e, h>>] = v]
        BY <1>8 DEF Moved
    <2>2. v \in CopyStates
        BY <2>1 DEF CopyStates, Waiting, Fates
    <2> QED
        BY <1>4, <2>1, <2>2
<1> QED
    BY <1>3, <1>5, <1>6, <1>7, <1>8

(* What a process that stops has behind it.                                 *)
LEMMA StopsKept ==
    ASSUME BusTypes, QueueBooks, CrewBooks, Places, Stops, [BusNext]_busVars
    PROVE  Stops'
<1>0. /\ wiring' = wiring /\ Registered' = Registered /\ Low' = Low
      /\ wiring.workers \in [Handlers -> Nat \ {0}] /\ Registered \subseteq Handlers /\ Low \subseteq Handlers
      /\ exited \in [Handlers -> Nat] /\ closed \in BOOLEAN /\ closed = (stopping # "up")
    BY WiredOnce, WiringFacts DEF BusTypes, Plan, Registered, Low
<1>1. \/ UNCHANGED runner
      \/ (\E h \in Handlers : Exit(h)) \/ Stop \/ Drained \/ DrainTimesOut \/ Stopped
      \/ \E h \in Registered : CancelRunner(h)
    <2>1. CASE UNCHANGED busVars
        BY <2>1 DEF busVars, runner
    <2>2. CASE \E e \in Events : Emit(e) \/ GiveUp(e) \/ Check(e) \/ SendCritical(e) \/ Reply(e)
        BY <2>2 DEF Emit, GiveUp, Check, SendCritical, Reply
    <2>3. CASE \E e \in Events : RunnerGone(e) \/ DirectSettle(e) \/ SendAsync(e) \/ Full(e)
                                 \/ DropOldest(e) \/ SecondRefusal(e)
        BY <2>3 DEF RunnerGone, DirectSettle, SendAsync, Full, DropOldest, SecondRefusal
    <2>4. CASE \E e \in Events, h \in Handlers :
                 Handle(e, h) \/ StartHandler(e, h) \/ Collect(e, h) \/ TimeOut(e, h)
        BY <2>4 DEF Handle, StartHandler, Collect, TimeOut, Conclude
    <2>5. CASE \E h \in Handlers : Take(h)
        BY <2>5 DEF Take
    <2> QED
        BY <2>1, <2>2, <2>3, <2>4, <2>5, BusSteps
<1>2. stopping' = "stopped" => \A h \in Registered : exited'[h] = wiring.workers[h]
    <2>1. CASE UNCHANGED runner
        BY <2>1 DEF runner, Stops
    <2>2. ASSUME NEW h \in Handlers, Exit(h), stopping' = "stopped" PROVE FALSE
        <3>1. stopping = "stopped" /\ h \in Registered /\ Cardinality(BusyWith(h)) + exited[h] < wiring.workers[h]
            BY <2>2 DEF Exit, BusTypes
        <3>2. exited[h] = wiring.workers[h] /\ wiring.workers[h] \in Nat
            BY <1>0, <3>1 DEF Stops
        <3>3. Cardinality(BusyWith(h)) \in Nat
            <4>1. BusyWith(h) \subseteq Events
                BY DEF BusyWith
            <4> QED
                BY <4>1, FewEvents
        <3> QED
            BY <3>1, <3>2, <3>3
    <2>3. CASE Stop \/ Drained \/ DrainTimesOut \/ \E h \in Registered : CancelRunner(h)
        BY <2>3 DEF Stop, Drained, DrainTimesOut, CancelRunner
    <2>4. CASE Stopped
        BY <2>4 DEF Stopped
    <2> QED
        BY <1>1, <2>1, <2>2, <2>3, <2>4
<1>3. ASSUME wiring.callersFirst, closed' PROVE Ended'
    <2>1. CASE closed
        <3>1. Ended
            BY <1>3, <2>1 DEF Stops
        <3>2. UNCHANGED stage
            BY <1>3, <2>1, <3>1, CallersRest
        <3> QED
            BY <3>1, <3>2 DEF Ended
    <2>2. CASE ~closed
        <3>1. Stop
            <4>1. ~UNCHANGED closed
                BY <1>3, <2>2
            <4> QED
                BY <1>1, <4>1 DEF runner, Exit, Drained, DrainTimesOut, Stopped, CancelRunner
        <3> QED
            BY <1>3, <3>1 DEF Stop, fabric, caller, Ended
    <2> QED
        BY <2>1, <2>2, <1>0
<1>4. ASSUME wiring.callersFirst, stopping' \in {"cancelling", "stopped"}, ~outOfTime'
      PROVE  \A p \in Events \X Low : copy'[p] # "queued"
    <2>1. CASE stopping \in {"cancelling", "stopped"}
        <3>1. closed /\ Ended
            BY <1>0, <1>4, <2>1 DEF Stops
        <3>2. ~outOfTime
            BY <1>1, <1>4, <2>1 DEF runner, Exit, Stop, Drained, DrainTimesOut, Stopped, CancelRunner
        <3>3. \A p \in BusPairs : copy'[p] = "queued" => copy[p] = "queued"
            BY <1>4, <3>1, CallersRest
        <3>4. Events \X Low \subseteq BusPairs
            BY <1>0 DEF BusPairs
        <3> QED
            BY <1>4, <2>1, <3>2, <3>3, <3>4 DEF Stops
    <2>2. CASE stopping \notin {"cancelling", "stopped"}
        <3>1. Drained
            BY <1>1, <1>4, <2>2 DEF runner, Exit, Stop, Drained, DrainTimesOut, Stopped, CancelRunner
        <3>2. \A h \in Low : Pending(h) = {}
            BY <3>1 DEF Drained
        <3>3. \A e \in Events, h \in Low : copy[<<e, h>>] # "queued"
            BY <3>2 DEF Pending
        <3>4. UNCHANGED copy
            BY <3>1 DEF Drained, fabric
        <3> QED
            BY <3>3, <3>4
    <2> QED
        BY <2>1, <2>2
<1> QED
    BY <1>0, <1>2, <1>3, <1>4 DEF Stops

(* An event whose own Emit does not move keeps its place, whatever the      *)
(* workers do with its copies.                                              *)
Calm(g) == \A k \in Handlers :
    \/ copy'[<<g, k>>] = copy[<<g, k>>]
    \/ copy[<<g, k>>] \notin {"none", "done"} /\ copy'[<<g, k>>] \notin {"none", "refused"}

LEMMA PlaceStays ==
    ASSUME BusTypes, NEW e \in Events, PlaceOf(e), wiring' = wiring, closed => closed',
           stage'[e] = stage[e], at'[e] = at[e], Calm(e),
           \A k \in Handlers : <<e, k>> \in notices' <=> <<e, k>> \in notices
    PROVE  PlaceOf(e)'
<1>1. Plan' = Plan /\ Critical' = Critical
    BY DEF Plan, Critical
<1>2. /\ Plan[at[e]] \in Handlers /\ \A i \in DOMAIN Plan : Plan[i] \in Handlers
    BY AtHandler, WiringFacts
<1>3. Here(e)' = Here(e) /\ Here(e) = <<e, Plan[at[e]]>> /\ Passed(e)' = Passed(e)
    BY <1>1 DEF Here, Passed
<1>4. \A k \in Handlers : /\ copy'[<<e, k>>] = "none" <=> copy[<<e, k>>] = "none"
                          /\ copy[<<e, k>>] = "done" => copy'[<<e, k>>] = "done"
    BY DEF Calm
<1>5. stage'[e] \in {"new", "submit", "send", "drop", "again"} => copy'[<<e, Plan[at[e]]>>] = "none"
    BY <1>2, <1>3, <1>4 DEF PlaceOf
<1>6. stage'[e] \in {"new", "submit", "send", "drop"} => <<e, Plan[at[e]]>> \notin notices'
    BY <1>2, <1>3 DEF PlaceOf
<1>7. \A h \in Handlers : copy'[<<e, h>>] # "none" \/ <<e, h>> \in notices' =>
          \E i \in DOMAIN Plan : i <= at[e] /\ h = Plan[i]
    BY <1>4 DEF PlaceOf
<1>8. \A i \in DOMAIN Plan : i < at[e] /\ Plan[i] \in Critical => copy'[<<e, Plan[i]>>] = "done"
    BY <1>2, <1>4 DEF PlaceOf
<1>9. ~closed' => \A i \in DOMAIN Plan :
          i <= Passed(e) /\ Plan[i] \notin Critical => copy'[<<e, Plan[i]>>] # "none"
    BY <1>2, <1>4 DEF PlaceOf
<1> QED
    BY <1>1, <1>3, <1>5, <1>6, <1>7, <1>8, <1>9 DEF PlaceOf

(* Emit leaves a handler behind: its copy is made, and a critical one done. *)
LEMMA PlaceMovesOn ==
    ASSUME BusTypes, NEW e \in Events, PlaceOf(e), wiring' = wiring, closed' = closed,
           NextHandler(e), stage[e] \notin {"answered"}, NEW h \in Handlers, h = Plan[at[e]],
           \A k \in Handlers : k # h => copy'[<<e, k>>] = copy[<<e, k>>],
           copy'[<<e, h>>] # "none", h \in Critical => copy'[<<e, h>>] = "done",
           notices' = notices
    PROVE  PlaceOf(e)'
<1>1. Plan' = Plan /\ Critical' = Critical
    BY DEF Plan, Critical
<1>2. /\ \A i \in DOMAIN Plan : Plan[i] \in Handlers
      /\ \A i, j \in DOMAIN Plan : Plan[i] = Plan[j] => i = j
      /\ DOMAIN Plan = 1..Len(Plan) /\ Len(Plan) \in Nat /\ at[e] \in DOMAIN Plan
    BY AtHandler, WiringFacts
<1>3. \/ /\ at[e] = Len(Plan) /\ at'[e] = at[e] /\ stage'[e] = "answered"
      \/ /\ at[e] # Len(Plan) /\ at'[e] = at[e] + 1 /\ stage'[e] = "submit"
    BY CallerMoves
<1>4. Passed(e)' = at[e] /\ Passed(e) = at[e] - 1
    BY <1>2, <1>3 DEF Passed
<1>5. \A k \in Handlers : copy[<<e, k>>] # "none" \/ <<e, k>> \in notices =>
          \E i \in DOMAIN Plan : i <= at[e] /\ k = Plan[i]
    BY DEF PlaceOf
<1>6. \A k \in Handlers : copy'[<<e, k>>] # "none" \/ <<e, k>> \in notices' =>
          \E i \in DOMAIN Plan : i <= at'[e] /\ k = Plan[i]
    <2> SUFFICES ASSUME NEW k \in Handlers, copy'[<<e, k>>] # "none" \/ <<e, k>> \in notices'
                 PROVE  \E i \in DOMAIN Plan : i <= at[e] /\ k = Plan[i]
        BY <1>2, <1>3
    <2> QED
        BY <1>2, <1>5
<1>7. \A i \in DOMAIN Plan : i < at'[e] /\ Plan[i] \in Critical => copy'[<<e, Plan[i]>>] = "done"
    <2> SUFFICES ASSUME NEW i \in DOMAIN Plan, i <= at[e], Plan[i] \in Critical,
                        i < at'[e]
                 PROVE  copy'[<<e, Plan[i]>>] = "done"
        BY <1>2, <1>3
    <2>1. CASE i = at[e]
        BY <2>1
    <2>2. CASE i < at[e]
        <3>1. copy[<<e, Plan[i]>>] = "done" /\ Plan[i] # h
            BY <1>2, <2>2 DEF PlaceOf
        <3> QED
            BY <1>2, <3>1
    <2> QED
        BY <1>2, <2>1, <2>2
<1>8. ~closed => \A i \in DOMAIN Plan :
          i <= at[e] /\ Plan[i] \notin Critical => copy'[<<e, Plan[i]>>] # "none"
    <2> SUFFICES ASSUME ~closed, NEW i \in DOMAIN Plan, i <= at[e], Plan[i] \notin Critical
                 PROVE  copy'[<<e, Plan[i]>>] # "none"
        OBVIOUS
    <2>1. CASE i = at[e]
        BY <2>1
    <2>2. CASE i < at[e]
        <3>1. copy[<<e, Plan[i]>>] # "none" /\ Plan[i] # h
            BY <1>2, <1>4, <2>2 DEF PlaceOf
        <3> QED
            BY <1>2, <3>1
    <2> QED
        BY <1>2, <2>1, <2>2
<1>9. CASE at[e] = Len(Plan)
    <2>1. stage'[e] = "answered"
        BY <1>3, <1>9
    <2> QED
        BY <1>1, <1>4, <1>6, <1>7, <1>8, <2>1 DEF PlaceOf
<1>10. CASE at[e] # Len(Plan)
    <2>1. stage'[e] = "submit" /\ at'[e] = at[e] + 1 /\ at[e] + 1 \in DOMAIN Plan
        BY <1>2, <1>3, <1>10
    <2>2. PICK k \in Handlers : k = Plan[at[e] + 1]
        BY <1>2, <2>1
    <2>3. ~\E i \in DOMAIN Plan : i <= at[e] /\ k = Plan[i]
        BY <1>2, <2>1, <2>2
    <2>4. copy[<<e, k>>] = "none" /\ <<e, k>> \notin notices /\ k # h
        BY <1>2, <1>5, <2>3
    <2>5. copy'[<<e, k>>] = "none" /\ <<e, k>> \notin notices'
        BY <2>4
    <2>6. Here(e)' = <<e, k>>
        BY <1>1, <2>1, <2>2 DEF Here
    <2> QED
        BY <1>1, <1>4, <1>6, <1>7, <1>8, <2>1, <2>5, <2>6 DEF PlaceOf
<1> QED
    BY <1>9, <1>10

(* Emit moves at the handler where it is.                                   *)
LEMMA PlaceMovesHere ==
    ASSUME BusTypes, NEW e \in Events, PlaceOf(e), wiring' = wiring, closed' = closed, at' = at,
           stage[e] \notin {"answered"}, NEW h \in Handlers, h = Plan[at[e]],
           \A k \in Handlers : k # h => copy'[<<e, k>>] = copy[<<e, k>>] /\ (<<e, k>> \in notices' <=> <<e, k>> \in notices),
           stage'[e] = "await" => h \in Critical,
           stage'[e] = "direct" => closed \/ h \in Critical,
           stage'[e] \in {"drop", "again"} => h \notin Critical,
           stage'[e] \in {"new", "submit", "send", "drop", "again"} => copy'[<<e, h>>] = "none",
           stage'[e] \in {"new", "submit", "send", "drop"} => <<e, h>> \notin notices',
           stage'[e] = "answered" => closed \/ h \in Critical
    PROVE  PlaceOf(e)'
<1>1. Plan' = Plan /\ Critical' = Critical
    BY DEF Plan, Critical
<1>2. /\ \A i \in DOMAIN Plan : Plan[i] \in Handlers
      /\ \A i, j \in DOMAIN Plan : Plan[i] = Plan[j] => i = j
      /\ DOMAIN Plan = 1..Len(Plan) /\ Len(Plan) \in Nat /\ at[e] \in DOMAIN Plan
    BY AtHandler, WiringFacts
<1>3. Here(e)' = <<e, h>>
    BY <1>1 DEF Here
<1>4. \A k \in Handlers : copy'[<<e, k>>] # "none" \/ <<e, k>> \in notices' =>
          \E i \in DOMAIN Plan : i <= at[e] /\ k = Plan[i]
    <2> SUFFICES ASSUME NEW k \in Handlers, k # h, copy'[<<e, k>>] # "none" \/ <<e, k>> \in notices'
                 PROVE  \E i \in DOMAIN Plan : i <= at[e] /\ k = Plan[i]
        BY <1>2
    <2> QED
        BY DEF PlaceOf
<1>5. \A i \in DOMAIN Plan : i < at[e] /\ Plan[i] \in Critical => copy'[<<e, Plan[i]>>] = "done"
    <2> TAKE i \in DOMAIN Plan
    <2> HAVE i < at[e] /\ Plan[i] \in Critical
    <2>1. copy[<<e, Plan[i]>>] = "done" /\ Plan[i] # h /\ Plan[i] \in Handlers
        BY <1>2 DEF PlaceOf
    <2> QED
        BY <2>1
<1>6. ~closed => \A i \in DOMAIN Plan :
          i <= Passed(e)' /\ Plan[i] \notin Critical => copy'[<<e, Plan[i]>>] # "none"
    <2> SUFFICES ASSUME ~closed, NEW i \in DOMAIN Plan, i <= Passed(e)', Plan[i] \notin Critical
                 PROVE  copy'[<<e, Plan[i]>>] # "none"
        OBVIOUS
    <2>1. i < at[e]
        <3>1. CASE stage'[e] = "answered"
            BY <1>2, <3>1 DEF Passed
        <3>2. CASE stage'[e] # "answered"
            BY <1>2, <3>2 DEF Passed
        <3> QED
            BY <3>1, <3>2
    <2>2. copy[<<e, Plan[i]>>] # "none" /\ Plan[i] # h /\ Plan[i] \in Handlers
        BY <1>2, <2>1 DEF PlaceOf, Passed
    <2> QED
        BY <2>2
<1> QED
    BY <1>1, <1>3, <1>4, <1>5, <1>6 DEF PlaceOf

(* What an Emit's step does to the other events: their copies wait, or the  *)
(* oldest one is dropped.                                                   *)
LEMMA OthersAreCalm ==
    ASSUME BusTypes, QueueBooks, Places, NEW e \in Events, [BusNext]_busVars,
           \/ Emit(e) \/ GiveUp(e) \/ Check(e) \/ SendCritical(e) \/ Reply(e) \/ RunnerGone(e)
           \/ DirectSettle(e) \/ SendAsync(e) \/ Full(e) \/ DropOldest(e) \/ SecondRefusal(e)
    PROVE  /\ closed' = closed
           /\ \A g \in Events : g # e =>
                /\ stage'[g] = stage[g] /\ at'[g] = at[g] /\ Calm(g)
                /\ \A k \in Handlers : <<g, k>> \in notices' <=> <<g, k>> \in notices
<1>0. wiring' = wiring /\ Plan[at[e]] \in Handlers
    BY WiredOnce, AtHandler
<1>1. closed' = closed
    <2>1. CASE Emit(e) \/ GiveUp(e) \/ Check(e) \/ SendCritical(e) \/ Reply(e)
        BY <2>1 DEF Emit, GiveUp, Check, SendCritical, Reply, runner
    <2>2. CASE RunnerGone(e) \/ DirectSettle(e) \/ SendAsync(e) \/ Full(e)
               \/ DropOldest(e) \/ SecondRefusal(e)
        BY <2>2 DEF RunnerGone, DirectSettle, SendAsync, Full, DropOldest, SecondRefusal, runner
    <2> QED
        BY <2>1, <2>2
<1>2. NextHandler(e) \/ (\E a \in {"ok", "error"} : Answer(e, a)) \/ (\E s \in Stages : EmitAt(e, s))
    <2>1. {"submit", "send", "await", "direct", "drop", "again"} \subseteq Stages
        BY DEF Stages
    <2>2. CASE Emit(e) \/ GiveUp(e) \/ Check(e) \/ SendCritical(e) \/ Reply(e) \/ RunnerGone(e)
        BY <2>1, <2>2 DEF Emit, GiveUp, Check, SendCritical, Reply, RunnerGone
    <2>3. CASE DirectSettle(e) \/ SendAsync(e) \/ Full(e) \/ DropOldest(e) \/ SecondRefusal(e)
        BY <2>1, <2>3 DEF DirectSettle, SendAsync, Full, DropOldest, SecondRefusal
    <2> QED
        BY <2>2, <2>3
<1>3. \A g \in Events : g # e => stage'[g] = stage[g] /\ at'[g] = at[g]
    BY <1>0, <1>2, CallerMoves
<1>4. \A g \in Events, k \in Handlers : g # e => (<<g, k>> \in notices' <=> <<g, k>> \in notices)
    <2>1. CASE Emit(e) \/ GiveUp(e) \/ Check(e) \/ SendCritical(e) \/ Reply(e) \/ RunnerGone(e)
        BY <2>1 DEF Emit, GiveUp, Check, SendCritical, Reply, RunnerGone
    <2>2. CASE DirectSettle(e) \/ SendAsync(e) \/ Full(e) \/ SecondRefusal(e)
        BY <2>2 DEF DirectSettle, SendAsync, Full, SecondRefusal
    <2>3. CASE DropOldest(e)
        BY <2>3 DEF DropOldest
    <2> QED
        BY <2>1, <2>2, <2>3
<1>5. ASSUME NEW h \in Handlers, NEW v \in CopyStates, copy' = [copy EXCEPT ![<<e, h>>] = v]
      PROVE  \A g \in Events : g # e => Calm(g)
    BY <1>5, CopyElsewhere DEF Calm
<1>6. ASSUME copy' = copy PROVE \A g \in Events : Calm(g)
    BY <1>6 DEF Calm
<1>7. \A g \in Events : g # e => Calm(g)
    <2>1. CASE Emit(e) \/ GiveUp(e) \/ Reply(e) \/ RunnerGone(e) \/ DirectSettle(e) \/ Full(e)
        BY <1>6, <2>1 DEF Emit, GiveUp, Reply, RunnerGone, DirectSettle, Full
    <2>2. CASE Check(e) \/ SendCritical(e) \/ SendAsync(e) \/ SecondRefusal(e)
        <3>1. copy' = copy \/ \E v \in {"refused", "queued", "parked", "unparked"} :
                                copy' = [copy EXCEPT ![<<e, Plan[at[e]]>>] = v]
            <4>1. CASE Check(e)
                BY <4>1 DEF Check
            <4>2. CASE SendCritical(e) \/ SendAsync(e)
                BY <4>2 DEF SendCritical, SendAsync, Append1
            <4>3. CASE SecondRefusal(e)
                BY <4>3 DEF SecondRefusal
            <4> QED
                BY <2>2, <4>1, <4>2, <4>3
        <3>2. {"refused", "queued", "parked", "unparked"} \subseteq CopyStates
            BY DEF CopyStates, Waiting, Fates
        <3> QED
            BY <1>0, <1>5, <1>6, <3>1, <3>2
    <2>3. CASE DropOldest(e)
        <3>1. PICK h \in Handlers : h = Plan[at[e]]
            BY <1>0
        <3>2. CASE queue[h] = <<>>
            BY <1>6, <2>3, <3>1, <3>2 DEF DropOldest, Oldest
        <3>3. CASE queue[h] # <<>>
            <4>1. /\ queue' = [queue EXCEPT ![h] = Tail(@)] /\ "dropped" \in CopyStates \ {"queued"}
                  /\ copy' = [copy EXCEPT ![<<Head(queue[h]), h>>] = "dropped"]
                BY <2>3, <3>1, <3>3 DEF DropOldest, Oldest, CopyStates, Waiting, Fates
            <4>2. Head(queue[h]) \in Events /\ copy[<<Head(queue[h]), h>>] = "queued"
                BY <1>0, <3>3, <4>1, DequeueKeepsQueues
            <4>3. PICK x \in Events : x = Head(queue[h])
                BY <4>2
            <4>4. copy'[<<x, h>>] = "dropped" /\ copy[<<x, h>>] = "queued"
                BY <4>1, <4>2, <4>3, CopyAt
            <4>5. \A g \in Events, k \in Handlers : g # x \/ k # h => copy'[<<g, k>>] = copy[<<g, k>>]
                BY <4>1, <4>3, CopyElsewhere
            <4> QED
                BY <4>4, <4>5 DEF Calm
        <3> QED
            BY <3>2, <3>3
    <2> QED
        BY <2>1, <2>2, <2>3
<1> QED
    BY <1>1, <1>3, <1>4, <1>7

(* What the workers and Stop do to the events: their copies move on.         *)
LEMMA WorkersAreCalm ==
    ASSUME BusTypes, QueueBooks,
           \/ UNCHANGED busVars
           \/ \E e \in Events, h \in Handlers :
                Handle(e, h) \/ StartHandler(e, h) \/ Collect(e, h) \/ TimeOut(e, h)
           \/ \E h \in Handlers : Take(h) \/ Exit(h)
           \/ Stop \/ Drained \/ DrainTimesOut \/ Stopped \/ \E h \in Registered : CancelRunner(h)
    PROVE  UNCHANGED <<stage, at, verdict, notices>> /\ (closed => closed') /\ \A g \in Events : Calm(g)
<1>1. ASSUME UNCHANGED copy PROVE \A g \in Events : Calm(g)
    BY <1>1 DEF Calm
<1>2. ASSUME NEW e \in Events, NEW h \in Handlers, NEW v \in CopyStates,
             copy' = [copy EXCEPT ![<<e, h>>] = v], copy[<<e, h>>] \notin {"none", "done"},
             v \notin {"none", "refused"}
      PROVE  \A g \in Events : Calm(g)
    <2>1. copy'[<<e, h>>] = v
        BY <1>2, CopyAt
    <2>2. \A g \in Events, k \in Handlers : g # e \/ k # h => copy'[<<g, k>>] = copy[<<g, k>>]
        BY <1>2, CopyElsewhere
    <2> SUFFICES ASSUME NEW g \in Events, NEW k \in Handlers
                 PROVE  \/ copy'[<<g, k>>] = copy[<<g, k>>]
                        \/ /\ copy[<<g, k>>] \notin {"none", "done"}
                           /\ copy'[<<g, k>>] \notin {"none", "refused"}
        BY DEF Calm
    <2>3. CASE g = e /\ k = h
        BY <1>2, <2>1, <2>3
    <2>4. CASE g # e \/ k # h
        BY <2>2, <2>4
    <2> QED
        BY <2>3, <2>4
<1>3. CASE UNCHANGED busVars
    BY <1>1, <1>3 DEF busVars
<1>4. CASE (\E e \in Events, h \in Handlers : Handle(e, h)) \/ \E h \in Handlers : Exit(h)
    <2>1. UNCHANGED <<stage, at, verdict, notices, copy, closed>>
        BY <1>4 DEF Handle, Exit, fabric, caller, runner
    <2> QED
        BY <1>1, <2>1
<1>5. CASE Stop \/ Drained \/ DrainTimesOut \/ Stopped \/ \E h \in Registered : CancelRunner(h)
    <2>1. UNCHANGED <<stage, at, verdict, notices, copy>> /\ (closed => closed')
        BY <1>5 DEF Stop, Drained, DrainTimesOut, Stopped, CancelRunner, fabric, caller
    <2> QED
        BY <1>1, <2>1
<1>6. ASSUME NEW h \in Handlers, Take(h)
      PROVE  UNCHANGED <<stage, at, verdict, notices, closed>> /\ \A g \in Events : Calm(g)
    <2>1. /\ queue[h] # <<>> /\ queue' = [queue EXCEPT ![h] = Tail(@)]
          /\ "taken" \in CopyStates \ {"queued"} /\ copy' = [copy EXCEPT ![<<Head(queue[h]), h>>] = "taken"]
          /\ UNCHANGED <<stage, at, verdict, notices, closed, wiring>>
        BY <1>6 DEF Take, CopyStates, Waiting, Fates, caller, runner
    <2>2. Head(queue[h]) \in Events /\ copy[<<Head(queue[h]), h>>] = "queued"
        BY <2>1, DequeueKeepsQueues
    <2>3. \A g \in Events : Calm(g)
        BY <1>2, <2>1, <2>2
    <2> QED
        BY <2>1, <2>3
<1>7. ASSUME NEW e \in Events, NEW h \in Handlers,
             StartHandler(e, h) \/ Collect(e, h) \/ TimeOut(e, h)
      PROVE  UNCHANGED <<stage, at, verdict, notices, closed>> /\ \A g \in Events : Calm(g)
    <2>1. copy[<<e, h>>] \in {"taken", "running"} /\ UNCHANGED <<stage, at, verdict, notices, closed>>
        BY <1>7 DEF StartHandler, Collect, TimeOut, Conclude, caller, runner
    <2>2. \E v \in {"running", "done", "parked", "unparked"} : copy' = [copy EXCEPT ![<<e, h>>] = v]
        BY <1>7 DEF StartHandler, Collect, TimeOut, Conclude
    <2>3. {"running", "done", "parked", "unparked"} \subseteq CopyStates
        BY DEF CopyStates, Waiting, Fates
    <2>4. \A g \in Events : Calm(g)
        BY <1>2, <2>1, <2>2, <2>3
    <2> QED
        BY <2>1, <2>4
<1> QED
    BY <1>3, <1>4, <1>5, <1>6, <1>7

LEMMA PlacesKept ==
    ASSUME BusTypes, QueueBooks, Places, Truth, [BusNext]_busVars
    PROVE  Places'
<1>0. wiring' = wiring /\ Plan' = Plan /\ Critical' = Critical
    BY WiredOnce DEF Plan, Critical
<1>a. \A e \in Events : PlaceOf(e)
    BY DEF Places
<1>1. ASSUME UNCHANGED <<stage, at, notices>>, closed => closed', \A g \in Events : Calm(g)
      PROVE  Places'
    BY <1>0, <1>a, <1>1, PlaceStays DEF Places
<1>7. ASSUME NEW e \in Events,
             \/ Emit(e) \/ GiveUp(e) \/ Check(e) \/ SendCritical(e) \/ Reply(e) \/ RunnerGone(e)
             \/ DirectSettle(e) \/ SendAsync(e) \/ Full(e) \/ DropOldest(e) \/ SecondRefusal(e),
             PlaceOf(e)'
      PROVE  Places'
    <2>1. \A g \in Events : g # e => PlaceOf(g)'
        BY <1>0, <1>a, <1>7, OthersAreCalm, PlaceStays
    <2> QED
        BY <1>7, <2>1 DEF Places
<1>8. ASSUME NEW e \in Events,
             \/ Emit(e) \/ GiveUp(e) \/ Check(e) \/ SendCritical(e) \/ Reply(e) \/ RunnerGone(e)
             \/ DirectSettle(e) \/ SendAsync(e) \/ Full(e) \/ DropOldest(e) \/ SecondRefusal(e)
      PROVE  PlaceOf(e)'
    <2>0. closed' = closed
        BY <1>8, OthersAreCalm
    <2>1. PICK h \in Handlers : h = Plan[at[e]]
        BY AtHandler
    <2>2. /\ stage[e] \in {"new", "submit", "send", "drop", "again"} => copy[<<e, h>>] = "none"
          /\ stage[e] \in {"new", "submit", "send", "drop"} => <<e, h>> \notin notices
          /\ stage[e] = "await" => h \in Critical
          /\ stage[e] = "direct" => closed \/ h \in Critical
          /\ stage[e] \in {"drop", "again"} => h \notin Critical
        BY <1>a, <2>1 DEF PlaceOf, Here
    <2>s. {"submit", "send", "await", "direct", "drop", "again"} \subseteq Stages
        BY DEF Stages
    <2>3. CASE Emit(e)
        <3>1. stage[e] = "new" /\ UNCHANGED <<copy, notices>>
              /\ EmitAt(e, IF closed THEN "direct" ELSE "submit")
            BY <2>3 DEF Emit
        <3>2. at' = at /\ stage'[e] = IF closed THEN "direct" ELSE "submit"
            BY <1>0, <2>s, <3>1, CallerMoves
        <3> QED
            BY <1>0, <1>a, <2>0, <2>1, <2>2, <3>1, <3>2, PlaceMovesHere
    <2>4. CASE GiveUp(e)
        <3>1. stage[e] \in {"send", "await"} /\ h \in Critical /\ UNCHANGED <<copy, notices>> /\ Answer(e, "error")
            BY <2>1, <2>4 DEF GiveUp
        <3>2. at' = at /\ stage'[e] = "answered"
            BY <1>0, <3>1, CallerMoves
        <3> QED
            BY <1>0, <1>a, <2>0, <2>1, <2>2, <3>1, <3>2, PlaceMovesHere
    <2>5. CASE Check(e)
        <3>0. stage[e] = "submit" /\ notices' = notices
            BY <2>5 DEF Check
        <3>1. CASE ~closed \/ h \in Critical
            <4>1. copy' = copy /\ EmitAt(e, IF closed THEN "direct" ELSE "send")
                BY <2>1, <2>5, <3>1 DEF Check
            <4>2. at' = at /\ stage'[e] = IF closed THEN "direct" ELSE "send"
                BY <1>0, <2>s, <4>1, CallerMoves
            <4> QED
                BY <1>0, <1>a, <2>0, <2>1, <2>2, <3>0, <3>1, <4>1, <4>2, PlaceMovesHere
        <3>2. CASE closed /\ h \notin Critical
            <4>1. NextHandler(e) /\ copy' = [copy EXCEPT ![<<e, h>>] = "refused"] /\ "refused" \in CopyStates
                BY <2>1, <2>5, <3>2 DEF Check, CopyStates, Fates
            <4>2. copy'[<<e, h>>] = "refused"
                BY <4>1, CopyAt
            <4>3. \A k \in Handlers : k # h => copy'[<<e, k>>] = copy[<<e, k>>]
                BY <4>1, CopyElsewhere
            <4> QED
                BY <1>0, <1>a, <2>0, <2>1, <3>0, <3>2, <4>1, <4>2, <4>3, PlaceMovesOn
        <3> QED
            BY <3>1, <3>2
    <2>6. CASE SendCritical(e)
        <3>1. /\ stage[e] = "send" /\ h \in Critical /\ notices' = notices /\ EmitAt(e, "await")
              /\ copy' = [copy EXCEPT ![<<e, h>>] = "queued"] /\ "queued" \in CopyStates
            BY <2>1, <2>6 DEF SendCritical, Append1, CopyStates, Waiting
        <3>2. at' = at /\ stage'[e] = "await"
            BY <1>0, <2>s, <3>1, CallerMoves
        <3>3. \A k \in Handlers : k # h => copy'[<<e, k>>] = copy[<<e, k>>]
            BY <3>1, CopyElsewhere
        <3> QED
            BY <1>0, <1>a, <2>0, <2>1, <2>2, <3>1, <3>2, <3>3, PlaceMovesHere
    <2>7. CASE Reply(e)
        <3>0. stage[e] = "await" /\ h \in Critical /\ copy' = copy /\ notices' = notices
            BY <2>2, <2>7 DEF Reply
        <3>1. CASE reply[e] = "ok"
            <4>1. NextHandler(e) /\ copy[<<e, h>>] = "done"
                BY <2>1, <2>7, <3>0, <3>1 DEF Reply, Truth, Here
            <4> QED
                BY <1>0, <1>a, <2>0, <2>1, <3>0, <4>1, PlaceMovesOn
        <3>2. CASE reply[e] # "ok"
            <4>1. Answer(e, "error")
                BY <2>7, <3>2 DEF Reply
            <4>2. at' = at /\ stage'[e] = "answered"
                BY <1>0, <4>1, CallerMoves
            <4> QED
                BY <1>0, <1>a, <2>0, <2>1, <3>0, <4>2, PlaceMovesHere
        <3> QED
            BY <3>1, <3>2
    <2>8. CASE RunnerGone(e)
        <3>1. stage[e] \in {"send", "await"} /\ h \in Critical /\ UNCHANGED <<copy, notices>> /\ EmitAt(e, "direct")
            BY <2>1, <2>8 DEF RunnerGone
        <3>2. at' = at /\ stage'[e] = "direct"
            BY <1>0, <2>s, <3>1, CallerMoves
        <3> QED
            BY <1>0, <1>a, <2>0, <2>1, <2>2, <3>1, <3>2, PlaceMovesHere
    <2>9. CASE DirectSettle(e)
        <3>1. stage[e] = "direct" /\ UNCHANGED <<copy, notices>> /\ \E a \in {"ok", "error"} : Answer(e, a)
            BY <2>9 DEF DirectSettle
        <3>2. at' = at /\ stage'[e] = "answered"
            BY <1>0, <3>1, CallerMoves
        <3> QED
            BY <1>0, <1>a, <2>0, <2>1, <2>2, <3>1, <3>2, PlaceMovesHere
    <2>10. CASE SendAsync(e)
        <3>1. /\ stage[e] \in {"send", "again"} /\ h \notin Critical /\ notices' = notices /\ NextHandler(e)
              /\ copy' = [copy EXCEPT ![<<e, h>>] = "queued"] /\ "queued" \in CopyStates
            BY <2>1, <2>10 DEF SendAsync, Append1, CopyStates, Waiting
        <3>2. copy'[<<e, h>>] = "queued"
            BY <3>1, CopyAt
        <3>3. \A k \in Handlers : k # h => copy'[<<e, k>>] = copy[<<e, k>>]
            BY <3>1, CopyElsewhere
        <3> QED
            BY <1>0, <1>a, <2>0, <2>1, <3>1, <3>2, <3>3, PlaceMovesOn
    <2>11. CASE Full(e)
        <3>1. stage[e] = "send" /\ h \notin Critical /\ UNCHANGED <<copy, notices>> /\ EmitAt(e, "drop")
            BY <2>1, <2>11 DEF Full
        <3>2. at' = at /\ stage'[e] = "drop"
            BY <1>0, <2>s, <3>1, CallerMoves
        <3> QED
            BY <1>0, <1>a, <2>0, <2>1, <2>2, <3>1, <3>2, PlaceMovesHere
    <2>12. CASE DropOldest(e)
        <3>1. stage[e] = "drop" /\ EmitAt(e, "again") /\ notices' = notices \cup {<<e, h>>} /\ Oldest(h)
            BY <2>1, <2>12 DEF DropOldest
        <3>2. at' = at /\ stage'[e] = "again"
            BY <1>0, <2>s, <3>1, CallerMoves
        <3>3. copy'[<<e, h>>] = "none" /\ \A k \in Handlers : k # h => copy'[<<e, k>>] = copy[<<e, k>>]
            <4>1. CASE queue[h] = <<>>
                BY <2>2, <3>1, <4>1 DEF Oldest
            <4>2. CASE queue[h] # <<>>
                <5>1. /\ queue' = [queue EXCEPT ![h] = Tail(@)] /\ "dropped" \in CopyStates \ {"queued"}
                      /\ copy' = [copy EXCEPT ![<<Head(queue[h]), h>>] = "dropped"]
                    BY <3>1, <4>2 DEF Oldest, CopyStates, Waiting, Fates
                <5>2. Head(queue[h]) \in Events /\ copy[<<Head(queue[h]), h>>] = "queued"
                    BY <1>0, <4>2, <5>1, DequeueKeepsQueues
                <5>3. PICK x \in Events : x = Head(queue[h])
                    BY <5>2
                <5>4. x # e
                    BY <2>2, <3>1, <5>2, <5>3
                <5>5. \A g \in Events, k \in Handlers : g # x \/ k # h => copy'[<<g, k>>] = copy[<<g, k>>]
                    BY <5>1, <5>3, CopyElsewhere
                <5> QED
                    BY <2>2, <3>1, <5>4, <5>5
            <4> QED
                BY <4>1, <4>2
        <3> QED
            BY <1>0, <1>a, <2>0, <2>1, <2>2, <3>1, <3>2, <3>3, PlaceMovesHere
    <2>13. CASE SecondRefusal(e)
        <3>0. stage[e] = "again" /\ notices' = notices /\ NextHandler(e)
            BY <2>13 DEF SecondRefusal
        <3>1. PICK v \in {"parked", "unparked"} : copy' = [copy EXCEPT ![<<e, h>>] = v]
            BY <2>1, <2>13 DEF SecondRefusal
        <3>2. v \in CopyStates /\ v # "none"
            BY <3>1 DEF CopyStates, Fates
        <3>3. copy'[<<e, h>>] = v
            BY <3>1, <3>2, CopyAt
        <3>4. \A k \in Handlers : k # h => copy'[<<e, k>>] = copy[<<e, k>>]
            BY <3>1, <3>2, CopyElsewhere
        <3> QED
            BY <1>0, <1>a, <2>0, <2>1, <2>2, <3>0, <3>2, <3>3, <3>4, PlaceMovesOn
    <2> QED
        BY <1>8, <2>3, <2>4, <2>5, <2>6, <2>7, <2>8, <2>9, <2>10, <2>11, <2>12, <2>13
<1> QED
    BY <1>1, <1>7, <1>8, WorkersAreCalm, BusSteps

(* What the bus says it did, it did.                                        *)
LEMMA TruthKept ==
    ASSUME BusTypes, QueueBooks, Places, Truth, [BusNext]_busVars
    PROVE  Truth'
<1>0. wiring' = wiring /\ Plan' = Plan /\ Critical' = Critical
    BY WiredOnce DEF Plan, Critical
<1>a. \A e \in Events : PlaceOf(e)
    BY DEF Places
<1>b. \A p \in BusPairs : work[p] = "ok" \/ copy[p] = "done" => p \in handled
    BY DEF Truth
<1>c. \A e \in Events, h \in Handlers : <<e, h>> \in BusPairs
    BY DEF BusPairs
<1>1. handled \subseteq handled'
    <2>1. CASE UNCHANGED busVars
        BY <2>1 DEF busVars
    <2>2. CASE \E e \in Events : Emit(e) \/ GiveUp(e) \/ Check(e) \/ SendCritical(e) \/ Reply(e)
        BY <2>2 DEF Emit, GiveUp, Check, SendCritical, Reply
    <2>3. CASE \E e \in Events : RunnerGone(e) \/ DirectSettle(e) \/ SendAsync(e) \/ Full(e)
                                 \/ DropOldest(e) \/ SecondRefusal(e)
        BY <2>3 DEF RunnerGone, DirectSettle, SendAsync, Full, DropOldest, SecondRefusal
    <2>4. CASE \E e \in Events, h \in Handlers :
                 Handle(e, h) \/ StartHandler(e, h) \/ Collect(e, h) \/ TimeOut(e, h)
        BY <2>4 DEF Handle, StartHandler, Collect, TimeOut, Conclude
    <2>5. CASE (\E h \in Handlers : Take(h) \/ Exit(h)) \/ \E h \in Registered : CancelRunner(h)
        BY <2>5 DEF Take, Exit, CancelRunner, fabric
    <2>6. CASE Stop \/ Drained \/ DrainTimesOut \/ Stopped
        BY <2>6 DEF Stop, Drained, DrainTimesOut, Stopped, fabric
    <2> QED
        BY <2>1, <2>2, <2>3, <2>4, <2>5, <2>6, BusSteps
<1>2. ASSUME NEW p \in BusPairs, work'[p] = "ok" PROVE p \in handled'
    <2>1. CASE work'[p] = work[p]
        BY <1>1, <1>2, <1>b, <2>1
    <2>2. ASSUME NEW e \in Events, NEW h \in Handlers, Handle(e, h) PROVE p \in handled'
        <3>1. PICK ok \in BOOLEAN, committed \in BOOLEAN :
                /\ ok => committed
                /\ work' = [work EXCEPT ![<<e, h>>] = IF ok THEN "ok" ELSE "failed"]
                /\ handled' = IF committed THEN handled \cup {<<e, h>>} ELSE handled
            BY <2>2 DEF Handle
        <3>2. CASE p = <<e, h>>
            <4>1. work'[p] = IF ok THEN "ok" ELSE "failed"
                BY <3>1, <3>2 DEF BusTypes
            <4> QED
                BY <1>2, <3>1, <3>2, <4>1
        <3>3. CASE p # <<e, h>>
            BY <2>1, <3>1, <3>3 DEF BusTypes
        <3> QED
            BY <3>2, <3>3
    <2>3. ASSUME NEW e \in Events, NEW h \in Handlers, StartHandler(e, h) PROVE p \in handled'
        <3>1. work' = [work EXCEPT ![<<e, h>>] = "running"]
            BY <2>3 DEF StartHandler
        <3> QED
            BY <1>2, <2>1, <3>1 DEF BusTypes
    <2>4. \/ work' = work
          \/ \E e \in Events, h \in Handlers : Handle(e, h) \/ StartHandler(e, h)
        <3>1. CASE UNCHANGED busVars
            BY <3>1 DEF busVars
        <3>2. CASE \E e \in Events : Emit(e) \/ GiveUp(e) \/ Check(e) \/ SendCritical(e) \/ Reply(e)
            BY <3>2 DEF Emit, GiveUp, Check, SendCritical, Reply
        <3>3. CASE \E e \in Events : RunnerGone(e) \/ DirectSettle(e) \/ SendAsync(e) \/ Full(e)
                                     \/ DropOldest(e) \/ SecondRefusal(e)
            BY <3>3 DEF RunnerGone, DirectSettle, SendAsync, Full, DropOldest, SecondRefusal
        <3>4. CASE \E e \in Events, h \in Handlers : Collect(e, h) \/ TimeOut(e, h)
            BY <3>4 DEF Collect, TimeOut, Conclude
        <3>5. CASE (\E h \in Handlers : Take(h) \/ Exit(h)) \/ \E h \in Registered : CancelRunner(h)
            BY <3>5 DEF Take, Exit, CancelRunner, fabric
        <3>6. CASE Stop \/ Drained \/ DrainTimesOut \/ Stopped
            BY <3>6 DEF Stop, Drained, DrainTimesOut, Stopped, fabric
        <3> QED
            BY <3>1, <3>2, <3>3, <3>4, <3>5, <3>6, BusSteps
    <2> QED
        BY <2>1, <2>2, <2>3, <2>4
<1>3. ASSUME NEW e \in Events, NEW h \in Handlers, NEW v \in CopyStates,
             copy' = [copy EXCEPT ![<<e, h>>] = v], v # "done" \/ <<e, h>> \in handled
      PROVE  \A p \in BusPairs : copy'[p] = "done" => p \in handled'
    <2>1. \A p \in BusPairs : copy'[p] = IF p = <<e, h>> THEN v ELSE copy[p]
        BY <1>3, CopyMoves
    <2> QED
        BY <1>1, <1>3, <1>b, <2>1
<1>4. \A p \in BusPairs : copy'[p] = "done" => p \in handled'
    <2>1. CASE Untouched
        BY <1>1, <1>b, <2>1 DEF Untouched
    <2>2. ASSUME NEW e \in Events, NEW h \in Handlers, Enqueued(e, h)
          PROVE  \A p \in BusPairs : copy'[p] = "done" => p \in handled'
        <3>1. copy' = [copy EXCEPT ![<<e, h>>] = "queued"] /\ "queued" \in CopyStates
            BY <2>2 DEF Enqueued, Append1, CopyStates, Waiting
        <3> QED
            BY <1>3, <3>1
    <2>3. ASSUME NEW h \in Handlers, NEW v \in {"taken", "dropped"}, Dequeued(h, v)
          PROVE  \A p \in BusPairs : copy'[p] = "done" => p \in handled'
        <3>1. Head(queue[h]) \in Events
            BY <2>3, QueueShrinks DEF Dequeued
        <3>2. copy' = [copy EXCEPT ![<<Head(queue[h]), h>>] = v] /\ v \in CopyStates /\ v # "done"
            BY <2>3 DEF Dequeued, CopyStates, Waiting, Fates
        <3> QED
            BY <1>3, <3>1, <3>2
    <2>4. ASSUME NEW e \in Events, NEW h \in Handlers,
                 NEW v \in {"refused", "parked", "unparked", "running"}, copy' = [copy EXCEPT ![<<e, h>>] = v]
          PROVE  \A p \in BusPairs : copy'[p] = "done" => p \in handled'
        <3>1. v \in CopyStates /\ v # "done"
            BY DEF CopyStates, Waiting, Fates
        <3> QED
            BY <1>3, <2>4, <3>1
    <2>5. ASSUME NEW e \in Events, NEW h \in Handlers, work[<<e, h>>] = "ok", Moved(e, h, {"running"}, {"done"})
          PROVE  \A p \in BusPairs : copy'[p] = "done" => p \in handled'
        <3>1. copy' = [copy EXCEPT ![<<e, h>>] = "done"] /\ "done" \in CopyStates
            BY <2>5 DEF Moved, CopyStates, Fates
        <3>2. <<e, h>> \in handled
            BY <1>b, <1>c, <2>5
        <3> QED
            BY <1>3, <3>1, <3>2
    <2>6. ASSUME NEW e \in Events, NEW h \in Handlers,
                 \/ Moved(e, h, {"none"}, {"refused", "parked", "unparked"})
                 \/ Moved(e, h, {"taken"}, {"running"})
                 \/ Moved(e, h, {"running"}, {"parked", "unparked"})
          PROVE  \A p \in BusPairs : copy'[p] = "done" => p \in handled'
        BY <2>4, <2>6 DEF Moved
    <2> QED
        BY <2>1, <2>2, <2>3, <2>5, <2>6, CopiesMove
<1>5. ASSUME NEW e \in Events,
             \/ Emit(e) \/ GiveUp(e) \/ Check(e) \/ SendCritical(e) \/ Reply(e) \/ RunnerGone(e)
             \/ DirectSettle(e) \/ SendAsync(e) \/ Full(e) \/ DropOldest(e) \/ SecondRefusal(e)
      PROVE  /\ stage'[e] = "await" => reply'[e] = "none"
             /\ \A g \in Events : g # e => reply'[g] = reply[g] /\ verdict'[g] = verdict[g]
             /\ verdict'[e] = "ok" => verdict[e] = "ok" \/ {e} \X Critical \subseteq handled'
             /\ \A p \in BusPairs : copy'[p] = "refused" => copy[p] = "refused" \/ closed
    <2>0. PICK h \in Handlers : h = Plan[at[e]] /\ at[e] \in DOMAIN Plan
        BY AtHandler
    <2>s. {"submit", "send", "await", "direct", "drop", "again"} \subseteq Stages
        BY DEF Stages
    <2>1. ASSUME NextHandler(e), h \in Critical => copy[<<e, h>>] = "done"
          PROVE  /\ stage'[e] # "await"
                 /\ \A g \in Events : g # e => verdict'[g] = verdict[g]
                 /\ verdict'[e] = "ok" => verdict[e] = "ok" \/ {e} \X Critical \subseteq handled'
        <3>1. /\ \A g \in Events : g # e => verdict'[g] = verdict[g]
              /\ \/ at[e] = Len(Plan) /\ stage'[e] = "answered"
                 \/ stage'[e] = "submit" /\ verdict'[e] = verdict[e]
            BY <1>0, <2>1, CallerMoves
        <3>2. ASSUME at[e] = Len(Plan), NEW k \in Critical PROVE <<e, k>> \in handled'
            <4>1. PICK i \in DOMAIN Plan : k = Plan[i]
                BY WiringFacts
            <4>2. i <= Len(Plan) /\ i \in Nat /\ Len(Plan) \in Nat /\ k \in Handlers
                BY <4>1, WiringFacts
            <4>3. copy[<<e, k>>] = "done"
                <5>1. CASE i = at[e]
                    BY <2>0, <2>1, <4>1, <5>1
                <5>2. CASE i < at[e]
                    BY <1>a, <4>1, <5>2 DEF PlaceOf
                <5> QED
                    BY <3>2, <4>2, <5>1, <5>2
            <4> QED
                BY <1>1, <1>b, <1>c, <4>2, <4>3
        <3> QED
            BY <3>1, <3>2
    <2>2. CASE Emit(e) \/ Full(e) \/ DropOldest(e) \/ RunnerGone(e)
        <3>1. UNCHANGED reply /\ (EmitAt(e, "direct") \/ EmitAt(e, "submit") \/ EmitAt(e, "drop") \/ EmitAt(e, "again"))
            BY <2>2 DEF Emit, Full, DropOldest, RunnerGone
        <3>2. verdict' = verdict /\ stage'[e] # "await"
            BY <1>0, <2>s, <3>1, CallerMoves
        <3>3. \A p \in BusPairs : copy'[p] = "refused" => copy[p] = "refused"
            <4>1. CASE copy' = copy
                BY <4>1
            <4>2. ASSUME queue[h] # <<>>, copy' = [copy EXCEPT ![<<Head(queue[h]), h>>] = "dropped"],
                         queue' = [queue EXCEPT ![h] = Tail(@)]
                  PROVE  \A p \in BusPairs : copy'[p] = "refused" => copy[p] = "refused"
                <5>1. Head(queue[h]) \in Events /\ "dropped" \in CopyStates
                    BY <4>2, QueueShrinks DEF CopyStates, Fates
                <5>2. \A p \in BusPairs : copy'[p] = IF p = <<Head(queue[h]), h>> THEN "dropped" ELSE copy[p]
                    BY <4>2, <5>1, CopyMoves
                <5> QED
                    BY <5>2
            <4> QED
                BY <2>0, <2>2, <4>1, <4>2 DEF Emit, Full, DropOldest, RunnerGone, Oldest
        <3> QED
            BY <3>1, <3>2, <3>3
    <2>3. CASE GiveUp(e) \/ (Reply(e) /\ reply[e] # "ok")
        <3>1. UNCHANGED <<reply, copy>> /\ Answer(e, "error")
            BY <2>3 DEF GiveUp, Reply
        <3>2. /\ stage'[e] = "answered" /\ verdict'[e] = "error"
              /\ \A g \in Events : g # e => verdict'[g] = verdict[g]
            BY <1>0, <3>1, CallerMoves
        <3> QED
            BY <3>1, <3>2
    <2>4. CASE Reply(e) /\ reply[e] = "ok"
        <3>1. UNCHANGED <<reply, copy>> /\ NextHandler(e) /\ copy[<<e, h>>] = "done"
            BY <2>0, <2>4 DEF Reply, Truth, Here
        <3> QED
            BY <2>1, <3>1
    <2>5. CASE Check(e)
        <3>1. UNCHANGED reply
            BY <2>5 DEF Check
        <3>2. CASE ~closed \/ h \in Critical
            <4>1. copy' = copy /\ (EmitAt(e, "send") \/ EmitAt(e, "direct"))
                BY <2>0, <2>5, <3>2 DEF Check
            <4>2. verdict' = verdict /\ stage'[e] # "await"
                BY <1>0, <2>s, <4>1, CallerMoves
            <4> QED
                BY <3>1, <4>1, <4>2
        <3>3. CASE closed /\ h \notin Critical
            <4>1. NextHandler(e)
                BY <2>0, <2>5, <3>3 DEF Check
            <4> QED
                BY <2>1, <3>1, <3>3, <4>1
        <3> QED
            BY <3>2, <3>3
    <2>6. ASSUME NEW v \in CopyStates \ {"refused"}, copy' = [copy EXCEPT ![<<e, h>>] = v]
          PROVE  \A p \in BusPairs : copy'[p] = "refused" => copy[p] = "refused"
        <3>1. v \in CopyStates /\ v # "refused"
            OBVIOUS
        <3>2. \A p \in BusPairs : copy'[p] = IF p = <<e, h>> THEN v ELSE copy[p]
            BY <2>6, <3>1, CopyMoves
        <3> QED
            BY <3>1, <3>2
    <2>7. CASE SendCritical(e)
        <3>1. /\ EmitAt(e, "await") /\ reply' = [reply EXCEPT ![e] = "none"]
              /\ copy' = [copy EXCEPT ![<<e, h>>] = "queued"] /\ "queued" \in CopyStates \ {"refused"}
            BY <2>0, <2>7 DEF SendCritical, Append1, CopyStates, Waiting
        <3>2. verdict' = verdict
            BY <1>0, <2>s, <3>1, CallerMoves
        <3>3. reply'[e] = "none" /\ \A g \in Events : g # e => reply'[g] = reply[g]
            BY <3>1 DEF BusTypes
        <3>4. \A p \in BusPairs : copy'[p] = "refused" => copy[p] = "refused"
            BY <2>6, <3>1
        <3> QED
            BY <3>2, <3>3, <3>4
    <2>8. CASE DirectSettle(e)
        <3>1. UNCHANGED <<reply, copy>>
            BY <2>8 DEF DirectSettle
        <3>2. PICK ok \in BOOLEAN, committed \in BOOLEAN :
                /\ ok => committed
                /\ handled' = handled \cup (IF committed THEN {e} \X Critical ELSE {})
                /\ Answer(e, IF ok THEN "ok" ELSE "error")
            BY <2>8 DEF DirectSettle
        <3>3. /\ stage'[e] = "answered" /\ verdict'[e] = (IF ok THEN "ok" ELSE "error")
              /\ \A g \in Events : g # e => verdict'[g] = verdict[g]
            BY <1>0, <3>2, CallerMoves
        <3>4. ok => {e} \X Critical \subseteq handled'
            BY <3>2
        <3> QED
            BY <3>1, <3>3, <3>4
    <2>9. CASE SendAsync(e) \/ SecondRefusal(e)
        <3>1. /\ UNCHANGED reply /\ NextHandler(e) /\ h \notin Critical
              /\ \E v \in {"queued", "parked", "unparked"} : copy' = [copy EXCEPT ![<<e, h>>] = v]
            BY <1>a, <2>0, <2>9 DEF SendAsync, SecondRefusal, Append1, PlaceOf
        <3>2. {"queued", "parked", "unparked"} \subseteq CopyStates \ {"refused"}
            BY DEF CopyStates, Waiting, Fates
        <3>3. \A p \in BusPairs : copy'[p] = "refused" => copy[p] = "refused"
            BY <2>6, <3>1, <3>2
        <3> QED
            BY <2>1, <3>1, <3>3
    <2> QED
        BY <1>5, <2>2, <2>3, <2>4, <2>5, <2>7, <2>8, <2>9, Zenon
<1>6. ASSUME NEW e \in Events, NEW h \in Handlers, Collect(e, h) \/ TimeOut(e, h),
             stage[e] = "await", reply'[e] = "ok"
      PROVE  reply[e] = "ok" \/ copy'[Here(e)] = "done"
    <2>1. PICK ok \in BOOLEAN : Conclude(e, h, ok) /\ copy[<<e, h>>] = "running"
        BY <1>6 DEF Collect, TimeOut
    <2>2. CASE h \notin Critical
        BY <1>6, <2>1, <2>2 DEF Conclude
    <2>3. CASE h \in Critical
        <3>1. reply' = [reply EXCEPT ![e] = IF ok THEN "ok" ELSE "err"]
            BY <2>1, <2>3 DEF Conclude
        <3>2. ok
            BY <1>6, <3>1 DEF BusTypes
        <3>3. copy' = [copy EXCEPT ![<<e, h>>] = "done"] /\ "done" \in CopyStates
            BY <2>1, <3>2 DEF Conclude, CopyStates, Fates
        <3>4. PICK i \in DOMAIN Plan : i <= at[e] /\ h = Plan[i]
            BY <1>a, <2>1 DEF PlaceOf
        <3>5. ~(i < at[e])
            BY <1>a, <2>1, <2>3, <3>4 DEF PlaceOf
        <3>6. i = at[e]
            <4>1. at[e] \in Nat
                BY AtHandler
            <4>2. i \in Nat
                BY WiringFacts
            <4> QED
                BY <3>4, <3>5, <4>1, <4>2
        <3>7. copy'[<<e, h>>] = "done"
            BY <3>3, CopyAt
        <3> QED
            BY <3>4, <3>6, <3>7 DEF Here
    <2> QED
        BY <2>2, <2>3
<1>7. ASSUME NEW g \in Events, stage[g] = "await", reply[g] = "ok", Calm(g)
      PROVE  copy'[Here(g)] = "done"
    <2>1. Plan[at[g]] \in Handlers
        BY AtHandler
    <2>2. copy[<<g, Plan[at[g]]>>] = "done"
        BY <1>7 DEF Truth, Here
    <2> QED
        BY <1>7, <2>1, <2>2 DEF Calm, Here
<1>8. ASSUME NEW e \in Events,
             \/ Emit(e) \/ GiveUp(e) \/ Check(e) \/ SendCritical(e) \/ Reply(e) \/ RunnerGone(e)
             \/ DirectSettle(e) \/ SendAsync(e) \/ Full(e) \/ DropOldest(e) \/ SecondRefusal(e)
      PROVE  Truth'
    <2>1. /\ closed' = closed
          /\ \A g \in Events : g # e => stage'[g] = stage[g] /\ at'[g] = at[g] /\ Calm(g)
        BY <1>8, OthersAreCalm
    <2>2. \A g \in Events : g # e => reply'[g] = reply[g] /\ verdict'[g] = verdict[g]
        BY <1>5, <1>8
    <2>3. ASSUME NEW g \in Events, stage'[g] = "await", reply'[g] = "ok" PROVE copy'[Here(g)'] = "done"
        <3>1. g # e
            BY <1>5, <1>8, <2>3
        <3>2. stage[g] = "await" /\ reply[g] = "ok" /\ Calm(g) /\ at'[g] = at[g]
            BY <2>1, <2>2, <2>3, <3>1
        <3>3. Here(g)' = Here(g)
            BY <1>0, <3>2 DEF Here
        <3> QED
            BY <1>7, <3>2, <3>3
    <2>4. ASSUME NEW g \in Events, verdict'[g] = "ok" PROVE {g} \X Critical \subseteq handled'
        <3>1. verdict[g] = "ok" \/ {g} \X Critical \subseteq handled'
            BY <1>5, <1>8, <2>2, <2>4
        <3>2. verdict[g] = "ok" => {g} \X Critical \subseteq handled
            BY DEF Truth, OkMeansSettled
        <3> QED
            BY <1>1, <3>1, <3>2
    <2>5. ~closed' => \A p \in BusPairs : copy'[p] # "refused"
        BY <1>5, <1>8, <2>1 DEF Truth
    <2>6. \A p \in BusPairs : work'[p] = "ok" \/ copy'[p] = "done" => p \in handled'
        BY <1>2, <1>4
    <2> QED
        BY <1>0, <2>3, <2>4, <2>5, <2>6 DEF Truth, OkMeansSettled
<1>9. ASSUME \/ UNCHANGED busVars
             \/ \E e \in Events, h \in Handlers :
                  Handle(e, h) \/ StartHandler(e, h) \/ Collect(e, h) \/ TimeOut(e, h)
             \/ \E h \in Handlers : Take(h) \/ Exit(h)
             \/ Stop \/ Drained \/ DrainTimesOut \/ Stopped \/ \E h \in Registered : CancelRunner(h)
      PROVE  Truth'
    <2>1. UNCHANGED <<stage, at, verdict>> /\ (closed => closed') /\ \A g \in Events : Calm(g)
        BY <1>9, WorkersAreCalm
    <2>2. ASSUME NEW g \in Events, stage[g] = "await", reply'[g] = "ok"
          PROVE  reply[g] = "ok" \/ copy'[Here(g)] = "done"
        <3>1. CASE reply' = reply
            BY <2>2, <3>1
        <3>2. ASSUME NEW e \in Events, NEW h \in Handlers, Collect(e, h) \/ TimeOut(e, h)
              PROVE  reply[g] = "ok" \/ copy'[Here(g)] = "done"
            <4>1. CASE e = g
                BY <1>6, <2>2, <3>2, <4>1
            <4>2. CASE e # g
                <5>1. reply'[g] = reply[g]
                    BY <3>2, <4>2 DEF Collect, TimeOut, Conclude, BusTypes
                <5> QED
                    BY <2>2, <5>1
            <4> QED
                BY <4>1, <4>2
        <3>3. reply' = reply \/ \E e \in Events, h \in Handlers : Collect(e, h) \/ TimeOut(e, h)
            <4>1. CASE UNCHANGED busVars
                BY <4>1 DEF busVars
            <4>2. CASE \E e \in Events, h \in Handlers : Handle(e, h) \/ StartHandler(e, h)
                BY <4>2 DEF Handle, StartHandler
            <4>3. CASE \E h \in Handlers : Take(h) \/ Exit(h)
                BY <4>3 DEF Take, Exit, fabric
            <4>4. CASE Stop \/ Drained \/ DrainTimesOut \/ Stopped \/ \E h \in Registered : CancelRunner(h)
                BY <4>4 DEF Stop, Drained, DrainTimesOut, Stopped, CancelRunner, fabric
            <4> QED
                BY <1>9, <4>1, <4>2, <4>3, <4>4
        <3> QED
            BY <3>1, <3>2, <3>3
    <2>3. ASSUME NEW g \in Events, stage'[g] = "await", reply'[g] = "ok" PROVE copy'[Here(g)'] = "done"
        <3>1. Here(g)' = Here(g) /\ stage[g] = "await"
            BY <1>0, <2>1, <2>3 DEF Here
        <3> QED
            BY <1>7, <2>1, <2>2, <2>3, <3>1
    <2>4. ASSUME NEW g \in Events, verdict'[g] = "ok" PROVE {g} \X Critical \subseteq handled'
        <3>1. {g} \X Critical \subseteq handled
            BY <2>1, <2>4 DEF Truth, OkMeansSettled
        <3> QED
            BY <1>1, <3>1
    <2>5. ~closed' => \A p \in BusPairs : copy'[p] # "refused"
        <3>1. ASSUME ~closed', NEW e \in Events, NEW h \in Handlers PROVE copy'[<<e, h>>] # "refused"
            <4>1. copy[<<e, h>>] # "refused"
                BY <2>1, <3>1 DEF Truth, BusPairs
            <4> QED
                BY <2>1, <4>1 DEF Calm
        <3> QED
            BY <3>1 DEF BusPairs
    <2>6. \A p \in BusPairs : work'[p] = "ok" \/ copy'[p] = "done" => p \in handled'
        BY <1>2, <1>4
    <2> QED
        BY <1>0, <2>3, <2>4, <2>5, <2>6 DEF Truth, OkMeansSettled
<1> QED
    BY <1>8, <1>9, BusSteps

(* The bus starts with nothing under way.                                   *)
LEMMA BusStarts == BusInit => BusInv
<1> SUFFICES ASSUME BusInit PROVE BusInv
    OBVIOUS
<1>0. /\ wiring \in Wirings /\ closed = FALSE /\ stopping = "up" /\ outOfTime = FALSE /\ cancelled = {}
      /\ exited = [h \in Handlers |-> 0] /\ queue = [h \in Handlers |-> <<>>]
      /\ copy = [p \in Events \X Handlers |-> "none"] /\ work = [p \in Events \X Handlers |-> "none"]
      /\ handled = {} /\ notices = {} /\ reply = [e \in Events |-> "none"]
      /\ stage = [e \in Events |-> "new"] /\ at = [e \in Events |-> 1] /\ verdict = [e \in Events |-> "none"]
    BY DEF BusInit
<1>1. 1 \in DOMAIN Plan
    <2>1. Plan \in Seq(Handlers) /\ Plan # <<>>
        BY <1>0, WiringsAssumption DEF Plan
    <2>2. Len(Plan) \in Nat \ {0} /\ DOMAIN Plan = 1..Len(Plan)
        BY <2>1, LenProperties, EmptySeq
    <2> QED
        BY <2>2
<1>2. BusTypes
    <2>1. <<>> \in Seq(Events)
        OBVIOUS
    <2>2. "new" \in Stages
        BY DEF Stages
    <2> QED
        BY <1>0, <1>1, <2>1, <2>2 DEF BusTypes, BusPairs
<1>3. /\ wiring.room \in [Handlers -> Nat \ {0}] /\ wiring.workers \in [Handlers -> Nat \ {0}]
      /\ DOMAIN Plan = 1..Len(Plan) /\ Len(Plan) \in Nat
    BY <1>2, WiringFacts
<1>4. \A e \in Events, h \in Handlers : copy[<<e, h>>] = "none"
    BY <1>0
<1>5. QueueBooks
    <2>1. \A h \in Handlers : queue[h] = <<>>
        BY <1>0
    <2>2. IsInjective(<<>>) /\ Len(<<>>) = 0 /\ ToSet(<<>>) = {}
        BY DEF IsInjective, ToSet
    <2>3. \A h \in Handlers : 0 <= wiring.room[h]
        BY <1>3
    <2>4. \A h \in Handlers : Len(queue[h]) <= wiring.room[h] /\ IsInjective(queue[h]) /\ ToSet(queue[h]) = {}
        BY <2>1, <2>2, <2>3
    <2> QED
        BY <1>4, <2>4 DEF QueueBooks
<1>6. CrewBooks
    <2> SUFFICES ASSUME NEW h \in Handlers
                 PROVE  exited[h] + Cardinality(BusyWith(h)) <= wiring.workers[h]
        BY DEF CrewBooks
    <2>1. BusyWith(h) = {}
        BY <1>4 DEF BusyWith
    <2>2. Cardinality(BusyWith(h)) = 0
        BY <2>1, FS_EmptySet
    <2> QED
        BY <1>0, <1>3, <2>2
<1>7. Places
    <2> SUFFICES ASSUME NEW e \in Events PROVE PlaceOf(e)
        BY DEF Places
    <2>1. at[e] = 1 /\ stage[e] = "new" /\ Plan[at[e]] \in Handlers
        BY <1>0, <1>2, AtHandler
    <2>2. \A i \in DOMAIN Plan : ~(i < 1) /\ ~(i <= 0)
        BY <1>3
    <2>3. Passed(e) = 0
        BY <2>1 DEF Passed
    <2> QED
        BY <1>0, <1>4, <2>1, <2>2, <2>3 DEF PlaceOf, Here
<1>8. Truth
    <2>1. \A p \in BusPairs : work[p] = "none" /\ copy[p] = "none"
        BY <1>0 DEF BusPairs
    <2> QED
        BY <1>0, <2>1 DEF Truth, OkMeansSettled
<1>9. DropsAreNoticed
    <2> SUFFICES ASSUME NEW h \in Handlers
                 PROVE  Cardinality(Dropped(h)) <= Cardinality(Noticed(h))
        BY DEF DropsAreNoticed, Dropped, Noticed
    <2>1. Dropped(h) = {} /\ Noticed(h) = {}
        BY <1>0, <1>4 DEF Dropped, Noticed
    <2> QED
        BY <2>1, FS_EmptySet
<1>10. Stops
    BY <1>0 DEF Stops
<1> QED
    BY <1>2, <1>5, <1>6, <1>7, <1>8, <1>9, <1>10 DEF BusInv

LEMMA BusInvariant == BusSpec => []BusInv
<1>1. BusInit => BusInv
    BY BusStarts
<1>2. BusInv /\ [BusNext]_busVars => BusInv'
    BY BusTyped, QueuesKept, CrewsKept, PlacesKept, TruthKept, DropsKept, StopsKept DEF BusInv
<1> QED
    BY <1>1, <1>2, PTL DEF BusSpec

(* What the bus tells its callers and its operator is true, and nothing     *)
(* that it took is lost without a trace, for any handlers, queues, workers  *)
(* and completions, and with any number of handlers that callers wait for   *)
(* (runner.go:63-110, bus.go:118-177).                                      *)
THEOREM BusIsSafe == BusSpec => []BusSafety
<1>1. BusInv => BusSafety
    <2> SUFFICES ASSUME BusInv PROVE BusSafety
        OBVIOUS
    <2>0. BusTypes /\ QueueBooks /\ CrewBooks /\ Places /\ Truth /\ DropsAreNoticed /\ Stops
        BY DEF BusInv
    <2>1. BusTypeOK
        <3>1. \A p \in Events \X Handlers : copy[p] \in {"none"} \cup Waiting \cup Fates
            BY <2>0 DEF BusTypes, BusPairs
        <3> QED
            BY <2>0, <3>1 DEF BusTypeOK, BusTypes, QueueBooks, CrewBooks
    <2>2. NoCopyVanishes
        <3> SUFFICES ASSUME ~closed, NEW e \in Events, NEW i \in 1..Passed(e), Plan[i] \notin Critical
                     PROVE  copy[<<e, Plan[i]>>] \in Waiting \cup (Fates \ {"refused"})
            BY DEF NoCopyVanishes
        <3>1. /\ at[e] \in Nat /\ at[e] <= Len(Plan) /\ at[e] >= 1
              /\ DOMAIN Plan = 1..Len(Plan) /\ Len(Plan) \in Nat
            BY <2>0, AtHandler, WiringFacts
        <3>2. Passed(e) \in Nat /\ Passed(e) <= Len(Plan)
            BY <3>1 DEF Passed
        <3>3. i \in DOMAIN Plan /\ i <= Passed(e)
            BY <3>1, <3>2
        <3>4. Plan[i] \in Handlers
            BY <2>0, <3>3, WiringFacts
        <3>5. copy[<<e, Plan[i]>>] # "none"
            BY <2>0, <3>3 DEF Places, PlaceOf
        <3>6. <<e, Plan[i]>> \in BusPairs
            BY <3>4 DEF BusPairs
        <3> QED
            BY <2>0, <3>5, <3>6 DEF Truth, BusTypes
    <2>3. NoWorkerAfterStop
        <3> SUFFICES ASSUME stopping = "stopped", NEW h \in Registered
                     PROVE  BusyWith(h) = {} /\ exited[h] = wiring.workers[h]
            BY DEF NoWorkerAfterStop
        <3>1. h \in Handlers /\ wiring.workers[h] \in Nat
            BY <2>0, WiringFacts
        <3>2. exited[h] = wiring.workers[h]
            BY <2>0 DEF Stops
        <3>3. IsFiniteSet(BusyWith(h)) /\ Cardinality(BusyWith(h)) \in Nat
            <4>1. BusyWith(h) \subseteq Events
                BY DEF BusyWith
            <4> QED
                BY <4>1, FewEvents
        <3>4. exited[h] + Cardinality(BusyWith(h)) <= wiring.workers[h]
            BY <2>0, <3>1 DEF CrewBooks
        <3>5. Cardinality(BusyWith(h)) = 0
            BY <3>1, <3>2, <3>3, <3>4
        <3> QED
            BY <3>2, <3>3, <3>5, FS_EmptySet
    <2>4. LowSurvivesStop
        BY <2>0 DEF LowSurvivesStop, Stops
    <2> QED
        BY <2>0, <2>1, <2>2, <2>3, <2>4 DEF BusSafety, Truth
<1> QED
    BY <1>1, BusInvariant, PTL

-----------------------------------------------------------------------------
(* What no late worker and no second decision undoes, whatever runs beside  *)
(* it: an audited replay, a lease of another worker, a delivered row, a     *)
(* settlement's retries, the money of a media task, a revocation.           *)
THEOREM FactsAreFinal == BackgroundSpec => FactsStand
<1> QED
    BY AuditsAreFinal, OnlyHoldersMark, SettlementsAreNotShelved, DeliveredStays,
       MediaMoneyMovesOnce, RevokedStaysShut
    DEF BackgroundSpec, FactsStand
=============================================================================
