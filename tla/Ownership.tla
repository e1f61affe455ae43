----------------------------- MODULE Ownership ------------------------------
(***************************************************************************)
(* core/project_owner.claim and stand_down, run by concurrent processes on *)
(* one project's log: each reads the log without the lock, decides, and    *)
(* appends under a precondition that pins what it decided on; a failed     *)
(* precondition sends it back to read again, a bounded number of times.    *)
(* Any process may die at any step, also half-way through its batch.       *)
(***************************************************************************)
EXTENDS OwnerState, FleetLog, FiniteSets

CONSTANTS MaxReevaluations,  \* _MAX_REEVALUATIONS
          InitialLogs,       \* logs that earlier calls have left behind
          Claims,            \* the claims that callers make
          MaxCalls           \* bound: calls in a behaviour

\* fleet owner claim: the caller brings the node it says it notified, the
\* nodes its harness lists as archived or deleted, and, unless it acts for
\* another session, the facts to register itself with (as a pm, or not).
AllClaims ==
  [kind : {"claim"}, node : Node, attested : Node \cup {NoNode},
   ended : SUBSET Node, session : {"none", "pm", "cto"}]

NoCall == [kind |-> "none"]

AllCalls ==
  {NoCall} \cup AllClaims
  \cup [kind : {"stand_down"}, node : Node, by : {"self", "on_behalf"}]
  \cup [kind : {"register"}, node : Node, eligible : BOOLEAN]

ASSUME ClaimsAssumption == Claims \subseteq AllClaims
ASSUME ReevaluationsAssumption == MaxReevaluations \in Nat

VARIABLES pc,       \* where each process is
          call,     \* what it was asked to do
          tries,    \* re-evaluations left
          plan,     \* the batch it decided on, and the view it decided on
          calls     \* number of calls so far

procVars == <<pc, call, tries, plan>>
vars == <<log, writer, batch, todo, pc, call, tries, plan, calls>>

NoPlan == [batch |-> <<>>, view |-> <<>>]

Init ==
  /\ log \in InitialLogs
  /\ writer = NoProcess /\ batch = <<>> /\ todo = {}
  /\ pc = [p \in Process |-> "idle"]
  /\ call = [p \in Process |-> NoCall]
  /\ tries = [p \in Process |-> 0]
  /\ plan = [p \in Process |-> NoPlan]
  /\ calls = 0

Call(p, c) ==
  /\ pc[p] = "idle"
  /\ calls < MaxCalls
  /\ calls' = calls + 1
  /\ pc' = [pc EXCEPT ![p] = "evaluating"]
  /\ call' = [call EXCEPT ![p] = c]
  /\ tries' = [tries EXCEPT ![p] = MaxReevaluations]
  /\ UNCHANGED <<log, writer, batch, todo, plan>>

Return(p) ==
  /\ pc' = [pc EXCEPT ![p] = "idle"]
  /\ call' = [call EXCEPT ![p] = NoCall]
  /\ tries' = [tries EXCEPT ![p] = 0]
  /\ plan' = [plan EXCEPT ![p] = NoPlan]

CallClaim(p) == \E c \in Claims : Call(p, c)

\* fleet owner stand-down, by the node itself or on its behalf.
CallStandDown(p) ==
  \E n \in Node, by \in {"self", "on_behalf"} :
    Call(p, [kind |-> "stand_down", node |-> n, by |-> by])

\* fleet register: an append with no precondition.
CallRegister(p) ==
  \E n \in Node, eligible \in BOOLEAN :
    /\ ~IsRegistered(log, n)
    /\ Call(p, [kind |-> "register", node |-> n, eligible |-> eligible])

\* What a decision rests on: the fold and, for a project without ownership
\* events, the legacy owner (other than the claimant).
View(l, c) ==
  LET other == IF c.kind = "claim" THEN c.node ELSE NoNode
  IN  <<FoldOwner(l), IF FoldOwner(l).hasEvents THEN 0 ELSE LegacyOwner(l, other)>>

Decided(p, b) ==
  /\ pc' = [pc EXCEPT ![p] = "appending"]
  /\ plan' = [plan EXCEPT ![p] = [batch |-> b, view |-> View(log, call[p])]]
  /\ UNCHANGED <<call, tries>>
-----------------------------------------------------------------------------
RegistrationFirst(c, l) ==
  IF IsRegistered(l, c.node) THEN <<>>
  ELSE <<Registered(c.node, c.session = "pm")>>

StandDownOf(c, d, l) ==
  IF d.outcome = "unowned" THEN <<>>
  ELSE <<StoodDown(d.prior, d.from, "claimant", c.node, FoldOwner(l).anchor)>>

ClaimItself(c, d, l) ==
  <<Declared(c.node, FoldOwner(l).anchor, d.prior, d.outcome)>>

\* Mutant: the claim before its stand-down.
ClaimFirst(c, d, l) ==
  RegistrationFirst(c, l) \o ClaimItself(c, d, l) \o StandDownOf(c, d, l)

\* The one batch of a claim: its registration if absent, the stand-down of the
\* displaced owner, and the claim.
ClaimBatch(c, d, l) ==
  RegistrationFirst(c, l) \o StandDownOf(c, d, l) \o ClaimItself(c, d, l)

\* claim, steps 1-4: an unlocked read and the decision on it.
EvaluateClaim(p) ==
  /\ pc[p] = "evaluating"
  /\ call[p].kind = "claim"
  /\ \E c \in {call[p]} :
       \E d \in {DecideClaim(log, c.node, c.ended, c.attested)} :
         IF ~IsRegistered(log, c.node) /\ c.session = "none"
           THEN Return(p)    \* OwnershipRefused: not_registered
         ELSE IF d.outcome \in Bases
           THEN Decided(p, ClaimBatch(c, d, log))
         ELSE Return(p)      \* already the owner, or OwnershipRefused
  /\ UNCHANGED <<log, writer, batch, todo, calls>>

\* stand_down: the current owner, or the legacy owner of an undeclared project.
EvaluateStandDown(p) ==
  /\ pc[p] = "evaluating"
  /\ call[p].kind = "stand_down"
  /\ LET c  == call[p]
         st == FoldOwner(log)
         r  == IF st.hasEvents THEN 0 ELSE LegacyOwner(log, NoNode)
         Out(from) == <<StoodDown(c.node, from, c.by, NoNode, 0)>>
     IN  IF st.owner = c.node THEN Decided(p, Out(st.declaring))
         ELSE IF st.stoodDown /\ st.anchorNode = c.node THEN Return(p)
         ELSE IF r # 0 /\ log[r].node = c.node THEN Decided(p, Out(r))
         ELSE Return(p)      \* OwnershipRefused: not_current_owner
  /\ UNCHANGED <<log, writer, batch, todo, calls>>

EvaluateRegister(p) ==
  /\ pc[p] = "evaluating"
  /\ call[p].kind = "register"
  /\ Decided(p, <<Registered(call[p].node, call[p].eligible)>>)
  /\ UNCHANGED <<log, writer, batch, todo, calls>>
-----------------------------------------------------------------------------
\* Mutants: no precondition; only the fold is compared, not the legacy owner.
StillAny(p) == TRUE
StillSameFold(p) ==
  call[p].kind = "register" \/ View(log, call[p])[1] = plan[p].view[1]

\* The precondition, evaluated under the lock: what was decided upon holds.
StillAsDecided(p) ==
  call[p].kind = "register" \/ View(log, call[p]) = plan[p].view

\* append_batch takes the lock and finds everything recorded already.
AppendDeduped(p) ==
  /\ pc[p] = "appending"
  /\ Deduped(plan[p].batch)
  /\ Return(p)
  /\ UNCHANGED <<log, writer, batch, todo, calls>>

\* Mutant: the same batch is retried as it was decided, and nothing is counted.
AppendUnmetStale(p) ==
  /\ pc[p] = "appending"
  /\ Unmet(plan[p].batch, StillAsDecided(p))
  /\ UNCHANGED vars

\* Mutant: it is evaluated again as often as it takes.
AppendUnmetForever(p) ==
  /\ pc[p] = "appending"
  /\ Unmet(plan[p].batch, StillAsDecided(p))
  /\ pc' = [pc EXCEPT ![p] = "evaluating"]
  /\ plan' = [plan EXCEPT ![p] = NoPlan]
  /\ UNCHANGED <<log, writer, batch, todo, call, tries, calls>>

\* PreconditionUnmet: evaluate again, or give up (OwnershipContended).
AppendUnmet(p) ==
  /\ pc[p] = "appending"
  /\ Unmet(plan[p].batch, StillAsDecided(p))
  /\ IF tries[p] = 0
       THEN Return(p)
       ELSE /\ pc' = [pc EXCEPT ![p] = "evaluating"]
            /\ tries' = [tries EXCEPT ![p] = @ - 1]
            /\ plan' = [plan EXCEPT ![p] = NoPlan]
            /\ UNCHANGED call
  /\ UNCHANGED <<log, writer, batch, todo, calls>>

AppendBegin(p) ==
  /\ pc[p] = "appending"
  /\ Begin(p, plan[p].batch, StillAsDecided(p))
  /\ pc' = [pc EXCEPT ![p] = "writing"]
  /\ UNCHANGED <<call, tries, plan, calls>>

\* LockTimeoutError: somebody else held the lock until the deadline.
AppendTimeout(p) ==
  /\ pc[p] = "appending"
  /\ ~LockFree
  /\ Return(p)
  /\ UNCHANGED <<log, writer, batch, todo, calls>>

WriteNext(p) == Put(p) /\ UNCHANGED <<procVars, calls>>

WriteDone(p) ==
  /\ End(p)
  /\ Return(p)
  /\ UNCHANGED calls

\* The process dies; a batch it was writing stays as far as it got.
Crash(p) ==
  /\ pc[p] # "idle"
  /\ IF writer = p THEN Release(p) ELSE UNCHANGED logVars
  /\ Return(p)
  /\ UNCHANGED calls

Step(p) ==
  \/ EvaluateClaim(p) \/ EvaluateStandDown(p) \/ EvaluateRegister(p)
  \/ AppendDeduped(p) \/ AppendUnmet(p) \/ AppendBegin(p) \/ AppendTimeout(p)
  \/ WriteNext(p) \/ WriteDone(p)

Next ==
  \E p \in Process :
    \/ CallClaim(p) \/ CallStandDown(p) \/ CallRegister(p)
    \/ Step(p) \/ Crash(p)

Spec == Init /\ [][Next]_vars
FairSpec == Spec /\ \A p \in Process : WF_vars(Step(p))
-----------------------------------------------------------------------------
Views ==
  {<<>>} \cup ([owner : Node \cup {NoNode}, declaring : Nat, anchor : Nat, stoodDown : BOOLEAN,
                anchorNode : Node \cup {NoNode}, hasEvents : BOOLEAN] \X Nat)
Plans == [batch : Seq(Event), view : Views]

\* The log holds events, and the writer is inside its write.
TypeOK ==
  /\ log \in Seq(Event)
  /\ writer \in Process \cup {NoProcess}
  /\ todo \subseteq DOMAIN batch
  /\ pc \in [Process -> {"idle", "evaluating", "appending", "writing"}]
  /\ call \in [Process -> AllCalls]
  /\ tries \in [Process -> 0 .. MaxReevaluations]
  /\ plan \in [Process -> Plans]
  /\ \A p \in Process : pc[p] = "writing" <=> writer = p

\* Owners follow one another, none grabs the project: whoever claims it is a
\* registered session by then; a standing declaration is named by a stand-down
\* after it and before its successor; and none is ended twice.  Races, retries
\* and batches cut short included.
Succession(l) ==
  /\ \A d \in Declarations(l) :
       \E r \in Registrations(l) : r < d /\ l[r].node = l[d].node
  /\ \A c, d \in Declarations(l) :
       c < d => \E s \in StandDowns(l) : s < d /\ Ends(l, s, c)
  /\ \A s, t \in StandDowns(l) : l[s].from = l[t].from => s = t

OwnersSucceedOneAnother == Succession(log)

\* Claims are serialised: nothing but the stand-down of the same batch lies
\* between a claim and the ownership event it was decided on.
Serial(l) ==
  \A d \in Declarations(l) : \A e \in OwnershipEvents(l) :
    e < d => \/ e <= l[d].anchor
             \/ /\ e \in StandDowns(l)
                /\ l[e].by = "claimant"
                /\ l[e].claim_key = l[d].key

ClaimsAreSerialised == Serial(log)

\* The first claim of a project passes over no legacy owner: claimed as unowned,
\* nobody else had an eligible registration when it was written; otherwise the
\* newest of those is the one it displaced.
Passed(l, d) ==
  {i \in Registrations(l) : i < d /\ l[i].eligible /\ l[i].node # l[d].node}

FirstClaimRespects(l) ==
  \A d \in Declarations(l) : l[d].anchor = 0 =>
    LET r == Latest(Passed(l, d))
    IN  IF r = 0 THEN l[d].basis = "unowned" ELSE l[d].prior = l[r].node

FirstClaimRespectsLegacyOwner == FirstClaimRespects(log)

\* A stand-down refers to an event before it that made its node owner, or would
\* have: the newest declaration, if there is one.  The claim it is paired with
\* was decided on that declaration, or on a project without any.
Refers(l, s) ==
  LET from == l[s].from
  IN  /\ from \in Declarations(l) \cup Registrations(l)
      /\ from < s /\ l[from].node = l[s].node
      /\ \A d \in Declarations(l) : d < s => from \in Declarations(l) /\ d <= from
      /\ l[s].by = "claimant" =>
           l[s].claim_key = ClaimKey(l[s].claimant, IF from \in Declarations(l) THEN from ELSE 0)

\* Earlier calls have left behind no other logs than these.
Sound(l) ==
  /\ l \in Seq(Event)
  /\ \A i, j \in DOMAIN l : l[i].key = l[j].key => i = j
  /\ \A s \in OfType(l, "ownership_stood_down") : Refers(l, s)
  /\ \A d \in Declarations(l) : l[d].anchor < d
  /\ Succession(l) /\ Serial(l) /\ FirstClaimRespects(l)

ASSUME LogsAssumption == \A l \in InitialLogs : Sound(l)

\* Readers see one owner at a time, replaced in one step and only with grounds
\* against that owner: no torn or racing takeover shows them anything else.
Grounds ==
  {x \in Node \X Node :
     \E p \in Process : /\ call[p].kind = "claim"
                        /\ call[p].node = x[1]
                        /\ x[2] = call[p].attested \/ x[2] \in call[p].ended}
Leaving ==
  {n \in Node : \E p \in Process : call[p].kind = "stand_down" /\ call[p].node = n}

Register == INSTANCE OwnerRegister WITH
  owner <- FoldOwner(log).owner, grounds <- Grounds, leaving <- Leaving

ImplementsOwnerRegister == Register!Spec

\* Every call returns, also one whose precondition fails again and again until it
\* gives up as contended: no lock outlives its holder.
CallsReturn == \A p \in Process : []<>(pc[p] = "idle")

\* The steps of its own that a call has left at most, with the lines it writes.
MostLines == 3
StepsLeft(p) ==
  CASE pc[p] = "evaluating" -> 2 * tries[p] + MostLines + 3
    [] pc[p] = "appending"  -> 2 * tries[p] + MostLines + 2
    [] pc[p] = "writing"    -> Cardinality(todo) + 1
    [] OTHER -> 0

\* However many sessions get in its way for however long, a call is over after so
\* many steps of its own: each of them uses one up, re-evaluations included, and
\* nothing that anybody else does gives it more to do.
OwnStepsRunOut ==
  [][\A p \in Process : pc[p] # "idle" =>
       /\ StepsLeft(p)' <= StepsLeft(p)
       /\ Step(p) => StepsLeft(p)' < StepsLeft(p)]_vars
=============================================================================
