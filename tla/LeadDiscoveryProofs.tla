------------------------ MODULE LeadDiscoveryProofs ------------------------
(***************************************************************************)
(* Proofs about LeadDiscovery: its types, the invariants of the contacts,  *)
(* that the checkpoints implement LeadSearch (RunsInv: the record of a job *)
(* agrees with what the job works on, and the phase with the place), and   *)
(* that a run that is done has given every lead a review and, on its own   *)
(* account, a contact (Way: how far the leads have come at each place).    *)
(***************************************************************************)
EXTENDS LeadDiscovery, ContactsProofs, WellFoundedInduction

Checkpoint == [phase : 0..Scored, networks : SUBSET ASNs, pages : SUBSET Emails,
               web : SUBSET Emails, targets : SUBSET ASNs, looked : SUBSET ASNs,
               found : SUBSET Emails, leads : SUBSET Emails]

Places == Working \cup Ended \cup {"idle", "down"}

\* What a checkpoint holds grows with its phase.
Phased(cp) ==
    /\ cp.looked \subseteq cp.targets /\ cp.leads \subseteq cp.found
    /\ cp.phase < WebExtracted => cp.web = {} /\ cp.found = {}
    /\ cp.phase < RdapProgress => cp.looked = {} /\ cp.found \subseteq cp.web
    /\ cp.phase < Scored => cp.leads = {}
    /\ cp.phase = Scored => cp.targets \subseteq cp.looked

Late == {"import", "importing", "review", "saving", "feedback", "learning"}

\* The checkpoint with which a run can be at a place.
Fits(pc, cp) ==
    /\ pc = "plan"    => cp.phase = 0
    /\ pc = "sources" => cp.phase = Planned
    /\ pc = "extract" => cp.phase = SourcesDone
    /\ pc = "targets" => cp.phase = WebExtracted /\ cp.found = {}
    /\ pc = "rdap"    => cp.phase \in {WebExtracted, RdapProgress, Scored}
    /\ pc = "score"   => cp.phase \in {WebExtracted, RdapProgress} /\ cp.targets \subseteq cp.looked
    /\ pc \in Late    => cp.phase = Scored

Agree(rec, cp) ==
    /\ rec.phase = cp.phase /\ rec.looked = cp.looked /\ rec.leads = cp.leads
    /\ rec.web \cup rec.found = cp.web \cup cp.found

\* The record of a job agrees with what the job works on.
RunInv(r) ==
    /\ run[r].cp \in Checkpoint /\ run[r].pc \in Places /\ run[r].shunned \subseteq Emails
    /\ saved[r] \in Checkpoint
    /\ Phased(run[r].cp) /\ Phased(saved[r]) /\ Fits(run[r].pc, run[r].cp)
    /\ saved[r].phase < RdapProgress => saved[r].found = {}
    /\ run[r].pc \in {"idle", "done"} \/ r \notin jobs => saved[r] = Empty
    /\ run[r].pc \in Working /\ r \in jobs => Agree(saved[r], run[r].cp)

Running == [cp : Checkpoint, pc : Places, shunned : SUBSET Emails]

RunsInv ==
    /\ run \in [Runs -> Running] /\ saved \in [Runs -> Checkpoint]
    /\ jobs \subseteq Runs /\ auto \in [Runs -> BOOLEAN] /\ faults \in 0..MaxFaults
    /\ \A r \in Runs : RunInv(r)

\* The addresses that have a review.
Listed == {reviews[i].email : i \in DOMAIN reviews}

\* How far the leads of a run have come.
ImportWay(r) == At(r, "importing") => auto[r] /\ Arriving(r, run[r].cp.leads)

SaveWay(r) ==
    LET leads == run[r].cp.leads  c == call[r] IN
    At(r, "saving") =>
        /\ c.at \in {"find", "idle"}
        /\ c.at = "find" =>
              leads \subseteq Elems(c.todo) \cup Listed \cup {c.new[k].email : k \in DOMAIN c.new}
        /\ c.at = "idle" => c.ok = FALSE \/ leads \subseteq Listed

GivenWay(r) ==
    /\ run[r].pc \in {"review", "saving", "feedback", "learning", "done"} /\ auto[r] =>
          run[r].cp.leads \subseteq Sure
    /\ run[r].pc \in {"feedback", "learning", "done"} => run[r].cp.leads \subseteq Listed

Way(r) == ImportWay(r) /\ SaveWay(r) /\ GivenWay(r)

WayInv == \A r \in Runs : Way(r)

Inv == ContactsInv /\ RunsInv /\ WayInv

-----------------------------------------------------------------------------
(* Lemmas about the operators of LeadDiscovery.                            *)

LEMMA Constants ==
  ASNs \subseteq Nat /\ Registered \in [ASNs -> SUBSET Emails] /\ MaxFaults \in Nat
BY DiscoveryConstants

LEMMA PhaseOrder ==
  Planned = 1 /\ SourcesDone = 2 /\ WebExtracted = 3 /\ RdapProgress = 4 /\ Scored = 5
BY DEF Planned, SourcesDone, WebExtracted, RdapProgress, Scored

\* A set of naturals has a least element: of the intervals up to its elements,
\* which are finite, none is strictly inside that of the least.
LEMMA LeastNat ==
  ASSUME NEW S, S \subseteq Nat, S # {}
  PROVE  \E a \in S : \A b \in S : a <= b
<1>1. PICK n : n \in S
  OBVIOUS
<1>2. n \in Nat
  BY <1>1
<1> DEFINE N == 0..n
           T == {0..k : k \in S \cap N}
<1>3. IsFiniteSet(N)
  BY <1>2, FS_Interval
<1>4. FiniteSubsetsOf(N) = SUBSET N
  BY <1>3, FS_FiniteSubsetsOfFinite
<1>5. IsWellFoundedOn(StrictSubsetOrdering(N), SUBSET N)
  BY <1>4, FS_StrictSubsetOrderingWellFounded
<1>6. T \subseteq SUBSET N /\ T # {}
  <2>1. ASSUME NEW k \in S \cap N PROVE 0..k \subseteq N
    BY <1>2
  <2>2. 0..n \in T
    BY <1>1, <1>2
  <2> QED BY <2>1, <2>2
<1>7. PICK x \in T : \A y \in T : ~(<<y, x>> \in StrictSubsetOrdering(N))
  <2> HIDE DEF N, T
  <2> QED BY <1>5, <1>6, WFMin
<1>8. PICK a \in S \cap N : x = 0..a
  BY <1>7
<1>9. ASSUME NEW b \in S, b < a PROVE FALSE
  <2>1. b \in Nat /\ a \in Nat /\ b \in S \cap N
    BY <1>9, <1>2
  <2>2. 0..b \in T /\ 0..a \in T
    BY <2>1, <1>7, <1>8
  <2>3. 0..b \subseteq 0..a /\ a \notin 0..b /\ a \in 0..a
    BY <2>1, <1>9
  <2>4. <<0..b, 0..a>> \in StrictSubsetOrdering(N)
    <3> HIDE DEF N, T
    <3> QED BY <2>2, <2>3, <1>6 DEF StrictSubsetOrdering
  <2> QED BY <2>2, <2>4, <1>7, <1>8
<1>10. \A b \in S : a <= b
  <2> TAKE b \in S
  <2>1. a \in Nat /\ b \in Nat
    OBVIOUS
  <2> QED BY <1>9, <2>1
<1> QED BY <1>8, <1>10

\* The next network to look up is one that is left.
LEMMA FirstType == ASSUME NEW S, S \subseteq Nat, S # {} PROVE First(S) \in S
BY LeastNat DEF First

LEMMA EmptyType == Empty \in Checkpoint /\ Phased(Empty) /\ Empty.phase = 0 /\ Empty.looked = {}
                   /\ Empty.web = {} /\ Empty.found = {} /\ Empty.leads = {}
BY PhaseOrder DEF Empty, Checkpoint, Phased

LEMMA StartFits ==
  ASSUME NEW cp \in Checkpoint, Phased(cp), cp.phase < RdapProgress => cp.found = {}
  PROVE  StartAt(cp) \in Working /\ Fits(StartAt(cp), cp)
<1>1. cp.phase \in {0, 1, 2, 3, 4, 5}
  BY PhaseOrder DEF Checkpoint
<1>2. CASE cp.phase = 0
  BY <1>2, PhaseOrder DEF StartAt, Working, Fits, Late
<1>3. CASE cp.phase = 1
  <2>1. StartAt(cp) = "sources"
    BY <1>3, PhaseOrder DEF StartAt
  <2> QED BY <1>3, <2>1, PhaseOrder DEF Working, Fits, Late
<1>4. CASE cp.phase = 2
  <2>1. StartAt(cp) = "extract"
    BY <1>4, PhaseOrder DEF StartAt
  <2> QED BY <1>4, <2>1, PhaseOrder DEF Working, Fits, Late
<1>5. CASE cp.phase = 3
  <2>1. StartAt(cp) = "targets"
    BY <1>5, PhaseOrder DEF StartAt
  <2> QED BY <1>5, <2>1, PhaseOrder DEF Working, Fits, Late
<1>6. CASE cp.phase \in {4, 5}
  <2>1. StartAt(cp) = "rdap"
    BY <1>6, PhaseOrder DEF StartAt
  <2> QED BY <1>6, <2>1, PhaseOrder DEF Working, Fits, Late
<1> QED BY <1>1, <1>2, <1>3, <1>4, <1>5, <1>6

-----------------------------------------------------------------------------
(* The runs and their records.                                             *)

LEMMA RunFields ==
  ASSUME RunsInv, NEW r \in Runs
  PROVE  /\ RunInv(r) /\ run[r].cp \in Checkpoint /\ run[r].pc \in Places
         /\ run[r].shunned \subseteq Emails
         /\ run[r] = [cp |-> run[r].cp, pc |-> run[r].pc, shunned |-> run[r].shunned]
BY DEF RunsInv, RunInv, Running

\* A step of one run: the others, and their records, stay.
LEMMA OneRun ==
  ASSUME RunsInv, NEW r \in Runs, NEW next \in Running, NEW rec \in Checkpoint,
         run' = [run EXCEPT ![r] = next], saved' = [saved EXCEPT ![r] = rec],
         UNCHANGED <<jobs, auto>>, faults' \in 0..MaxFaults,
         run'[r] = next /\ saved'[r] = rec => RunInv(r)'
  PROVE  RunsInv'
<1>1. /\ run' \in [Runs -> Running] /\ saved' \in [Runs -> Checkpoint]
      /\ run'[r] = next /\ saved'[r] = rec
      /\ \A q \in Runs \ {r} : run'[q] = run[q] /\ saved'[q] = saved[q]
  BY DEF RunsInv
<1>2. ASSUME NEW q \in Runs \ {r} PROVE RunInv(q)'
  BY <1>1 DEF RunsInv, RunInv
<1> QED BY <1>1, <1>2 DEF RunsInv

Onward(r, pc, cp) == [run[r] EXCEPT !.pc = pc, !.cp = cp]

LEMMA BecomeType ==
  ASSUME RunsInv, NEW r \in Runs, NEW pc \in Places, NEW cp \in Checkpoint, Become(r, pc, cp)
  PROVE  /\ Onward(r, pc, cp) \in Running /\ run' = [run EXCEPT ![r] = Onward(r, pc, cp)]
         /\ Onward(r, pc, cp).pc = pc /\ Onward(r, pc, cp).cp = cp
         /\ Onward(r, pc, cp).shunned = run[r].shunned
         /\ run'[r].pc = pc /\ run'[r].cp = cp /\ run'[r].shunned = run[r].shunned
         /\ \A q \in Runs \ {r} : run'[q] = run[q]
<1> DEFINE next == Onward(r, pc, cp)
<1>1. run \in [Runs -> Running] /\ run[r] \in Running
  BY DEF RunsInv
<1>2. /\ next \in Running /\ next.pc = pc /\ next.cp = cp /\ next.shunned = run[r].shunned
  BY <1>1 DEF Running, Onward
<1>3. run' = [run EXCEPT ![r] = next]
  BY <1>1 DEF Become, Onward
<1> HIDE DEF next
<1> QED BY <1>1, <1>2, <1>3 DEF next

\* A run that goes on, or ends, with a record that says what it works on.
LEMMA Persisted ==
  ASSUME RunsInv, NEW r \in Runs, run[r].pc \in Working,
         NEW pc \in Working, NEW cp \in Checkpoint, Phased(cp), Fits(pc, cp),
         cp.phase < RdapProgress => cp.found = {},
         Persist(r, pc, cp), UNCHANGED <<jobs, auto>>, faults' \in 0..MaxFaults
  PROVE  RunsInv'
<1> DEFINE next == Onward(r, pc, cp)
           rec == IF r \in jobs THEN cp ELSE saved[r]
<1>1. RunInv(r) /\ saved \in [Runs -> Checkpoint] /\ saved[r] \in Checkpoint
  BY DEF RunsInv, RunInv
<1>2. pc \in Places /\ pc \notin {"idle", "done"}
  BY DEF Working, Places
<1>3. next \in Running /\ run' = [run EXCEPT ![r] = next]
      /\ next.pc = pc /\ next.cp = cp /\ next.shunned = run[r].shunned
  BY <1>2, BecomeType DEF Persist
<1>4. saved' = [saved EXCEPT ![r] = rec] /\ rec \in Checkpoint
  BY <1>1 DEF Persist, Recorded
<1>5. ASSUME run'[r] = next, saved'[r] = rec PROVE RunInv(r)'
  <2> HIDE DEF next
  <2> QED BY <1>1, <1>2, <1>3, <1>4, <1>5, RunFields DEF RunInv, Agree
<1> HIDE DEF next, rec
<1> QED BY <1>3, <1>4, <1>5, OneRun

\* One that records nothing: it works on what its record says.
LEMMA Moved ==
  ASSUME RunsInv, NEW r \in Runs, run[r].pc \in Working \cup {"idle"},
         NEW pc \in Places \ {"idle", "done"}, NEW cp \in Checkpoint, Phased(cp), Fits(pc, cp),
         pc \in Working /\ r \in jobs => Agree(saved[r], cp),
         Become(r, pc, cp), UNCHANGED <<saved, jobs, auto>>, faults' \in 0..MaxFaults
  PROVE  RunsInv'
<1> DEFINE next == Onward(r, pc, cp)
<1>1. RunInv(r) /\ saved \in [Runs -> Checkpoint] /\ saved[r] \in Checkpoint
  BY DEF RunsInv, RunInv
<1>2. next \in Running /\ run' = [run EXCEPT ![r] = next]
      /\ next.pc = pc /\ next.cp = cp /\ next.shunned = run[r].shunned
  BY BecomeType
<1>3. saved' = [saved EXCEPT ![r] = saved[r]]
  BY <1>1
<1>4. ASSUME run'[r] = next, saved'[r] = saved[r] PROVE RunInv(r)'
  <2> HIDE DEF next
  <2> QED BY <1>1, <1>2, <1>4, RunFields DEF RunInv
<1> HIDE DEF next
<1> QED BY <1>1, <1>2, <1>3, <1>4, OneRun

\* The same, when nothing it works on changes.
LEMMA Walked ==
  ASSUME RunsInv, NEW r \in Runs, run[r].pc \in Working,
         NEW pc \in Places \ {"idle", "done"}, Fits(pc, run[r].cp),
         Become(r, pc, run[r].cp), UNCHANGED <<saved, jobs, auto>>, faults' \in 0..MaxFaults
  PROVE  RunsInv'
<1>1. RunInv(r) /\ run[r].cp \in Checkpoint
  BY RunFields
<1>2. Phased(run[r].cp) /\ (r \in jobs => Agree(saved[r], run[r].cp))
  BY <1>1 DEF RunInv
<1> QED BY <1>1, <1>2, Moved

LEMMA Finished ==
  ASSUME RunsInv, NEW r \in Runs, Finish(r), UNCHANGED <<jobs, auto>>, faults' \in 0..MaxFaults
  PROVE  RunsInv'
<1> DEFINE next == Onward(r, "done", run[r].cp)
<1>1. RunInv(r) /\ run[r].cp \in Checkpoint /\ run[r].shunned \subseteq Emails
  BY RunFields
<1>2. "done" \in Places /\ "done" \notin Working /\ "done" \notin Late
      /\ "done" \notin {"plan", "sources", "extract", "targets", "rdap", "score"}
  BY DEF Places, Ended, Working, Late
<1>3. next \in Running /\ run' = [run EXCEPT ![r] = next] /\ saved' = [saved EXCEPT ![r] = Empty]
      /\ next.pc = "done" /\ next.cp = run[r].cp /\ next.shunned = run[r].shunned
  BY <1>1, <1>2, BecomeType DEF Finish
<1>4. ASSUME run'[r] = next, saved'[r] = Empty PROVE RunInv(r)'
  <2> HIDE DEF next
  <2> QED BY <1>1, <1>2, <1>3, <1>4, EmptyType, PhaseOrder DEF RunInv, Fits
<1> HIDE DEF next
<1> QED BY <1>3, <1>4, EmptyType, OneRun

\* An attempt begins where its record left off.
LEMMA Begun ==
  ASSUME RunsInv, NEW r \in Runs, Begin(r, saved[r]), Elems(avoid) \subseteq Emails,
         run[r].pc \in {"idle", "down"}, UNCHANGED <<saved, jobs, auto, faults>>
  PROVE  RunsInv'
<1> DEFINE cp == saved[r]
           next == [cp |-> cp, pc |-> StartAt(cp), shunned |-> Elems(avoid)]
<1>1. RunInv(r) /\ saved \in [Runs -> Checkpoint] /\ cp \in Checkpoint /\ Phased(cp)
  BY DEF RunsInv, RunInv
<1>2. StartAt(cp) \in Working /\ Fits(StartAt(cp), cp)
  BY <1>1, StartFits DEF RunInv
<1>3. next \in Running /\ run' = [run EXCEPT ![r] = next] /\ StartAt(cp) \notin {"idle", "done"}
  BY <1>1, <1>2 DEF Running, Places, Begin, Working
<1>4. saved' = [saved EXCEPT ![r] = saved[r]] /\ faults' \in 0..MaxFaults
  BY <1>1 DEF RunsInv
<1>5. ASSUME run'[r] = next, saved'[r] = saved[r] PROVE RunInv(r)'
  <2>1. run'[r].cp = cp /\ run'[r].pc = StartAt(cp) /\ run'[r].shunned = Elems(avoid)
    BY <1>5
  <2> HIDE DEF next
  <2> QED BY <1>1, <1>2, <1>3, <1>5, <2>1 DEF RunInv, Agree, Places
<1> HIDE DEF next
<1> QED BY <1>1, <1>3, <1>4, <1>5, OneRun

-----------------------------------------------------------------------------
(* The checkpoints as the abstract search.                                 *)

\* A step of the abstract search, or none.
Maps == [Search!Next]_(Search!vars)

MapPhase(r) == IF At(r, "done") THEN Scored + 1 ELSE saved[r].phase
MapFound(r) == saved[r].web \cup saved[r].found

\* Nothing is recorded, and no run comes to be done.
LEMMA MapsStill ==
  ASSUME saved' = saved, \A q \in Runs : run'[q].pc = "done" <=> run[q].pc = "done"
  PROVE  Maps
<1>1. [q \in Runs |-> IF At(q, "done") THEN Scored + 1 ELSE saved[q].phase]'
      = [q \in Runs |-> IF At(q, "done") THEN Scored + 1 ELSE saved[q].phase]
  BY DEF At
<1> QED BY <1>1 DEF Maps, Search!vars

\* A step of one run that records rec, in terms of the abstract search.
LEMMA MapsOne ==
  ASSUME RunsInv, NEW r \in Runs, NEW rec \in Checkpoint, saved' = [saved EXCEPT ![r] = rec],
         \A q \in Runs \ {r} : run'[q] = run[q],
         \/ /\ run[r].pc # "done" /\ run'[r].pc # "done"
            /\ saved[r].phase <= rec.phase /\ rec.phase < Scored
            /\ saved[r].looked \subseteq rec.looked
            /\ MapFound(r) \subseteq rec.web \cup rec.found
            /\ rec.phase # saved[r].phase \/ rec.looked # saved[r].looked
            /\ rec.leads = saved[r].leads
         \/ /\ run[r].pc # "done" /\ run'[r].pc # "done"
            /\ saved[r].phase < Scored /\ rec.phase = Scored /\ rec.looked = saved[r].looked
            /\ rec.web \cup rec.found \subseteq MapFound(r)
            /\ rec.leads \subseteq rec.web \cup rec.found
         \/ run[r].pc # "done" /\ run'[r].pc = "done" /\ rec = Empty
  PROVE  Maps
<1> DEFINE phase  == [q \in Runs |-> IF At(q, "done") THEN Scored + 1 ELSE saved[q].phase]
           looked == [q \in Runs |-> saved[q].looked]
           found  == [q \in Runs |-> saved[q].web \cup saved[q].found]
           leads  == [q \in Runs |-> saved[q].leads]
<1>1. saved \in [Runs -> Checkpoint] /\ saved'[r] = rec
      /\ \A q \in Runs \ {r} : saved'[q] = saved[q]
  BY DEF RunsInv
<1>2. \A q \in Runs \ {r} : /\ phase'[q] = phase[q] /\ looked'[q] = looked[q]
                            /\ found'[q] = found[q] /\ leads'[q] = leads[q]
  BY <1>1 DEF At
<1>3. /\ looked[r] = saved[r].looked /\ found[r] = MapFound(r) /\ leads[r] = saved[r].leads
      /\ looked'[r] = rec.looked /\ found'[r] = rec.web \cup rec.found /\ leads'[r] = rec.leads
      /\ run[r].pc # "done" => phase[r] = saved[r].phase
      /\ run'[r].pc # "done" => phase'[r] = rec.phase
      /\ run'[r].pc = "done" => phase'[r] = Scored + 1
  BY <1>1 DEF At, MapFound
<1>4. saved[r].phase \in 0..Scored
  BY <1>1 DEF Checkpoint
<1> HIDE DEF phase, looked, found, leads
<1>5. Search!Others(r)
  BY <1>2 DEF Search!Others, phase, looked, found, leads
<1>6. Search!Collect(r) \/ Search!Score(r) \/ Search!Finish(r)
  <2>1. CASE /\ run[r].pc # "done" /\ run'[r].pc # "done"
             /\ saved[r].phase <= rec.phase /\ rec.phase < Scored
             /\ saved[r].looked \subseteq rec.looked
             /\ MapFound(r) \subseteq rec.web \cup rec.found
             /\ rec.phase # saved[r].phase \/ rec.looked # saved[r].looked
             /\ rec.leads = saved[r].leads
    <3>1. /\ phase[r] <= phase'[r] /\ phase'[r] < Scored
          /\ looked[r] \subseteq looked'[r] /\ found[r] \subseteq found'[r]
          /\ phase'[r] # phase[r] \/ looked'[r] # looked[r]
          /\ leads'[r] = leads[r]
      BY <1>3, <2>1
    <3> QED BY <1>5, <3>1 DEF Search!Collect, phase, looked, found, leads
  <2>2. CASE /\ run[r].pc # "done" /\ run'[r].pc # "done"
             /\ saved[r].phase < Scored /\ rec.phase = Scored /\ rec.looked = saved[r].looked
             /\ rec.web \cup rec.found \subseteq MapFound(r)
             /\ rec.leads \subseteq rec.web \cup rec.found
    <3>1. /\ phase[r] < Scored /\ phase'[r] = Scored
          /\ looked'[r] = looked[r]
          /\ found'[r] \subseteq found[r] /\ leads'[r] \subseteq found'[r]
      BY <1>3, <2>2
    <3> QED BY <1>5, <3>1 DEF Search!Score, phase, looked, found, leads
  <2>3. CASE run[r].pc # "done" /\ run'[r].pc = "done" /\ rec = Empty
    <3>1. /\ phase[r] <= Scored /\ phase'[r] = Scored + 1
          /\ looked'[r] = {} /\ found'[r] = {} /\ leads'[r] = {}
      BY <1>3, <1>4, <2>3, EmptyType, PhaseOrder
    <3> QED BY <1>5, <3>1 DEF Search!Finish, phase, looked, found, leads
  <2> QED BY <2>1, <2>2, <2>3
<1> QED BY <1>6 DEF Maps, Search!Next

LEMMA FinishMaps ==
  ASSUME RunsInv, NEW r \in Runs, run[r].pc \in Working, Finish(r) PROVE Maps
<1>1. /\ run'[r].pc = "done" /\ \A q \in Runs \ {r} : run'[q] = run[q]
      /\ saved' = [saved EXCEPT ![r] = Empty]
  BY BecomeType, RunFields DEF Finish, Places, Ended
<1>2. run[r].pc # "done"
  BY DEF Working
<1> QED BY <1>1, <1>2, MapsOne, EmptyType

\* A run that records nothing and is not done.
LEMMA BecomeMaps ==
  ASSUME RunsInv, NEW r \in Runs, run[r].pc # "done", NEW pc \in Places \ {"done"},
         NEW cp \in Checkpoint, Become(r, pc, cp), saved' = saved
  PROVE  Maps
BY BecomeType, MapsStill

\* A record that goes further: by phase or network, or to the scores.
LEMMA PersistMaps ==
  ASSUME RunsInv, NEW r \in Runs, run[r].pc \in Working, NEW pc \in Working,
         NEW cp \in Checkpoint, Persist(r, pc, cp),
         \/ /\ run[r].cp.phase <= cp.phase /\ cp.phase < Scored
            /\ run[r].cp.looked \subseteq cp.looked
            /\ run[r].cp.web \cup run[r].cp.found \subseteq cp.web \cup cp.found
            /\ cp.phase # run[r].cp.phase \/ cp.looked # run[r].cp.looked
            /\ cp.leads = run[r].cp.leads
         \/ /\ run[r].cp.phase < Scored /\ cp.phase = Scored /\ cp.looked = run[r].cp.looked
            /\ cp.web \cup cp.found \subseteq run[r].cp.web \cup run[r].cp.found
            /\ cp.leads \subseteq cp.web \cup cp.found
  PROVE  Maps
<1>1. pc \in Places /\ pc # "done" /\ run[r].pc # "done"
  BY DEF Places, Working
<1>2. run'[r].pc = pc /\ \A q \in Runs \ {r} : run'[q] = run[q]
  BY <1>1, BecomeType DEF Persist
<1>3. CASE r \in jobs
  <2>1. /\ saved[r].phase = run[r].cp.phase /\ saved[r].looked = run[r].cp.looked
        /\ saved[r].leads = run[r].cp.leads
        /\ MapFound(r) = run[r].cp.web \cup run[r].cp.found
    BY <1>3, RunFields DEF RunInv, Agree, MapFound
  <2>2. saved' = [saved EXCEPT ![r] = cp]
    BY <1>3 DEF Persist, Recorded
  <2> QED BY <1>1, <1>2, <2>1, <2>2, MapsOne
<1>4. CASE r \notin jobs
  <2>1. saved' = saved
    BY <1>4 DEF Persist
  <2> QED BY <1>1, <1>2, <2>1, MapsStill
<1> QED BY <1>3, <1>4

-----------------------------------------------------------------------------
(* Each step of a run.                                                     *)

LEMMA FaultType ==
  ASSUME RunsInv, NoFault \/ Fault PROVE faults' \in 0..MaxFaults
BY Constants DEF RunsInv, NoFault, Fault

LEMMA StartRun ==
  ASSUME RunsInv, NEW r \in Runs, Start(r), Elems(avoid) \subseteq Emails PROVE RunsInv' /\ Maps
<1>1. run[r].pc = "idle" /\ saved[r] = Empty
  BY RunFields DEF Start, At, RunInv
<1>2. /\ Begin(r, saved[r]) /\ UNCHANGED <<saved, jobs, auto, faults>>
  BY <1>1 DEF Start, NoFault
<1>3. RunsInv'
  BY <1>1, <1>2, Begun
<1>4. Maps
  <2>1. run'[r].pc \in Working /\ \A q \in Runs \ {r} : run'[q] = run[q]
    BY <1>1, <1>2, EmptyType, StartFits, PhaseOrder DEF Begin, RunsInv
  <2>2. saved' = saved /\ run'[r].pc # "done"
    BY <1>2, <2>1 DEF Working
  <2> QED BY <1>1, <2>1, <2>2, MapsStill
<1> QED BY <1>3, <1>4

LEMMA ResumeRun ==
  ASSUME RunsInv, NEW r \in Runs, Resume(r), Elems(avoid) \subseteq Emails PROVE RunsInv' /\ Maps
<1>1. run[r].pc = "down" /\ Begin(r, saved[r]) /\ UNCHANGED <<saved, jobs, auto, faults>>
  BY DEF Resume, At, NoFault
<1>2. RunsInv'
  BY <1>1, Begun
<1>3. Maps
  <2>1. StartAt(saved[r]) \in Working
    BY RunFields, StartFits DEF RunInv
  <2>2. run'[r].pc \in Working /\ \A q \in Runs \ {r} : run'[q] = run[q]
    BY <1>1, <2>1 DEF Begin, RunsInv
  <2>3. saved' = saved /\ run'[r].pc # "done"
    BY <1>1, <2>2 DEF Working
  <2> QED BY <1>1, <2>2, <2>3, MapsStill
<1> QED BY <1>2, <1>3

\* A run that stops, or goes to another place, as it is.
LEMMA WalkedRun ==
  ASSUME RunsInv, NEW r \in Runs, run[r].pc \in Working,
         NEW pc \in Places \ {"idle", "done"}, Fits(pc, run[r].cp),
         Become(r, pc, run[r].cp), UNCHANGED <<saved, jobs, auto>>, NoFault \/ Fault
  PROVE  RunsInv' /\ Maps
<1>1. run[r].pc # "done" /\ pc \in Places \ {"done"} /\ run[r].cp \in Checkpoint
  BY RunFields DEF Working
<1> QED BY <1>1, FaultType, Walked, BecomeMaps

LEMMA StoppedRun ==
  ASSUME RunsInv, NEW r \in Runs, Fail(r) \/ Cancel(r) PROVE RunsInv' /\ Maps
<1>1. PICK pc \in {"failed", "cancelled"} :
          run[r].pc \in Working /\ Become(r, pc, run[r].cp) /\ UNCHANGED <<saved, jobs, auto>> /\ Fault
  BY DEF Fail, Cancel, Local, Working
<1>2. pc \in Places \ {"idle", "done"} /\ Fits(pc, run[r].cp)
  BY DEF Places, Ended, Fits, Late
<1> QED BY <1>1, <1>2, WalkedRun

LEMMA PlanRun == ASSUME RunsInv, NEW r \in Runs, Plan(r) PROVE RunsInv' /\ Maps
<1> DEFINE old == run[r].cp
           cp == [old EXCEPT !.phase = Planned]
<1>1. /\ run[r].pc = "plan" /\ Persist(r, "sources", cp) /\ faults' \in 0..MaxFaults
      /\ UNCHANGED <<jobs, auto>>
  BY FaultType DEF Plan, At, Local
<1>2. /\ old \in Checkpoint /\ Phased(old) /\ old.phase = 0
  BY <1>1, RunFields DEF RunInv, Fits
<1>3. /\ cp \in Checkpoint /\ cp.phase = 1 /\ cp.looked = old.looked /\ cp.targets = old.targets
      /\ cp.leads = old.leads /\ cp.found = old.found /\ cp.web = old.web
  BY <1>2, PhaseOrder DEF Checkpoint
<1>4. run[r].pc \in Working /\ "sources" \in Working
  BY <1>1 DEF Working
<1> HIDE DEF old, cp
<1>5. Phased(cp) /\ Fits("sources", cp) /\ cp.found = {}
  BY <1>2, <1>3, PhaseOrder DEF Phased, Fits, Late
<1>6. RunsInv'
  BY <1>1, <1>3, <1>4, <1>5, Persisted
<1>7. Maps
  BY <1>1, <1>2, <1>3, <1>4, PhaseOrder, PersistMaps DEF old
<1> QED BY <1>6, <1>7

LEMMA SourcesRun == ASSUME RunsInv, NEW r \in Runs, Sources(r) PROVE RunsInv' /\ Maps
<1> DEFINE old == run[r].cp
<1>1. PICK networks \in SUBSET ASNs, pages \in SUBSET Emails :
          Persist(r, "extract", [old EXCEPT !.phase = SourcesDone,
                                            !.networks = networks, !.pages = pages])
  BY DEF Sources
<1> DEFINE cp == [old EXCEPT !.phase = SourcesDone, !.networks = networks, !.pages = pages]
<1>2. /\ run[r].pc = "sources" /\ Persist(r, "extract", cp) /\ faults' \in 0..MaxFaults
      /\ UNCHANGED <<jobs, auto>>
  BY <1>1, FaultType DEF Sources, At, Local
<1>3. /\ old \in Checkpoint /\ Phased(old) /\ old.phase = 1
  BY <1>2, RunFields, PhaseOrder DEF RunInv, Fits
<1>4. /\ cp \in Checkpoint /\ cp.phase = 2 /\ cp.looked = old.looked /\ cp.targets = old.targets
      /\ cp.leads = old.leads /\ cp.found = old.found /\ cp.web = old.web
  <2> HIDE DEF old
  <2>1. SourcesDone \in 0..Scored /\ SourcesDone = 2
    BY PhaseOrder
  <2>2. cp \in Checkpoint
    BY <1>3, <2>1 DEF Checkpoint
  <2> QED BY <1>3, <2>1, <2>2 DEF Checkpoint
<1>5. run[r].pc \in Working /\ "extract" \in Working
  BY <1>2 DEF Working
<1> HIDE DEF old, cp
<1>6. Phased(cp) /\ Fits("extract", cp) /\ cp.found = {}
  BY <1>3, <1>4, PhaseOrder DEF Phased, Fits, Late
<1>7. RunsInv'
  BY <1>2, <1>4, <1>5, <1>6, Persisted
<1>8. Maps
  BY <1>2, <1>3, <1>4, <1>5, PhaseOrder, PersistMaps DEF old
<1> QED BY <1>7, <1>8

LEMMA ExtractRun == ASSUME RunsInv, NEW r \in Runs, Extract(r) PROVE RunsInv' /\ Maps
<1> DEFINE old == run[r].cp
<1>1. PICK web \in {old.pages, old.web} :
          Persist(r, "targets", [old EXCEPT !.phase = WebExtracted, !.web = web])
  <2>1. CASE Persist(r, "targets", [old EXCEPT !.phase = WebExtracted, !.web = old.pages])
    BY <2>1
  <2>2. CASE Persist(r, "targets", [old EXCEPT !.phase = WebExtracted])
    <3>1. old \in Checkpoint
      BY RunFields
    <3>2. [old EXCEPT !.phase = WebExtracted, !.web = old.web] = [old EXCEPT !.phase = WebExtracted]
      BY <3>1 DEF Checkpoint
    <3> QED BY <2>2, <3>2
  <2> QED BY <2>1, <2>2 DEF Extract
<1> DEFINE cp == [old EXCEPT !.phase = WebExtracted, !.web = web]
<1>2. /\ run[r].pc = "extract" /\ Persist(r, "targets", cp) /\ faults' \in 0..MaxFaults
      /\ UNCHANGED <<jobs, auto>>
  BY <1>1, FaultType DEF Extract, At, Local
<1>3. /\ old \in Checkpoint /\ Phased(old) /\ old.phase = 2 /\ web \in SUBSET Emails
  BY <1>2, RunFields, PhaseOrder DEF RunInv, Fits, Checkpoint
<1>4. /\ cp \in Checkpoint /\ cp.phase = 3 /\ cp.looked = old.looked /\ cp.targets = old.targets
      /\ cp.leads = old.leads /\ cp.found = old.found
  <2> HIDE DEF old
  <2>1. WebExtracted \in 0..Scored /\ WebExtracted = 3
    BY PhaseOrder
  <2>2. cp \in Checkpoint
    BY <1>3, <2>1 DEF Checkpoint
  <2> QED BY <1>3, <2>1, <2>2 DEF Checkpoint
<1>5. run[r].pc \in Working /\ "targets" \in Working
  BY <1>2 DEF Working
<1> HIDE DEF old, cp
<1>6. /\ Phased(cp) /\ Fits("targets", cp) /\ cp.found = {} /\ old.found = {} /\ old.web = {}
  BY <1>3, <1>4, PhaseOrder DEF Phased, Fits, Late
<1>7. RunsInv'
  BY <1>2, <1>4, <1>5, <1>6, Persisted
<1>8. Maps
  BY <1>2, <1>3, <1>4, <1>5, <1>6, PhaseOrder, PersistMaps DEF old
<1> QED BY <1>7, <1>8

LEMMA TargetsRun == ASSUME RunsInv, NEW r \in Runs, Targets(r) PROVE RunsInv' /\ Maps
<1> DEFINE old == run[r].cp
           cp == [old EXCEPT !.targets = old.networks, !.found = old.web]
           pc == IF old.networks = {} /\ old.web = {} THEN "failed" ELSE "rdap"
<1>1. /\ run[r].pc = "targets" /\ Become(r, pc, cp) /\ faults' \in 0..MaxFaults
      /\ UNCHANGED <<saved, jobs, auto>>
  BY FaultType DEF Targets, At, Local
<1>2. /\ old \in Checkpoint /\ Phased(old) /\ old.phase = 3 /\ old.found = {}
      /\ (r \in jobs => Agree(saved[r], old))
  BY <1>1, RunFields, PhaseOrder DEF RunInv, Fits, Working
<1>3. /\ cp \in Checkpoint /\ cp.phase = 3 /\ cp.looked = old.looked
      /\ cp.leads = old.leads /\ cp.found = old.web /\ cp.web = old.web
  BY <1>2 DEF Checkpoint
<1>4. /\ run[r].pc \in Working \cup {"idle"} /\ run[r].pc # "done"
      /\ pc \in Places \ {"idle", "done"} /\ pc \in Places \ {"done"} /\ pc \in {"failed", "rdap"}
  BY <1>1 DEF Working, Places, Ended
<1> HIDE DEF old, cp, pc
<1>5. Phased(cp) /\ Fits(pc, cp)
  BY <1>2, <1>3, <1>4, PhaseOrder DEF Phased, Fits, Late
<1>6. r \in jobs => Agree(saved[r], cp)
  BY <1>2, <1>3 DEF Agree
<1>7. RunsInv'
  BY <1>1, <1>3, <1>4, <1>5, <1>6, Moved
<1>8. Maps
  BY <1>1, <1>3, <1>4, BecomeMaps
<1> QED BY <1>7, <1>8

LEMMA RdapRun == ASSUME RunsInv, NEW r \in Runs, Rdap(r) PROVE RunsInv' /\ Maps
<1> DEFINE old == run[r].cp
           a == First(Left(old))
<1>1. PICK rows \in {Registered[a], {}} :
          Persist(r, "rdap", [old EXCEPT !.phase = RdapProgress,
                                 !.looked = @ \cup {a}, !.found = @ \cup rows])
  BY DEF Rdap
<1> DEFINE cp == [old EXCEPT !.phase = RdapProgress,
                     !.looked = @ \cup {a}, !.found = @ \cup rows]
<1>2. /\ run[r].pc = "rdap" /\ Left(old) # {} /\ Persist(r, "rdap", cp)
      /\ faults' \in 0..MaxFaults /\ UNCHANGED <<jobs, auto>>
  BY <1>1, FaultType DEF Rdap, At, Local
<1>3. /\ old \in Checkpoint /\ Phased(old) /\ old.phase \in {3, 4, 5}
      /\ old.targets \subseteq ASNs /\ old.looked \subseteq ASNs /\ old.found \subseteq Emails
  BY <1>2, RunFields, PhaseOrder DEF RunInv, Fits, Checkpoint
<1>4. old.phase \in {3, 4} /\ old.leads = {}
  BY <1>2, <1>3, PhaseOrder DEF Phased, Left
<1>5. a \in old.targets /\ a \notin old.looked /\ a \in ASNs
  <2>1. Left(old) \subseteq Nat
    BY <1>3, Constants DEF Left
  <2> QED BY <1>2, <1>3, <2>1, FirstType DEF Left
<1>6. rows \subseteq Emails
  BY <1>5, Constants
<1> HIDE DEF a
<1>7. /\ cp \in Checkpoint /\ cp.phase = 4 /\ cp.looked = old.looked \cup {a}
      /\ cp.targets = old.targets /\ cp.leads = old.leads /\ cp.found = old.found \cup rows
      /\ cp.web = old.web
  <2> HIDE DEF old
  <2>1. /\ RdapProgress \in 0..Scored /\ RdapProgress = 4
        /\ old.looked \cup {a} \in SUBSET ASNs /\ old.found \cup rows \in SUBSET Emails
    BY <1>3, <1>5, <1>6, PhaseOrder
  <2>2. cp \in Checkpoint
    BY <1>3, <2>1 DEF Checkpoint
  <2> QED BY <1>3, <2>1, <2>2 DEF Checkpoint
<1>8. run[r].pc \in Working /\ "rdap" \in Working
  BY <1>2 DEF Working
<1> HIDE DEF old, cp
<1>9. Phased(cp) /\ Fits("rdap", cp)
  BY <1>3, <1>4, <1>5, <1>7, PhaseOrder DEF Phased, Fits, Late
<1>10. RunsInv'
  BY <1>2, <1>7, <1>8, <1>9, PhaseOrder, Persisted
<1>11. Maps
  <2>1. /\ old.phase <= cp.phase /\ cp.phase < Scored /\ old.looked \subseteq cp.looked
        /\ old.web \cup old.found \subseteq cp.web \cup cp.found
        /\ cp.looked # old.looked /\ cp.leads = old.leads
    BY <1>4, <1>5, <1>7, PhaseOrder
  <2> QED BY <1>2, <1>7, <1>8, <2>1, PersistMaps DEF old
<1> QED BY <1>10, <1>11

LEMMA LookedUpRun == ASSUME RunsInv, NEW r \in Runs, LookedUp(r) PROVE RunsInv' /\ Maps
<1> DEFINE cp == run[r].cp
           pc == IF cp.phase = Scored THEN "import" ELSE "score"
<1>1. /\ run[r].pc = "rdap" /\ Become(r, pc, cp) /\ UNCHANGED <<saved, jobs, auto>> /\ NoFault
  BY DEF LookedUp, At, Local
<1>2. cp.phase \in {3, 4, 5}
  BY <1>1, RunFields, PhaseOrder DEF RunInv, Fits
<1>3. run[r].pc \in Working /\ pc \in Places \ {"idle", "done"} /\ Fits(pc, cp)
  <2>1. cp.targets \subseteq cp.looked
    BY DEF LookedUp, Left
  <2> QED BY <1>1, <1>2, <2>1, PhaseOrder DEF Working, Places, Fits, Late
<1> HIDE DEF pc
<1> QED BY <1>1, <1>3, WalkedRun

LEMMA FinishedRun ==
  ASSUME RunsInv, NEW r \in Runs, run[r].pc \in Working, Finish(r), UNCHANGED <<jobs, auto>>, NoFault
  PROVE  RunsInv' /\ Maps
BY FaultType, Finished, FinishMaps

LEMMA ScoreRun == ASSUME RunsInv, NEW r \in Runs, Score(r) PROVE RunsInv' /\ Maps
<1> DEFINE old == run[r].cp
           left == Candidates(r)
<1>1. run[r].pc = "score" /\ run[r].pc \in Working /\ NoFault /\ UNCHANGED <<jobs, auto>>
  BY DEF Score, At, Local, Working
<1>2. CASE Finish(r)
  BY <1>1, <1>2, FinishedRun
<1>3. ASSUME NEW leads \in SUBSET left,
             Persist(r, "import", [old EXCEPT !.phase = Scored, !.found = left, !.leads = leads])
      PROVE  RunsInv' /\ Maps
  <2> DEFINE cp == [old EXCEPT !.phase = Scored, !.found = left, !.leads = leads]
  <2>1. /\ old \in Checkpoint /\ Phased(old) /\ old.phase \in {3, 4} /\ old.found \subseteq Emails
    BY <1>1, RunFields, PhaseOrder DEF RunInv, Fits, Checkpoint
  <2>2. left \subseteq old.found
    BY DEF Candidates
  <2> HIDE DEF left, old
  <2>3. /\ cp \in Checkpoint /\ cp.phase = 5 /\ cp.looked = old.looked
        /\ cp.targets = old.targets /\ cp.leads = leads /\ cp.found = left /\ cp.web = old.web
    <3>1. Scored \in 0..Scored /\ Scored = 5 /\ left \in SUBSET Emails /\ leads \in SUBSET Emails
      BY <2>1, <2>2, PhaseOrder
    <3>2. cp \in Checkpoint
      BY <2>1, <3>1 DEF Checkpoint
    <3> QED BY <2>1, <3>1, <3>2 DEF Checkpoint
  <2> HIDE DEF cp
  <2>4. "import" \in Working /\ Fits("import", cp)
    BY <2>3, PhaseOrder DEF Working, Fits, Late
  <2>5. old.targets \subseteq old.looked
    BY <1>1, RunFields DEF RunInv, Fits, old
  <2>6. Phased(cp)
    BY <2>1, <2>3, <2>5, PhaseOrder DEF Phased
  <2>7. RunsInv'
    <3>1. Persist(r, "import", cp)
      BY <1>3 DEF cp
    <3>2. ~(cp.phase < RdapProgress)
      BY <2>3, PhaseOrder
    <3> QED BY <1>1, <2>3, <2>4, <2>6, <3>1, <3>2, FaultType, Persisted
  <2>8. Maps
    <3>1. /\ old.phase < Scored /\ cp.phase = Scored /\ cp.looked = old.looked
          /\ cp.web \cup cp.found \subseteq old.web \cup old.found
          /\ cp.leads \subseteq cp.web \cup cp.found
      BY <2>1, <2>2, <2>3, PhaseOrder
    <3> QED BY <1>1, <1>3, <2>3, <2>4, <3>1, PersistMaps DEF cp, old
  <2> QED BY <2>7, <2>8
<1> QED BY <1>2, <1>3 DEF Score

LEMMA ImportLeadsRun == ASSUME RunsInv, NEW r \in Runs, ImportLeads(r) PROVE RunsInv' /\ Maps
<1>1. run[r].pc = "import" /\ run[r].pc \in Working /\ NoFault /\ UNCHANGED <<saved, jobs, auto>>
  BY DEF ImportLeads, At, Working
<1>2. PICK pc \in {"importing", "review"} : Become(r, pc, run[r].cp)
  BY DEF ImportLeads
<1>3. run[r].cp.phase = Scored
  BY <1>1, RunFields DEF RunInv, Fits, Late
<1>4. pc \in Places \ {"idle", "done"} /\ Fits(pc, run[r].cp)
  BY <1>2, <1>3 DEF Places, Working, Fits, Late
<1> QED BY <1>1, <1>2, <1>4, WalkedRun

LEMMA SaveReviewsRun == ASSUME RunsInv, NEW r \in Runs, SaveReviews(r) PROVE RunsInv' /\ Maps
<1>1. run[r].pc = "review" /\ run[r].pc \in Working /\ NoFault /\ UNCHANGED <<jobs, auto>>
  BY DEF SaveReviews, At, Working
<1>2. CASE Become(r, "saving", run[r].cp) /\ UNCHANGED saved
  <2>1. run[r].cp.phase = Scored
    BY <1>1, RunFields DEF RunInv, Fits, Late
  <2>2. "saving" \in Places \ {"idle", "done"} /\ Fits("saving", run[r].cp)
    BY <2>1 DEF Places, Working, Fits, Late
  <2> QED BY <1>1, <1>2, <2>2, WalkedRun
<1>3. CASE Finish(r)
  BY <1>1, <1>3, FinishedRun
<1> QED BY <1>2, <1>3 DEF SaveReviews

LEMMA FeedbackRun == ASSUME RunsInv, NEW r \in Runs, Feedback(r) PROVE RunsInv' /\ Maps
<1>1. run[r].pc = "feedback" /\ run[r].pc \in Working /\ NoFault /\ UNCHANGED <<jobs, auto>>
  BY DEF Feedback, At, Working
<1>2. CASE Become(r, "learning", run[r].cp) /\ UNCHANGED saved
  <2>1. run[r].cp.phase = Scored
    BY <1>1, RunFields DEF RunInv, Fits, Late
  <2>2. "learning" \in Places \ {"idle", "done"} /\ Fits("learning", run[r].cp)
    BY <2>1 DEF Places, Working, Fits, Late
  <2> QED BY <1>1, <1>2, <2>2, WalkedRun
<1>3. CASE Finish(r)
  BY <1>1, <1>3, FinishedRun
<1> QED BY <1>2, <1>3 DEF Feedback

LEMMA AnsweredRun == ASSUME RunsInv, NEW r \in Runs, Answered(r) PROVE RunsInv' /\ Maps
<1>1. NoFault /\ UNCHANGED <<jobs, auto>>
  BY DEF Answered, Local
<1>2. ASSUME NEW pc \in {"failed", "review", "feedback"}, run[r].pc \in {"importing", "saving"},
             Become(r, pc, run[r].cp), UNCHANGED saved
      PROVE  RunsInv' /\ Maps
  <2>1. run[r].cp.phase = Scored /\ run[r].pc \in Working
    BY <1>2, RunFields DEF RunInv, Fits, Late, Working
  <2>2. pc \in Places \ {"idle", "done"} /\ Fits(pc, run[r].cp)
    BY <1>2, <2>1 DEF Places, Working, Ended, Fits, Late
  <2> QED BY <1>1, <1>2, <2>1, <2>2, WalkedRun
<1>3. CASE run[r].pc = "learning" /\ Finish(r)
  <2>1. run[r].pc \in Working
    BY <1>3 DEF Working
  <2> QED BY <1>1, <1>3, <2>1, FinishedRun
<1>4. CASE /\ run[r].pc \in {"importing", "saving"} /\ UNCHANGED saved
           /\ Become(r, CASE ~call[r].ok -> "failed"
                          [] At(r, "importing") /\ call[r].ok -> "review"
                          [] At(r, "saving") /\ call[r].ok -> "feedback", run[r].cp)
  <2>1. CASE ~call[r].ok
    BY <1>2, <1>4, <2>1
  <2>2. CASE call[r].ok /\ run[r].pc = "importing"
    BY <1>2, <1>4, <2>2 DEF At
  <2>3. CASE call[r].ok /\ run[r].pc = "saving"
    BY <1>2, <1>4, <2>3 DEF At
  <2> QED BY <1>4, <2>1, <2>2, <2>3
<1> QED BY <1>3, <1>4 DEF Answered, At

LEMMA AdvanceRun == ASSUME RunsInv, NEW r \in Runs, Advance(r) PROVE RunsInv' /\ Maps
BY PlanRun, SourcesRun, ExtractRun, TargetsRun, RdapRun, LookedUpRun, ScoreRun, ImportLeadsRun,
   SaveReviewsRun, FeedbackRun, AnsweredRun DEF Advance

\* What leaves the runs alone.
LEMMA OtherRun ==
  ASSUME RunsInv, UNCHANGED <<run, jobs, saved, auto>>, faults' \in 0..MaxFaults
  PROVE  RunsInv' /\ Maps
<1>1. RunsInv'
  BY DEF RunsInv, RunInv
<1> QED BY <1>1, MapsStill

LEMMA RestartRun == ASSUME RunsInv, Restart PROVE RunsInv' /\ Maps
<1>1. /\ run' = [r \in Runs |-> IF run[r].pc \notin Working THEN run[r]
                                ELSE [Fresh EXCEPT !.pc = IF r \in jobs THEN "down" ELSE "lost"]]
      /\ UNCHANGED <<jobs, saved, auto>> /\ faults' \in 0..MaxFaults
  BY FaultType DEF Restart
<1>2. ASSUME NEW r \in Runs
      PROVE  run'[r] \in Running /\ RunInv(r)' /\ (run'[r].pc = "done" <=> run[r].pc = "done")
  <2>1. RunInv(r) /\ run[r] \in Running
    BY DEF RunsInv
  <2>2. CASE run[r].pc \notin Working
    BY <1>1, <2>1, <2>2 DEF RunInv
  <2>3. CASE run[r].pc \in Working
    <3> DEFINE pc == IF r \in jobs THEN "down" ELSE "lost"
    <3>1. run'[r] = [cp |-> Empty, pc |-> pc, shunned |-> {}]
      BY <1>1, <2>3 DEF Fresh
    <3>2. pc \in Places \ Working /\ pc \notin {"idle", "done"} /\ pc \notin Late
          /\ pc \notin {"plan", "sources", "extract", "targets", "rdap", "score"}
          /\ run[r].pc # "done"
      BY <2>3 DEF Places, Working, Ended, Late
    <3> HIDE DEF pc
    <3>3. /\ run'[r].cp = Empty /\ run'[r].pc = pc /\ run'[r].shunned = {} /\ run'[r] \in Running
      BY <3>1, <3>2, EmptyType DEF Running
    <3> QED BY <1>1, <2>1, <3>2, <3>3, EmptyType DEF RunInv, Fits
  <2> QED BY <2>2, <2>3
<1>3. run' \in [Runs -> Running]
  BY <1>1, <1>2
<1>4. RunsInv'
  BY <1>1, <1>2, <1>3 DEF RunsInv
<1>5. Maps
  BY <1>1, <1>2, MapsStill
<1> QED BY <1>4, <1>5

LEMMA RunsStart == Init => RunsInv /\ Search!Init
<1> SUFFICES ASSUME Init PROVE RunsInv /\ Search!Init
  OBVIOUS
<1>1. /\ run = [r \in Runs |-> Fresh] /\ jobs \subseteq Runs /\ saved = [r \in Runs |-> Empty]
      /\ auto \in [Runs -> BOOLEAN] /\ faults \in 0..MaxFaults
  BY Constants DEF Init
<1>2. /\ Fresh \in Running /\ Fresh.cp = Empty /\ Fresh.pc = "idle" /\ Fresh.shunned = {}
  BY EmptyType DEF Fresh, Running, Places
<1>3. ASSUME NEW r \in Runs PROVE RunInv(r)
  <2>1. run[r] = Fresh /\ saved[r] = Empty
    BY <1>1
  <2>2. "idle" \in Places \ Working /\ "idle" \notin Late
    BY DEF Places, Working, Late
  <2> QED BY <1>2, <2>1, <2>2, EmptyType DEF RunInv, Fits
<1>4. Search!Init
  BY <1>1, <1>2, EmptyType DEF Search!Init, At
<1>5. run \in [Runs -> Running] /\ saved \in [Runs -> Checkpoint]
  BY <1>1, <1>2, EmptyType
<1> QED BY <1>1, <1>3, <1>4, <1>5 DEF RunsInv

-----------------------------------------------------------------------------
(* The way of the leads.                                                   *)

\* What is sure stays sure, and what has a review keeps it.
LEMMA GivenGrows ==
  ASSUME RowsOK, Grows PROVE Sure \subseteq Sure' /\ Listed \subseteq Listed'
<1>1. DOMAIN reviews \subseteq DOMAIN reviews' /\ Sure \subseteq Sure'
  BY DomainGrows
<1>2. Listed \subseteq Listed'
  BY <1>1 DEF Listed, Grows
<1> QED BY <1>1, <1>2

LEMMA WayKept ==
  ASSUME RowsOK, Grows, NEW r \in Runs, call'[r] = call[r], run'[r] = run[r], auto' = auto, Way(r)
  PROVE  Way(r)'
<1>1. Sure \subseteq Sure' /\ Listed \subseteq Listed' /\ blocked' = blocked
  BY GivenGrows DEF Grows
<1>2. ImportWay(r)'
  BY <1>1 DEF Way, ImportWay, Arriving, At
<1>3. SaveWay(r)'
  BY <1>1 DEF Way, SaveWay, At
<1>4. GivenWay(r)'
  BY <1>1 DEF Way, GivenWay
<1> QED BY <1>2, <1>3, <1>4 DEF Way

\* A call that ends badly.
LEMMA WayFailed ==
  ASSUME RowsOK, Grows, NEW r \in Runs, run'[r] = run[r], auto' = auto, Way(r),
         call'[r].at = "idle", call'[r].ok = FALSE, call'[r].ids = {}
  PROVE  Way(r)'
<1>1. Sure \subseteq Sure' /\ Listed \subseteq Listed'
  BY GivenGrows
<1>2. ImportWay(r)' /\ SaveWay(r)'
  BY DEF Way, ImportWay, SaveWay, Arriving, At
<1>3. GivenWay(r)'
  BY <1>1 DEF Way, GivenWay
<1> QED BY <1>2, <1>3 DEF Way

\* An import or its feedback that ends, or goes on to the feedback, with every
\* lead sure.
LEMMA WayImported ==
  ASSUME RowsOK, Grows, NEW r \in Runs, run'[r] = run[r], auto' = auto, Way(r), At(r, "importing"),
         run[r].cp.leads \subseteq Sure', call'[r].ids = {},
         call'[r].at \in {"learn", "teach", "idle"}
  PROVE  Way(r)'
BY DEF Way, ImportWay, SaveWay, GivenWay, Arriving, At

\* The calls of a run that awaits none are nothing to it.
LEMMA WayElsewhere ==
  ASSUME RowsOK, Grows, NEW r \in Runs, run'[r] = run[r], auto' = auto, Way(r),
         run[r].pc \notin {"importing", "saving"}
  PROVE  Way(r)'
<1>1. Sure \subseteq Sure' /\ Listed \subseteq Listed'
  BY GivenGrows
<1> QED BY <1>1 DEF Way, ImportWay, SaveWay, GivenWay, Arriving, At

LEMMA WayImporting ==
  ASSUME ContactsInv, Grows, NEW r \in Runs, run'[r] = run[r], auto' = auto, Way(r),
         At(r, "importing"), Work(r)
  PROVE  Way(r)'
<1>1. PICK leads : leads = run[r].cp.leads
  OBVIOUS
<1>2. r \in Workers /\ Arriving(r, leads)
  BY <1>1 DEF Workers, Way, ImportWay
<1>3. Arriving(r, leads)'
  BY <1>2, ArrivingWork
<1>4. run'[r].cp.leads = leads /\ run'[r].pc = "importing"
  BY <1>1 DEF At
<1> QED BY <1>1, <1>3, <1>4 DEF Way, ImportWay, SaveWay, GivenWay, Arriving, At

LEMMA WaySaving ==
  ASSUME ContactsInv, Grows, NEW r \in Runs, run'[r] = run[r], auto' = auto, Way(r),
         At(r, "saving"), Work(r)
  PROVE  Way(r)'
<1> DEFINE c == call[r]
           leads == run[r].cp.leads
<1>1. /\ r \in Workers /\ RowsOK /\ call \in [Workers -> Calling] /\ c \in Calling
      /\ c.todo \in Seq(Emails) /\ c.new \in Seq(Review) /\ reviews \in Seq(Review)
  BY CallFields DEF Workers, ContactsInv, RowsInv, RowsOK, CallsInv, CallInv
<1>2. /\ c.at \in {"find", "idle"}
      /\ c.at = "find" =>
            leads \subseteq Elems(c.todo) \cup Listed \cup {c.new[k].email : k \in DOMAIN c.new}
  BY DEF Way, SaveWay
<1>3. Sure \subseteq Sure' /\ Listed \subseteq Listed'
  BY <1>1, GivenGrows
<1>4. ImportWay(r)' /\ GivenWay(r)'
  BY <1>3 DEF Way, ImportWay, GivenWay, At
<1>5. CASE Find(r)
  <2> DEFINE e == Head(c.todo)
             row == [email |-> e, looked |-> Len(reviews),
                     status |-> IF c.found THEN "pending" ELSE "imported"]
             rest == [c EXCEPT !.todo = Tail(@)]
             more == [c EXCEPT !.todo = Tail(@), !.new = Append(@, row)]
  <2>1. /\ c.at = "find" /\ c.todo # <<>> /\ reviews' = reviews
        /\ call'[r] = IF Pending(e, r) THEN rest ELSE more
    BY <1>1, <1>5 DEF Find, Set
  <2>2. Elems(c.todo) = {e} \cup Elems(Tail(c.todo))
    BY <1>1, <2>1, ElemsTail
  <2>3. CASE Pending(e, r)
    <3>1. call'[r].at = "find" /\ call'[r].todo = Tail(c.todo) /\ call'[r].new = c.new
      BY <1>1, <2>1, <2>3 DEF Calling
    <3>2. e \in Listed \cup {c.new[k].email : k \in DOMAIN c.new}
      BY <2>3 DEF Pending, Listed
    <3>3. leads \subseteq Elems(Tail(c.todo)) \cup Listed \cup {c.new[k].email : k \in DOMAIN c.new}
      BY <1>2, <2>1, <2>2, <3>2
    <3>4. SaveWay(r)'
      BY <2>1, <3>1, <3>3 DEF SaveWay, Listed
    <3> QED BY <1>4, <3>4 DEF Way
  <2>4. CASE ~Pending(e, r)
    <3>1. call'[r].at = "find" /\ call'[r].todo = Tail(c.todo) /\ call'[r].new = Append(c.new, row)
      <4> HIDE DEF row
      <4> QED BY <1>1, <2>1, <2>4 DEF Calling
    <3>2. /\ row.email = e /\ DOMAIN Append(c.new, row) = DOMAIN c.new \cup {Len(c.new) + 1}
          /\ Append(c.new, row)[Len(c.new) + 1] = row
          /\ \A k \in DOMAIN c.new : Append(c.new, row)[k] = c.new[k]
      <4>1. row.email = e
        OBVIOUS
      <4> HIDE DEF row
      <4> QED BY <1>1, <4>1
    <3> HIDE DEF row
    <3>3. \A x \in {c.new[k].email : k \in DOMAIN c.new} \cup {e} :
             x \in {call'[r].new[k].email : k \in DOMAIN call'[r].new}
      BY <3>1, <3>2
    <3>4. SaveWay(r)'
      BY <1>2, <2>1, <2>2, <3>1, <3>3 DEF SaveWay, Listed
    <3> QED BY <1>4, <3>4 DEF Way
  <2> QED BY <2>3, <2>4
<1>6. CASE Keep(r)
  <2>1. c.at = "find" /\ c.todo = <<>> /\ reviews' = reviews \o c.new /\ call'[r] = Returned(TRUE)
    BY <1>1, <1>6 DEF Keep, Set
  <2>2. \A k \in DOMAIN c.new : c.new[k].email \in Listed'
    <3> SUFFICES ASSUME NEW k \in DOMAIN c.new PROVE c.new[k].email \in Listed'
      OBVIOUS
    <3>1. Len(reviews) + k \in DOMAIN reviews' /\ reviews'[Len(reviews) + k] = c.new[k]
      BY <1>1, <2>1
    <3> QED BY <3>1 DEF Listed
  <2>3. leads \subseteq Listed'
    BY <1>2, <1>3, <2>1, <2>2, EmptyElems
  <2>4. SaveWay(r)'
    BY <2>1, <2>3, ReturnedType DEF SaveWay
  <2> QED BY <1>4, <2>4 DEF Way
<1>7. CASE Look(r) \/ Write(r) \/ Deadlock(r) \/ Commit(r) \/ Mark(r) \/ Learn(r) \/ Teach(r)
  <2>1. Deadlock(r) => c.at = "write"
    BY DEF Deadlock
  <2> QED BY <1>2, <1>7, <2>1 DEF Look, Write, Commit, Mark, Learn, Teach
<1> QED BY <1>5, <1>6, <1>7 DEF Work

\* A statement of any thread.
LEMMA WayWork ==
  ASSUME ContactsInv, WayInv, NEW w \in Workers, Work(w), UNCHANGED <<run, auto>>
  PROVE  WayInv'
<1>1. Grows /\ RowsOK /\ CallsInv
  BY ContactsWork DEF ContactsInv, RowsInv
<1> SUFFICES ASSUME NEW r \in Runs PROVE Way(r)'
  BY DEF WayInv
<1>2. Way(r) /\ r \in Workers
  BY DEF WayInv, Workers
<1>3. CASE r # w
  <2>1. call'[r] = call[r]
    BY <1>1, <1>2, <1>3, OthersStay
  <2> QED BY <1>1, <1>2, <2>1, WayKept
<1>4. CASE r = w
  <2>1. CASE At(r, "importing")
    BY <1>1, <1>2, <1>4, <2>1, WayImporting
  <2>2. CASE At(r, "saving")
    BY <1>1, <1>2, <1>4, <2>2, WaySaving
  <2>3. CASE ~At(r, "importing") /\ ~At(r, "saving")
    BY <1>1, <1>2, <2>3, WayElsewhere DEF At
  <2> QED BY <2>1, <2>2, <2>3
<1> QED BY <1>3, <1>4

\* A request of the user is no call of a run.
LEMMA WayAsk ==
  ASSUME ContactsInv, WayInv, NEW u \in Users, Ask(u), UNCHANGED <<run, auto>>
  PROVE  WayInv'
<1>1. Grows /\ RowsOK /\ CallsInv
  BY ContactsAsk DEF ContactsInv, RowsInv
<1> SUFFICES ASSUME NEW r \in Runs PROVE Way(r)'
  BY DEF WayInv
<1>2. Way(r) /\ r \in Workers /\ u \in Workers /\ r # u
  BY Bounds DEF WayInv, Workers
<1>3. call'[r] = call[r]
  BY <1>1, <1>2, OthersStay
<1> QED BY <1>1, <1>2, <1>3, WayKept

-----------------------------------------------------------------------------
(* The steps of the runs, for the contacts and the way of the leads.       *)

LEMMA Became ==
  ASSUME RunsInv, NEW r \in Runs, NEW pc, NEW cp, Become(r, pc, cp)
  PROVE  /\ run'[r].pc = pc /\ run'[r].cp = cp
         /\ \A q \in Runs \ {r} : run'[q] = run[q]
<1> DEFINE next == [run[r] EXCEPT !.pc = pc, !.cp = cp]
<1>1. run \in [Runs -> Running] /\ run[r] \in Running
  BY DEF RunsInv
<1>2. next.pc = pc /\ next.cp = cp
  BY <1>1 DEF Running
<1>3. run' = [run EXCEPT ![r] = next]
  BY <1>1 DEF Become
<1> HIDE DEF next
<1> QED BY <1>1, <1>2, <1>3

\* A step of one run: the leads of the others are where they were.
LEMMA OneWay ==
  ASSUME RowsOK, Grows, WayInv, NEW r \in Runs, auto' = auto,
         \A q \in Runs \ {r} : run'[q] = run[q] /\ call'[q] = call[q], Way(r)'
  PROVE  WayInv'
<1>1. ASSUME NEW q \in Runs \ {r} PROVE Way(q)'
  BY WayKept DEF WayInv
<1> QED BY <1>1 DEF WayInv

\* A step that calls nothing.
LEMMA LocalWay ==
  ASSUME Inv, NEW r \in Runs, UNCHANGED <<contactVars, auto>>,
         \A q \in Runs \ {r} : run'[q] = run[q], Grows => Way(r)'
  PROVE  ContactsInv' /\ WayInv'
<1>1. ContactsInv' /\ Grows /\ call' = call
  BY ContactsStill DEF Inv, contactVars
<1> QED BY <1>1, OneWay DEF Inv, ContactsInv, RowsInv

\* Places where nothing is said of the leads.
Silent == Places \ {"importing", "review", "saving", "feedback", "learning", "done"}

LEMMA SilentWay == ASSUME NEW r \in Runs, run'[r].pc \in Silent PROVE Way(r)'
BY DEF Silent, Way, ImportWay, SaveWay, GivenWay, Arriving, At

LEMMA SilentStep ==
  ASSUME Inv, NEW r \in Runs, NEW pc \in Silent, NEW cp, Become(r, pc, cp),
         UNCHANGED <<contactVars, auto>>
  PROVE  ContactsInv' /\ WayInv'
BY Became, SilentWay, LocalWay DEF Inv

LEMMA BeginWay ==
  ASSUME Inv, NEW r \in Runs, Start(r) \/ Resume(r) PROVE ContactsInv' /\ WayInv'
<1>1. PICK cp : Begin(r, cp) /\ (cp = Empty \/ cp = saved[r])
  BY DEF Start, Resume
<1>2. UNCHANGED <<contactVars, auto>> /\ run \in [Runs -> Running]
  BY DEF Start, Resume, Inv, RunsInv
<1>3. /\ run'[r] = [cp |-> cp, pc |-> StartAt(cp), shunned |-> Elems(avoid)]
      /\ \A q \in Runs \ {r} : run'[q] = run[q]
  BY <1>1, <1>2 DEF Begin
<1>4. cp.phase \in {0, 1, 2, 3, 4, 5}
  <2>1. cp \in Checkpoint
    BY <1>1, RunFields, EmptyType DEF Inv, RunInv
  <2> QED BY <2>1, PhaseOrder DEF Checkpoint
<1>5. StartAt(cp) \in {"plan", "sources", "extract", "targets", "rdap"}
  BY <1>4, PhaseOrder DEF StartAt
<1>6. run'[r].pc \in Silent
  BY <1>3, <1>5 DEF Silent, Places, Working
<1> QED BY <1>2, <1>3, <1>6, SilentWay, LocalWay

LEMMA EarlyWay ==
  ASSUME Inv, NEW r \in Runs,
         \/ Fail(r) \/ Cancel(r) \/ Plan(r) \/ Sources(r) \/ Extract(r) \/ Targets(r)
         \/ Rdap(r) \/ LookedUp(r)
  PROVE  ContactsInv' /\ WayInv'
<1>1. UNCHANGED <<contactVars, auto>>
  BY DEF Fail, Cancel, Plan, Sources, Extract, Targets, Rdap, LookedUp, Local
<1>2. {"failed", "cancelled", "sources", "extract", "targets", "rdap", "import", "score"} \subseteq Silent
  BY DEF Silent, Places, Working, Ended
<1>3. \E pc \in Silent : \E cp : Become(r, pc, cp)
  <2>1. CASE Fail(r) \/ Cancel(r)
    BY <1>2, <2>1 DEF Fail, Cancel
  <2>2. CASE Plan(r)
    BY <1>2, <2>2 DEF Plan, Persist
  <2>3. CASE Sources(r)
    BY <1>2, <2>3 DEF Sources, Persist
  <2>4. CASE Extract(r)
    BY <1>2, <2>4 DEF Extract, Persist
  <2>5. CASE Targets(r)
    BY <1>2, <2>5 DEF Targets
  <2>6. CASE Rdap(r)
    BY <1>2, <2>6 DEF Rdap, Persist
  <2>7. CASE LookedUp(r)
    BY <1>2, <2>7 DEF LookedUp
  <2> QED BY <2>1, <2>2, <2>3, <2>4, <2>5, <2>6, <2>7
<1> QED BY <1>1, <1>3, SilentStep

\* A run that is done: its leads are where they have to be.
LEMMA DoneWay ==
  ASSUME Inv, NEW r \in Runs, Finish(r), UNCHANGED <<contactVars, auto>>,
         run[r].cp.leads \subseteq Listed, auto[r] => run[r].cp.leads \subseteq Sure
  PROVE  ContactsInv' /\ WayInv'
<1>1. /\ run'[r].pc = "done" /\ run'[r].cp = run[r].cp
      /\ \A q \in Runs \ {r} : run'[q] = run[q]
  BY Became DEF Finish, Inv
<1>2. ASSUME Grows PROVE Way(r)'
  <2>1. Sure \subseteq Sure' /\ Listed \subseteq Listed'
    BY <1>2, GivenGrows DEF Inv, ContactsInv, RowsInv
  <2> QED BY <1>1, <2>1 DEF Way, ImportWay, SaveWay, GivenWay, Arriving, At
<1> QED BY <1>1, <1>2, LocalWay

LEMMA ScoreWay == ASSUME Inv, NEW r \in Runs, Score(r) PROVE ContactsInv' /\ WayInv'
<1>1. At(r, "score") /\ UNCHANGED <<contactVars, auto>>
  BY DEF Score, Local
<1>2. CASE Finish(r)
  <2>1. run[r].cp.leads = {}
    <3>1. Fits("score", run[r].cp) /\ Phased(run[r].cp)
      BY <1>1, RunFields DEF Inv, RunInv, At
    <3> QED BY <3>1, PhaseOrder DEF Fits, Phased
  <2> QED BY <1>1, <1>2, <2>1, DoneWay
<1>3. CASE \E leads \in SUBSET Candidates(r) :
              Persist(r, "import", [run[r].cp EXCEPT !.phase = Scored,
                                       !.found = Candidates(r), !.leads = leads])
  <2>1. \E cp : Become(r, "import", cp)
    BY <1>3 DEF Persist
  <2>2. "import" \in Silent
    BY DEF Silent, Places, Working
  <2> QED BY <1>1, <2>1, <2>2, SilentStep
<1> QED BY <1>2, <1>3 DEF Score

\* A call of the run, and the place it then waits at.
LEMMA CalledWay ==
  ASSUME Inv, NEW r \in Runs, NEW d, Opening(d, Sure), Calls(r, d), auto' = auto,
         NEW pc, Become(r, pc, run[r].cp), Grows /\ call'[r] = d => Way(r)'
  PROVE  ContactsInv' /\ WayInv'
<1>1. r \in Workers /\ Set(r, d) /\ Still /\ requests' \in 0..MaxRequests
  BY DEF Calls, Still, Workers, Inv, ContactsInv, RowsInv, RowsOK
<1>2. ContactsInv' /\ Grows
  BY <1>1, OpenedStill DEF Inv
<1>3. call'[r] = d /\ \A q \in Runs \ {r} : call'[q] = call[q]
  BY <1>1 DEF Set, Inv, ContactsInv, CallsInv, Workers
<1>4. \A q \in Runs \ {r} : run'[q] = run[q]
  BY Became DEF Inv
<1> QED BY <1>2, <1>3, <1>4, OneWay DEF Inv, ContactsInv, RowsInv

LEMMA ImportLeadsWay == ASSUME Inv, NEW r \in Runs, ImportLeads(r) PROVE ContactsInv' /\ WayInv'
<1> DEFINE leads == run[r].cp.leads
<1>1. auto' = auto /\ leads \subseteq Emails
  BY RunFields DEF ImportLeads, Inv, Checkpoint
<1>2. CASE auto[r] /\ leads # {}
  <2>1. PICK rows \in Orders(leads) : Calls(r, Import(rows, TRUE, {}))
    BY <1>2 DEF ImportLeads
  <2> DEFINE d == Import(rows, TRUE, {})
  <2>2. rows \in Seq(Emails) /\ Elems(rows) = leads
    <3>1. IsFiniteSet(leads)
      BY <1>1, Bounds, FS_Subset
    <3>2. rows \in Seq(leads) /\ Elems(rows) = leads
      BY <3>1, OrdersType
    <3> QED BY <1>1, <3>2
  <2>3. Opening(d, Sure)
    <3>1. EmailsOf({}) = {}
      BY DEF EmailsOf
    <3> QED BY <2>2, <3>1, ImportOpening
  <2>4. d.at = "look" /\ d.todo = rows /\ d.ids = {}
    BY DEF Import, Returned
  <2>5. Become(r, "importing", run[r].cp)
    BY <1>2 DEF ImportLeads
  <2> HIDE DEF d
  <2>6. ASSUME call'[r] = d PROVE Way(r)'
    <3>1. run'[r].pc = "importing" /\ run'[r].cp = run[r].cp
      BY <2>5, Became DEF Inv
    <3> QED BY <1>1, <1>2, <2>2, <2>4, <2>6, <3>1
           DEF Way, ImportWay, SaveWay, GivenWay, Arriving, At
  <2>7. Calls(r, d)
    BY <2>1 DEF d
  <2> QED BY <1>1, <2>3, <2>5, <2>6, <2>7, CalledWay
<1>3. CASE ~(auto[r] /\ leads # {})
  <2>1. Become(r, "review", run[r].cp) /\ UNCHANGED contactVars
    BY <1>3 DEF ImportLeads
  <2>2. /\ run'[r].pc = "review" /\ run'[r].cp = run[r].cp
        /\ \A q \in Runs \ {r} : run'[q] = run[q]
    BY <2>1, Became DEF Inv
  <2>3. Way(r)'
    BY <1>1, <1>3, <2>2 DEF Way, ImportWay, SaveWay, GivenWay, Arriving, At
  <2> QED BY <1>1, <2>1, <2>2, <2>3, LocalWay
<1> QED BY <1>2, <1>3

LEMMA SaveReviewsWay == ASSUME Inv, NEW r \in Runs, SaveReviews(r) PROVE ContactsInv' /\ WayInv'
<1> DEFINE leads == run[r].cp.leads
<1>1. /\ auto' = auto /\ leads \subseteq Emails /\ auto \in [Runs -> BOOLEAN]
      /\ auto[r] => leads \subseteq Sure
  BY RunFields DEF SaveReviews, Inv, RunsInv, Checkpoint, WayInv, Way, GivenWay, At
<1>2. CASE leads # {}
  <2> DEFINE status == IF auto[r] THEN "imported" ELSE "pending"
  <2>1. PICK rows \in Orders(leads) : Calls(r, Saving(rows, status))
    BY <1>2 DEF SaveReviews
  <2> DEFINE d == Saving(rows, status)
  <2>2. rows \in Seq(Emails) /\ Elems(rows) = leads
    <3>1. IsFiniteSet(leads)
      BY <1>1, Bounds, FS_Subset
    <3>2. rows \in Seq(leads) /\ Elems(rows) = leads
      BY <3>1, OrdersType
    <3> QED BY <1>1, <3>2
  <2>3. Opening(d, Sure)
    <3>1. status = "pending" \/ Elems(rows) \subseteq Sure
      BY <1>1, <2>2
    <3> QED BY <2>2, <3>1, SavingOpening
  <2>4. d.at = "find" /\ d.todo = rows
    BY DEF Saving, Returned
  <2>5. Become(r, "saving", run[r].cp) /\ Calls(r, d)
    BY <1>2, <2>1 DEF SaveReviews
  <2> HIDE DEF d, status
  <2>6. ASSUME Grows, call'[r] = d PROVE Way(r)'
    <3>1. run'[r].pc = "saving" /\ run'[r].cp = run[r].cp
      BY <2>5, Became DEF Inv
    <3>2. Sure \subseteq Sure'
      BY <2>6, GivenGrows DEF Inv, ContactsInv, RowsInv
    <3> QED BY <1>1, <2>2, <2>4, <2>6, <3>1, <3>2
           DEF Way, ImportWay, SaveWay, GivenWay, Arriving, At
  <2> QED BY <1>1, <2>3, <2>5, <2>6, CalledWay
<1>3. CASE leads = {}
  <2>1. Finish(r) /\ UNCHANGED contactVars
    BY <1>3 DEF SaveReviews
  <2> QED BY <1>1, <1>3, <2>1, DoneWay
<1> QED BY <1>2, <1>3

LEMMA FeedbackWay == ASSUME Inv, NEW r \in Runs, Feedback(r) PROVE ContactsInv' /\ WayInv'
<1> DEFINE leads == run[r].cp.leads
           d == [Returned(FALSE) EXCEPT !.at = "learn"]
<1>1. /\ auto' = auto /\ At(r, "feedback") /\ leads \subseteq Listed
      /\ auto[r] => leads \subseteq Sure
  BY DEF Feedback, Inv, WayInv, Way, GivenWay, At
<1>2. CASE Calls(r, d) /\ Become(r, "learning", run[r].cp)
  <2>1. Opening(d, Sure)
    <3>1. <<>> \in Seq(Emails) /\ Len(<<>>) <= 1
      OBVIOUS
    <3> QED BY <3>1, LearnOpening
  <2> HIDE DEF d
  <2>2. ASSUME Grows PROVE Way(r)'
    <3>1. run'[r].pc = "learning" /\ run'[r].cp = run[r].cp
      BY <1>2, Became DEF Inv
    <3>2. Sure \subseteq Sure' /\ Listed \subseteq Listed'
      BY <2>2, GivenGrows DEF Inv, ContactsInv, RowsInv
    <3> QED BY <1>1, <3>1, <3>2 DEF Way, ImportWay, SaveWay, GivenWay, Arriving, At
  <2> QED BY <1>1, <1>2, <2>1, <2>2, CalledWay
<1>3. CASE Finish(r) /\ UNCHANGED contactVars
  BY <1>1, <1>3, DoneWay
<1> QED BY <1>2, <1>3 DEF Feedback

LEMMA AnsweredWay == ASSUME Inv, NEW r \in Runs, Answered(r) PROVE ContactsInv' /\ WayInv'
<1> DEFINE leads == run[r].cp.leads
           c == call[r]
<1>1. /\ UNCHANGED <<contactVars, auto>> /\ c.at = "idle" /\ Way(r)
  BY DEF Answered, Local, Idle, Inv, WayInv
<1>2. c.ok \in BOOLEAN
  BY CallFields DEF Inv, ContactsInv, Workers, Calling
<1>3. ASSUME NEW pc, Become(r, pc, run[r].cp),
             \/ pc = "failed"
             \/ pc = "review" /\ leads \subseteq Sure
             \/ pc = "feedback" /\ leads \subseteq Listed /\ (auto[r] => leads \subseteq Sure)
      PROVE  ContactsInv' /\ WayInv'
  <2>1. /\ run'[r].pc = pc /\ run'[r].cp = run[r].cp
        /\ \A q \in Runs \ {r} : run'[q] = run[q]
    BY <1>3, Became DEF Inv
  <2>2. ASSUME Grows PROVE Way(r)'
    <3>1. Sure \subseteq Sure' /\ Listed \subseteq Listed'
      BY <2>2, GivenGrows DEF Inv, ContactsInv, RowsInv
    <3> QED BY <1>1, <1>3, <2>1, <3>1 DEF Way, ImportWay, SaveWay, GivenWay, Arriving, At
  <2> QED BY <1>1, <2>1, <2>2, LocalWay
<1>4. CASE run[r].pc = "learning" /\ Finish(r)
  <2>1. leads \subseteq Listed /\ (auto[r] => leads \subseteq Sure)
    BY <1>1, <1>4 DEF Way, GivenWay
  <2> QED BY <1>1, <1>4, <2>1, DoneWay
<1>5. CASE /\ run[r].pc \in {"importing", "saving"}
           /\ Become(r, CASE ~c.ok -> "failed"
                          [] At(r, "importing") /\ c.ok -> "review"
                          [] At(r, "saving") /\ c.ok -> "feedback", run[r].cp)
  <2>1. CASE ~c.ok
    BY <1>3, <1>5, <2>1
  <2>2. CASE c.ok /\ run[r].pc = "importing"
    <3>1. leads \subseteq Sure
      BY <1>1, <1>2, <2>2 DEF Way, ImportWay, Arriving, At
    <3> QED BY <1>3, <1>5, <2>2, <3>1 DEF At
  <2>3. CASE c.ok /\ run[r].pc = "saving"
    <3>1. leads \subseteq Listed /\ (auto[r] => leads \subseteq Sure)
      BY <1>1, <1>2, <2>3 DEF Way, SaveWay, GivenWay, At
    <3> QED BY <1>3, <1>5, <2>3, <3>1 DEF At
  <2> QED BY <1>2, <1>5, <2>1, <2>2, <2>3
<1> QED BY <1>4, <1>5 DEF Answered, At

LEMMA AdvanceWay == ASSUME Inv, NEW r \in Runs, Advance(r) PROVE ContactsInv' /\ WayInv'
BY EarlyWay, ScoreWay, ImportLeadsWay, SaveReviewsWay, FeedbackWay, AnsweredWay DEF Advance

\* A transaction that fails with its database: the feedback after an import
\* fails alone, the import stands.
LEMMA DatabaseFailsWay ==
  ASSUME Inv, NEW w \in Workers, DatabaseFails(w) PROVE ContactsInv' /\ WayInv'
<1> DEFINE c == call[w]
           d == IF c.at \in {"learn", "teach"} THEN After(c) ELSE Returned(FALSE)
<1>1. /\ Set(w, d) /\ Still /\ UNCHANGED <<run, auto>> /\ requests' \in 0..MaxRequests
  BY DEF DatabaseFails, Failed, Still, Inv, ContactsInv, RowsInv, RowsOK
<1>2. c \in Calling /\ c.ids \subseteq DOMAIN reviews /\ MadeSure(w)
  BY CallFields DEF Inv, ContactsInv, CallInv
<1>3. Opening(d, Sure)
  <2>1. CASE c.at \in {"learn", "teach"}
    <3>1. EmailsOf(c.ids) \subseteq Sure
      BY <1>2, <2>1 DEF MadeSure
    <3> QED BY <1>2, <2>1, <3>1, AfterOpening
  <2>2. CASE c.at \notin {"learn", "teach"}
    BY <2>2, ReturnedOpening
  <2> QED BY <2>1, <2>2
<1>4. ContactsInv' /\ Grows
  BY <1>1, <1>3, OpenedStill DEF Inv
<1>5. call'[w] = d /\ \A q \in Workers \ {w} : call'[q] = call[q]
  BY <1>1 DEF Set, Inv, ContactsInv, CallsInv
<1>6. ASSUME NEW r \in Runs PROVE Way(r)'
  <2>1. Way(r) /\ r \in Workers /\ RowsOK /\ run'[r] = run[r] /\ auto' = auto
    BY <1>1 DEF Inv, WayInv, Workers, ContactsInv, RowsInv
  <2>2. CASE r # w
    BY <1>4, <1>5, <2>1, <2>2, WayKept
  <2>3. CASE r = w /\ c.at \notin {"learn", "teach"}
    BY <1>4, <1>5, <2>1, <2>3, ReturnedType, WayFailed
  <2>4. CASE r = w /\ c.at \in {"learn", "teach"} /\ At(r, "importing")
    <3>1. c.ids = {} /\ run[r].cp.leads \subseteq Sure
      BY <2>1, <2>4 DEF Way, ImportWay, Arriving
    <3>2. call'[r] = Returned(TRUE)
      BY <1>5, <2>4, <3>1, AfterNothing
    <3>3. Sure \subseteq Sure'
      BY <1>4, <2>1, GivenGrows
    <3> QED BY <1>4, <2>1, <2>4, <3>1, <3>2, <3>3, ReturnedType, WayImported
  <2>5. CASE r = w /\ c.at \in {"learn", "teach"} /\ ~At(r, "importing")
    <3>1. ~At(r, "saving")
      BY <2>1, <2>5 DEF Way, SaveWay
    <3> QED BY <1>4, <2>1, <2>5, <3>1, WayElsewhere DEF At
  <2> QED BY <2>2, <2>3, <2>4, <2>5
<1> QED BY <1>4, <1>6 DEF WayInv

LEMMA RestartWay == ASSUME Inv, Restart PROVE ContactsInv' /\ WayInv'
<1>1. /\ Still /\ auto' = auto /\ requests' \in 0..MaxRequests
      /\ call' = [w \in Workers |-> Returned(FALSE)]
      /\ run' = [r \in Runs |-> IF run[r].pc \notin Working THEN run[r]
                                ELSE [Fresh EXCEPT !.pc = IF r \in jobs THEN "down" ELSE "lost"]]
  BY DEF Restart, Still, Inv, ContactsInv, RowsInv, RowsOK
<1>2. ContactsInv' /\ Grows /\ RowsOK
  BY <1>1, CallsLost DEF Inv, ContactsInv, RowsInv
<1>3. ASSUME NEW r \in Runs PROVE Way(r)'
  <2>1. CASE run[r].pc \notin Working
    <3>1. run'[r] = run[r] /\ run[r].pc \notin {"importing", "saving"} /\ Way(r)
      BY <1>1, <2>1 DEF Working, Inv, WayInv
    <3> QED BY <1>1, <1>2, <3>1, WayElsewhere
  <2>2. CASE run[r].pc \in Working
    <3>1. run'[r].pc \in {"down", "lost"}
      BY <1>1, <2>2 DEF Fresh
    <3>2. run'[r].pc \in Silent
      BY <3>1 DEF Silent, Places, Ended
    <3> QED BY <3>2, SilentWay
  <2> QED BY <2>1, <2>2
<1> QED BY <1>2, <1>3 DEF WayInv

-----------------------------------------------------------------------------
(* The theorems.                                                           *)

LEMMA InvInit == Init => Inv
<1> SUFFICES ASSUME Init PROVE Inv
  OBVIOUS
<1>1. ContactsInv
  BY ContactsStart DEF Init
<1>2. ASSUME NEW r \in Runs PROVE Way(r)
  <2>1. run[r].pc = "idle"
    BY DEF Init, Fresh
  <2> QED BY <2>1 DEF Way, ImportWay, SaveWay, GivenWay, Arriving, At
<1> QED BY <1>1, <1>2, RunsStart DEF Inv, WayInv

LEMMA InvNext == Inv /\ [Next]_vars => Inv' /\ Maps
<1> SUFFICES ASSUME Inv, [Next]_vars PROVE Inv' /\ Maps
  OBVIOUS
<1>1. RunsInv /\ ContactsInv /\ WayInv /\ Elems(avoid) \subseteq Emails
  BY ElemsType DEF Inv, ContactsInv, RowsInv, RowsOK
<1>2. ASSUME NEW r \in Runs, Start(r) \/ Resume(r) PROVE Inv' /\ Maps
  BY <1>1, <1>2, StartRun, ResumeRun, BeginWay DEF Inv
<1>3. ASSUME NEW r \in Runs, Advance(r) PROVE Inv' /\ Maps
  BY <1>1, <1>3, AdvanceRun, AdvanceWay DEF Inv
<1>4. ASSUME NEW r \in Runs, Fail(r) \/ Cancel(r) PROVE Inv' /\ Maps
  BY <1>1, <1>4, StoppedRun, EarlyWay DEF Inv
<1>5. ASSUME NEW w \in Workers, Threads(w) PROVE Inv' /\ Maps
  <2>1. Work(w) /\ UNCHANGED <<run, jobs, saved, auto>> /\ faults' \in 0..MaxFaults
    BY <1>1, <1>5 DEF Threads, RunsInv
  <2> QED BY <1>1, <2>1, ContactsWork, WayWork, OtherRun DEF Inv
<1>6. ASSUME NEW w \in Workers, DatabaseFails(w) PROVE Inv' /\ Maps
  <2>1. UNCHANGED <<run, jobs, saved, auto>> /\ faults' \in 0..MaxFaults
    BY <1>1, <1>6, FaultType DEF DatabaseFails
  <2> QED BY <1>1, <1>6, <2>1, DatabaseFailsWay, OtherRun DEF Inv
<1>7. ASSUME NEW u \in Users, Ask(u), UNCHANGED <<run, jobs, saved, auto, faults>>
      PROVE  Inv' /\ Maps
  <2>1. UNCHANGED <<run, jobs, saved, auto>> /\ faults' \in 0..MaxFaults
    BY <1>1, <1>7 DEF RunsInv
  <2> QED BY <1>1, <1>7, <2>1, ContactsAsk, WayAsk, OtherRun DEF Inv
<1>8. CASE Restart
  BY <1>1, <1>8, RestartRun, RestartWay DEF Inv
<1>9. CASE UNCHANGED vars
  <2>1. /\ UNCHANGED <<run, jobs, saved, auto>> /\ faults' \in 0..MaxFaults
        /\ UNCHANGED contactVars /\ call' = call
    BY <1>1, <1>9 DEF vars, contactVars, RunsInv
  <2>2. ContactsInv' /\ Grows
    BY <1>1, <2>1, ContactsStill
  <2>3. ASSUME NEW r \in Runs PROVE Way(r)'
    BY <1>1, <2>1, <2>2, WayKept DEF WayInv, ContactsInv, RowsInv
  <2> QED BY <1>1, <2>1, <2>2, <2>3, OtherRun DEF Inv, WayInv
<1> QED BY <1>2, <1>3, <1>4, <1>5, <1>6, <1>7, <1>8, <1>9 DEF Next

LEMMA InvAlways == Spec => []Inv
BY InvInit, InvNext, PTL DEF Spec

\* Whatever fails, is cancelled or restarts, runs, threads, rows and
\* checkpoints have their types: _persist writes only what read back resumes.
THEOREM TypeCorrect == Spec => []TypeOK
<1>1. Inv => TypeOK
  <2> SUFFICES ASSUME Inv PROVE TypeOK
    OBVIOUS
  <2>1. ContactsTypeOK
    BY TypesFollow DEF Inv, ContactsInv, RowsInv
  <2>2. ASSUME NEW r \in Runs
        PROVE  /\ run[r].pc \in Working \cup Ended \cup {"idle", "down"}
               /\ run[r].shunned \subseteq Emails
               /\ run[r].cp.phase \in 0..Scored
               /\ run[r].cp.looked \subseteq run[r].cp.targets
               /\ run[r].cp.targets \subseteq ASNs
               /\ run[r].cp.leads \subseteq run[r].cp.found
               /\ run[r].cp.found \subseteq Emails
               /\ saved[r].phase \in 0..Scored
    BY RunFields DEF Inv, RunInv, Phased, Checkpoint, Places
  <2>3. /\ DOMAIN run = Runs /\ DOMAIN saved = Runs /\ jobs \subseteq Runs
        /\ auto \in [Runs -> BOOLEAN] /\ faults \in 0..MaxFaults
    BY DEF Inv, RunsInv
  <2> QED BY <2>1, <2>2, <2>3 DEF TypeOK
<1> QED BY <1>1, InvAlways, PTL

\* import_contacts, import_lead_reviews and save_lead_reviews leave a review as
\* imported only when its address has been a contact, the filter refuses it, or
\* the user wrote the status himself, for any number of threads at once.
THEOREM MarkedAreContacts == Spec => []ImportedIsContact
<1>1. Inv => ImportedIsContact
  BY DEF Inv, ContactsInv, RowsInv
<1> QED BY <1>1, InvAlways, PTL

\* save_lead_reviews leaves two pending reviews of an address only when the
\* second thread looked before the first had inserted, or the user reopened one.
THEOREM PendingOnce == Spec => []OnePending
<1>1. Inv => OnePending
  BY DEF Inv, ContactsInv, RowsInv
<1> QED BY <1>1, InvAlways, PTL

\* An address the user rejected stays in avoid_domains, unless it fell off the
\* end, was reset, or was overwritten from preferences read before it.
THEOREM RejectionsKept == Spec => []RejectionKept
<1>1. Inv => RejectionKept
  BY DEF Inv, ContactsInv, RowsInv
<1> QED BY <1>1, InvAlways, PTL

\* A run that ends as done, however often it was resumed, has given every lead a
\* review and, with auto_import, made it a contact the filter did not refuse.
THEOREM LeadsGiven == Spec => []LeadsArrive
<1>1. Inv => LeadsArrive
  BY DEF Inv, WayInv, Way, GivenWay, LeadsArrive, At, Listed, Sure
<1> QED BY <1>1, InvAlways, PTL

\* The checkpoints implement LeadSearch: over restarts, failures and cancels a
\* job's record only moves forward, and what is scored was found.
THEOREM SearchImplemented == Spec => ImplementsLeadSearch
<1>1. Init => Search!Init
  BY RunsStart
<1>2. Inv /\ [Next]_vars => [Search!Next]_(Search!vars)
  BY InvNext DEF Maps
<1> QED BY <1>1, <1>2, InvAlways, PTL DEF Spec, ImplementsLeadSearch, Search!Spec
=============================================================================
