--------------------------- MODULE SnapshotsProofs ---------------------------
(***************************************************************************)
(* Theorems about Snapshots, for every set of incarnations and every       *)
(* limit.                                                                  *)
(*                                                                         *)
(* A snapshot of the running process binds generations that the rack has   *)
(* reached, so it can be current only while none has moved; every step     *)
(* that changes records moves one or is silent.  A snapshot that reached a *)
(* file is behind the file's epoch, and a process that loads the file is   *)
(* one ahead of that.  For the retained ones the same facts are needed of  *)
(* the file as of the state, since the one becomes the other.              *)
(***************************************************************************)
EXTENDS Snapshots, FiniteSetTheorems, TLAPS

\* No counter of g is ahead of the same counter of h.
NotAhead(g, h) == \A c \in Counters : g[c] <= h[c]

\* The generations that the limit leaves of the first n.
Window(n) == (n - Min({n, MaxRetained}) + 1)..n

\* What a state or a file keeps of its snapshots, one way round and the other.
RetainedOK(st) ==
    /\ \A s \in st.snapshots :
          s.generation \in Window(st.snapshot_generation) /\ NotAhead(s.bound, st.generations)
    /\ \A g \in Window(st.snapshot_generation) : \E s \in st.snapshots : s.generation = g
    /\ \A s, t \in st.snapshots : s.generation = t.generation => s = t
    /\ st.rack_epoch = None => st.generations["rack"] = 0

\* A snapshot of the running process.
OwnSnapshot(s) ==
    /\ NotAhead(s.bound, state.generations)
    /\ s.generation <= state.snapshot_generation
    /\ s.bound = state.generations =>
          \A p \in Parts : s.content[p] = state.content[p] \/ state.content[p] \in silent

\* A snapshot that reached a file.
SavedSnapshot(s) ==
    /\ file # None
    /\ s.bound["coordinator_epoch"] <= file.generations["coordinator_epoch"]
    /\ s.runOf # run =>
          s.bound["coordinator_epoch"] < state.generations["coordinator_epoch"]

\* The inductive invariant.
SnapshotsIndInv ==
    /\ SnapshotsTypeOK
    /\ ~running => run < MaxRuns
    /\ RetainedOK(state)
    /\ file # None => RetainedOK(file)
    /\ \A s \in issued : s.runOf <= run /\ (s.runOf = run => OwnSnapshot(s))
    /\ \A s, t \in issued : s.generation = t.generation /\ s.runOf = t.runOf => s = t
    /\ \A s \in saved : SavedSnapshot(s)

-----------------------------------------------------------------------------
(* Counters *)

\* The smaller of two numbers.
LEMMA MinOfTwo ==
    ASSUME NEW a \in Int, NEW b \in Int
    PROVE  Min({a, b}) = IF a <= b THEN a ELSE b
<1> DEFINE m == IF a <= b THEN a ELSE b
<1>1. m \in {a, b} /\ \A y \in {a, b} : m <= y
  OBVIOUS
<1>2. \A x \in {a, b} : (\A y \in {a, b} : x <= y) => x = m
  OBVIOUS
<1> HIDE DEF m
<1>3. Min({a, b}) = m
  BY <1>1, <1>2 DEF Min
<1> QED BY <1>3 DEF m

\* What the limit leaves, without the minimum.
LEMMA WindowIs ==
    ASSUME NEW n \in 0..MaxSnapshotGen
    PROVE  Window(n) = IF n <= MaxRetained THEN 1..n ELSE (n - MaxRetained + 1)..n
  BY MinOfTwo, SnapshotsAssumption DEF Window

\* Generation::next, on the counters it is applied to, goes up by one where it can
\* and never down.
LEMMA MovedUp ==
    ASSUME NEW g \in Generations, NEW cs
    PROVE  /\ Moved(g, cs) \in Generations
           /\ NotAhead(g, Moved(g, cs))
           /\ \A c \in Counters \ cs : Moved(g, cs)[c] = g[c]
           /\ \A c \in Counters \cap cs : g[c] < MaxGen => Moved(g, cs)[c] = g[c] + 1
<1>1. ASSUME NEW c \in Counters
      PROVE  Min({g[c] + 1, MaxGen}) = IF g[c] < MaxGen THEN g[c] + 1 ELSE g[c]
  BY MinOfTwo, SnapshotsAssumption DEF Generations
<1>2. Moved(g, cs) = [c \in Counters |-> IF c \in cs /\ g[c] < MaxGen THEN g[c] + 1 ELSE g[c]]
  BY <1>1 DEF Moved
<1> QED BY <1>2, SnapshotsAssumption DEF Generations, NotAhead

\* Generations that are not ahead of each other are the same.
LEMMA BothNotAhead ==
    ASSUME NEW g \in Generations, NEW h \in Generations, NotAhead(g, h), NotAhead(h, g)
    PROVE  g = h
  BY SnapshotsAssumption DEF Generations, NotAhead

\* Being not ahead is transitive.
LEMMA NotAheadTrans ==
    ASSUME NEW g \in Generations, NEW h \in Generations, NEW k \in Generations,
           NotAhead(g, h), NotAhead(h, k)
    PROVE  NotAhead(g, k)
  BY SnapshotsAssumption DEF Generations, NotAhead

\* A change of records leaves everything else of a state as it is.
LEMMA ChangedState ==
    ASSUME NEW s \in RackState, NEW ps, NEW cs, changes \in 0..MaxChanges, changes < MaxChanges
    PROVE  LET new == Changed(s, ps, cs) IN
           /\ new \in RackState
           /\ new.rack_epoch = s.rack_epoch /\ new.retired = s.retired
           /\ new.snapshots = s.snapshots /\ new.snapshot_generation = s.snapshot_generation
           /\ new.generations = Moved(s.generations, cs)
           /\ \A p \in Parts : new.content[p] = IF p \in ps THEN changes + 1 ELSE s.content[p]
<1> DEFINE content == [p \in Parts |-> IF p \in ps THEN changes + 1 ELSE s.content[p]]
           moved == Moved(s.generations, cs)
           new == [s EXCEPT !.content = content, !.generations = moved]
<1>1. Changed(s, ps, cs) = new
  BY DEF Changed, RackState
<1>2. content \in Content
  BY SnapshotsAssumption DEF Content, RackState
<1>3. moved \in Generations
  BY MovedUp DEF RackState
<1>4. \A p \in Parts : content[p] = IF p \in ps THEN changes + 1 ELSE s.content[p]
  OBVIOUS
<1> HIDE DEF content, moved
<1>5. /\ new \in RackState
      /\ new.rack_epoch = s.rack_epoch /\ new.retired = s.retired
      /\ new.snapshots = s.snapshots /\ new.snapshot_generation = s.snapshot_generation
      /\ new.generations = moved /\ new.content = content
  BY <1>2, <1>3 DEF RackState
<1> HIDE DEF new
<1> QED BY <1>1, <1>4, <1>5 DEF moved

-----------------------------------------------------------------------------
(* Steps *)

\* What the handlers have in common: no snapshot is made or dropped, no counter goes
\* back, and what changes is announced by a counter or is silent.
RecordEdit ==
    /\ state' \in RackState /\ state'.rack_epoch # None
    /\ state'.snapshots = state.snapshots
    /\ state'.snapshot_generation = state.snapshot_generation
    /\ NotAhead(state.generations, state'.generations)
    /\ \/ state'.generations # state.generations
       \/ \A p \in Parts : \/ state'.content[p] = state.content[p]
                           \/ state'.content[p] \in silent'
    /\ changes' \in 0..MaxChanges
    /\ silent \subseteq silent' /\ silent' \subseteq 1..MaxChanges
    /\ UNCHANGED <<file, running, run, issued, saved>>

\* Change, for counters of the set, is such an edit.
LEMMA ChangeEdits ==
    ASSUME SnapshotsIndInv, NEW ps, NEW cs \in SUBSET Counters, cs # {}, Change(ps, cs)
    PROVE  RecordEdit
<1>1. /\ changes \in 0..MaxChanges /\ changes < MaxChanges /\ changes' = changes + 1
      /\ state \in RackState /\ state.rack_epoch # None
      /\ state' = Changed(state, ps, cs)
      /\ UNCHANGED <<file, running, run, issued, saved>>
  BY DEF Change, Current, SnapshotsIndInv, SnapshotsTypeOK
<1>2. changes' \in 0..MaxChanges /\ changes + 1 \in 1..MaxChanges
  BY <1>1, SnapshotsAssumption
<1>3. silent \subseteq silent' /\ silent' \subseteq 1..MaxChanges
  BY <1>2 DEF Change, SnapshotsIndInv, SnapshotsTypeOK
<1>4. /\ state' \in RackState /\ state'.rack_epoch = state.rack_epoch
      /\ state'.snapshots = state.snapshots
      /\ state'.snapshot_generation = state.snapshot_generation
      /\ state'.generations = Moved(state.generations, cs)
      /\ \A p \in Parts : state'.content[p] = IF p \in ps THEN changes + 1 ELSE state.content[p]
  BY <1>1, ChangedState
<1>5. state.generations \in Generations
  BY <1>1 DEF RackState
<1>6. NotAhead(state.generations, state'.generations)
  BY <1>4, <1>5, MovedUp
<1>7. \/ state'.generations # state.generations
      \/ \A p \in Parts : \/ state'.content[p] = state.content[p]
                          \/ state'.content[p] \in silent'
  <2>1. CASE \A c \in cs : ~Unexhausted(c)
    <3>1. changes + 1 \in silent'
      BY <2>1 DEF Change
    <3> QED BY <1>4, <3>1
  <2>2. CASE \E c \in cs : Unexhausted(c)
    <3>1. PICK c \in cs : state.generations[c] < MaxGen
      BY <2>2 DEF Unexhausted
    <3>2. c \in Counters \cap cs /\ state.generations[c] \in Int
      BY <1>5, SnapshotsAssumption DEF Generations
    <3>3. state'.generations[c] = state.generations[c] + 1
      BY <1>4, <1>5, <3>1, <3>2, MovedUp
    <3> QED BY <3>2, <3>3
  <2> QED BY <2>1, <2>2
<1> QED BY <1>1, <1>2, <1>3, <1>4, <1>6, <1>7 DEF RecordEdit

\* Every handler is such an edit.
LEMMA HandlersEdit ==
    ASSUME SnapshotsIndInv,
           Handler \/ RetireRack \/ \E e \in RackEpochs : DeclareRack(e) \/ Redeclare(e)
    PROVE  RecordEdit
<1>1. CASE Handler
  <2>1. \A c \in {"health", "capabilities"} : c \in Counters
    BY DEF Counters
  <2>2. CASE PublishMember
    <3> DEFINE first == {c \in {"health", "capabilities"} : state.generations[c] = 0}
               cs == {"membership"} \cup first
    <3>1. cs \in SUBSET Counters /\ cs # {}
      BY <2>1 DEF Counters
    <3>2. Change({"members"}, cs)
      BY <2>2 DEF PublishMember
    <3> HIDE DEF cs
    <3> QED BY <3>1, <3>2, ChangeEdits
  <2>3. CASE RevalidateRejected
    <3>1. /\ changes \in 0..MaxChanges /\ changes < MaxChanges /\ changes' = changes + 1
          /\ state \in RackState /\ state.rack_epoch # None
          /\ state' = Changed(state, {"members"}, {})
          /\ silent' = silent \cup {changes + 1}
          /\ UNCHANGED <<file, running, run, issued, saved>>
      BY <2>3 DEF RevalidateRejected, Current, SnapshotsIndInv, SnapshotsTypeOK
    <3>2. changes' \in 0..MaxChanges /\ changes + 1 \in 1..MaxChanges
      BY <3>1, SnapshotsAssumption
    <3>3. silent' \subseteq 1..MaxChanges
      BY <3>1, <3>2 DEF SnapshotsIndInv, SnapshotsTypeOK
    <3>4. /\ state' \in RackState /\ state'.rack_epoch = state.rack_epoch
          /\ state'.snapshots = state.snapshots
          /\ state'.snapshot_generation = state.snapshot_generation
          /\ state'.generations = Moved(state.generations, {})
          /\ \A p \in Parts :
                state'.content[p] = IF p \in {"members"} THEN changes + 1 ELSE state.content[p]
      BY <3>1, ChangedState
    <3>5. NotAhead(state.generations, state'.generations)
      BY <3>1, <3>4, MovedUp DEF RackState
    <3> QED BY <3>1, <3>2, <3>3, <3>4, <3>5 DEF RecordEdit
  <2>4. CASE PublishHealth \/ PublishCapability \/ WithdrawEvidence \/ MarkUnavailable
             \/ RevalidateMembers \/ PublishRelationship \/ WithdrawRelationship
             \/ PublishFailureDomain \/ Fence
    BY <2>4, ChangeEdits
    DEF PublishHealth, PublishCapability, WithdrawEvidence, MarkUnavailable, RevalidateMembers,
        PublishRelationship, WithdrawRelationship, PublishFailureDomain, Fence, Counters
  <2>5. CASE PublishPowerEnvelope \/ PublishCoolingEnvelope
             \/ \E linked \in BOOLEAN : RetireMember(linked)
    BY <2>5, ChangeEdits
    DEF PublishPowerEnvelope, PublishCoolingEnvelope, RetireMember, Counters
  <2> QED BY <1>1, <2>2, <2>3, <2>4, <2>5 DEF Handler
<1>2. ASSUME NEW e \in RackEpochs, DeclareRack(e)
      PROVE  RecordEdit
  <2>1. /\ state \in RackState /\ state.rack_epoch = None /\ state.generations["rack"] = 0
        /\ state' = [state EXCEPT !.rack_epoch = e, !.generations["rack"] = 1]
        /\ UNCHANGED <<file, running, run, changes, issued, saved, silent>>
    BY <1>2 DEF DeclareRack, SnapshotsIndInv, SnapshotsTypeOK, RetainedOK
  <2> DEFINE g == [state.generations EXCEPT !["rack"] = 1]
  <2>2. state' = [state EXCEPT !.rack_epoch = e, !.generations = g]
    BY <2>1 DEF RackState
  <2>3. g \in Generations /\ NotAhead(state.generations, g) /\ g # state.generations
    BY <2>1, SnapshotsAssumption DEF RackState, Generations, NotAhead, Counters
  <2> HIDE DEF g
  <2>4. /\ state' \in RackState /\ state'.rack_epoch = e
        /\ state'.snapshots = state.snapshots
        /\ state'.snapshot_generation = state.snapshot_generation
        /\ state'.generations = g
    BY <2>1, <2>2, <2>3 DEF RackState
  <2> QED BY <2>1, <2>3, <2>4, SnapshotsAssumption
          DEF RecordEdit, SnapshotsIndInv, SnapshotsTypeOK
<1>3. ASSUME NEW ps, NEW e \in RackEpochs, NEW ret \in BOOLEAN, Current, Unexhausted("rack"),
             changes < MaxChanges, changes' = changes + 1,
             state' = [Changed(state, ps, {"rack"}) EXCEPT !.rack_epoch = e]
             \/ state' = [Changed(state, ps, {"rack"}) EXCEPT !.retired = ret],
             UNCHANGED <<file, running, run, issued, saved, silent>>
      PROVE  RecordEdit
  <2> DEFINE new == Changed(state, ps, {"rack"})
  <2>1. /\ changes \in 0..MaxChanges /\ state \in RackState /\ state.rack_epoch # None
        /\ state.generations \in Generations
    BY <1>3 DEF Current, SnapshotsIndInv, SnapshotsTypeOK, RackState
  <2>2. changes' \in 0..MaxChanges
    BY <1>3, <2>1, SnapshotsAssumption
  <2>3. /\ new \in RackState /\ new.rack_epoch = state.rack_epoch
        /\ new.snapshots = state.snapshots
        /\ new.snapshot_generation = state.snapshot_generation
        /\ new.generations = Moved(state.generations, {"rack"})
    BY <1>3, <2>1, ChangedState
  <2> HIDE DEF new
  <2>4. /\ state' \in RackState /\ state'.rack_epoch # None
        /\ state'.snapshots = new.snapshots
        /\ state'.snapshot_generation = new.snapshot_generation
        /\ state'.generations = new.generations
    BY <1>3, <2>1, <2>3, SnapshotsAssumption DEF RackState, new
  <2>5. "rack" \in Counters \cap {"rack"} /\ state.generations["rack"] \in Int
    BY <2>1, SnapshotsAssumption DEF Generations, Counters
  <2>6. /\ NotAhead(state.generations, new.generations)
        /\ new.generations["rack"] = state.generations["rack"] + 1
    BY <1>3, <2>1, <2>3, <2>5, MovedUp DEF Unexhausted
  <2>7. new.generations # state.generations
    BY <2>5, <2>6
  <2> QED BY <1>3, <2>2, <2>3, <2>4, <2>6, <2>7 DEF RecordEdit, SnapshotsIndInv, SnapshotsTypeOK
<1>4. ASSUME NEW e \in RackEpochs, Redeclare(e)
      PROVE  RecordEdit
  BY <1>3, <1>4 DEF Redeclare
<1>5. CASE RetireRack
  <2>1. PICK e : e = state.rack_epoch
    OBVIOUS
  <2>2. e \in RackEpochs
    BY <1>5, <2>1 DEF RetireRack, Current, SnapshotsIndInv, SnapshotsTypeOK, RackState
  <2> QED BY <1>3, <1>5, <2>2 DEF RetireRack
<1> QED BY <1>1, <1>2, <1>4, <1>5

\* The handlers preserve the invariant.
LEMMA EditKeeps ==
    ASSUME SnapshotsIndInv, RecordEdit
    PROVE  SnapshotsIndInv'
<1>0. /\ state \in RackState /\ state.generations \in Generations
      /\ state' \in RackState /\ state'.generations \in Generations
      /\ issued \subseteq RackSnapshot /\ saved \subseteq issued
      /\ \A s \in RackSnapshot : s.bound \in Generations
      /\ state'.snapshots = state.snapshots
      /\ state'.snapshot_generation = state.snapshot_generation
      /\ NotAhead(state.generations, state'.generations)
      /\ UNCHANGED <<file, running, run, issued, saved>>
  BY DEF RecordEdit, SnapshotsIndInv, SnapshotsTypeOK, RackState, RackSnapshot
<1>1. SnapshotsTypeOK'
  BY <1>0 DEF RecordEdit, SnapshotsIndInv, SnapshotsTypeOK
<1>2. RetainedOK(state')
  <2>2. ASSUME NEW s \in state.snapshots
        PROVE  NotAhead(s.bound, state'.generations)
    <3>1. s.bound \in Generations /\ NotAhead(s.bound, state.generations)
      BY <1>0 DEF SnapshotsIndInv, SnapshotsTypeOK, RetainedOK
    <3> QED BY <1>0, <3>1, NotAheadTrans
  <2> QED BY <1>0, <2>2 DEF RetainedOK, SnapshotsIndInv, RecordEdit
<1>3. ASSUME NEW s \in issued, s.runOf = run
      PROVE  OwnSnapshot(s)'
  <2>1. OwnSnapshot(s) /\ s.bound \in Generations
    BY <1>0, <1>3 DEF SnapshotsIndInv
  <2>2. NotAhead(s.bound, state'.generations)
    BY <1>0, <2>1, NotAheadTrans DEF OwnSnapshot
  <2>3. ASSUME s.bound = state'.generations, NEW p \in Parts
        PROVE  s.content[p] = state'.content[p] \/ state'.content[p] \in silent'
    <3>1. state'.generations = state.generations
      BY <1>0, <2>1, <2>3, BothNotAhead DEF OwnSnapshot
    <3>2. s.content[p] = state.content[p] \/ state.content[p] \in silent
      BY <2>1, <2>3, <3>1 DEF OwnSnapshot
    <3>3. state'.content[p] = state.content[p] \/ state'.content[p] \in silent'
      BY <3>1 DEF RecordEdit
    <3> QED BY <3>2, <3>3 DEF RecordEdit
  <2> QED BY <1>0, <2>1, <2>2, <2>3 DEF OwnSnapshot
<1>4. ASSUME NEW s \in saved
      PROVE  SavedSnapshot(s)'
  <2>1. SavedSnapshot(s) /\ s.bound \in Generations
    BY <1>0 DEF SnapshotsIndInv
  <2>2. "coordinator_epoch" \in Counters
    BY DEF Counters
  <2>3. /\ s.bound["coordinator_epoch"] \in Int
        /\ state.generations["coordinator_epoch"] \in Int
        /\ state'.generations["coordinator_epoch"] \in Int
        /\ state.generations["coordinator_epoch"] <= state'.generations["coordinator_epoch"]
    BY <1>0, <2>1, <2>2, SnapshotsAssumption DEF Generations, NotAhead
  <2> QED BY <1>0, <2>1, <2>3 DEF SavedSnapshot
<1> QED BY <1>0, <1>1, <1>2, <1>3, <1>4 DEF SnapshotsIndInv

\* As many snapshots are retained as the limit leaves.
LEMMA RetainedCount ==
    ASSUME NEW st \in RackState, RetainedOK(st)
    PROVE  Cardinality(st.snapshots) =
             IF st.snapshot_generation <= MaxRetained THEN st.snapshot_generation ELSE MaxRetained
<1> DEFINE W == Window(st.snapshot_generation)
           f == [s \in st.snapshots |-> s.generation]
<1>1. st.snapshot_generation \in 0..MaxSnapshotGen
  BY DEF RackState
<1>2. f \in Injection(st.snapshots, W) /\ f \in Surjection(st.snapshots, W)
  <2>1. f \in [st.snapshots -> W] /\ \A s \in st.snapshots : f[s] = s.generation
    BY DEF RetainedOK
  <2>2. \A s, t \in st.snapshots : s.generation = t.generation => s = t
    BY DEF RetainedOK
  <2>3. \A g \in W : \E s \in st.snapshots : s.generation = g
    BY DEF RetainedOK
  <2> HIDE DEF f, W
  <2>4. f \in Injection(st.snapshots, W)
    BY <2>1, <2>2 DEF Injection, IsInjective
  <2>5. f \in Surjection(st.snapshots, W)
    BY <2>1, <2>3 DEF Surjection
  <2> QED BY <2>4, <2>5
<1>3. IsFiniteSet(W) /\ Cardinality(W) =
         IF st.snapshot_generation <= MaxRetained THEN st.snapshot_generation ELSE MaxRetained
  <2>1. CASE st.snapshot_generation <= MaxRetained
    <3>1. W = 1..st.snapshot_generation
      BY <1>1, <2>1, WindowIs
    <3>2. st.snapshot_generation \in Nat
      BY <1>1, SnapshotsAssumption
    <3>3. /\ IsFiniteSet(1..st.snapshot_generation)
          /\ Cardinality(1..st.snapshot_generation) = st.snapshot_generation
      <4>1. 1 \in Int /\ st.snapshot_generation \in Int
        BY <3>2
      <4>2. Cardinality(1..st.snapshot_generation) =
               IF 1 > st.snapshot_generation THEN 0 ELSE st.snapshot_generation - 1 + 1
        BY <4>1, FS_Interval
      <4>3. Cardinality(1..st.snapshot_generation) = st.snapshot_generation
        BY <3>2, <4>2
      <4>4. IsFiniteSet(1..st.snapshot_generation)
        BY <4>1, FS_Interval
      <4> QED BY <4>3, <4>4
    <3> QED BY <2>1, <3>1, <3>3
  <2>2. CASE ~(st.snapshot_generation <= MaxRetained)
    <3> DEFINE low == st.snapshot_generation - MaxRetained + 1
    <3>1. W = low..st.snapshot_generation
      BY <1>1, <2>2, WindowIs
    <3>2. low \in Int /\ st.snapshot_generation \in Int /\ low <= st.snapshot_generation
      BY <1>1, SnapshotsAssumption
    <3>3. /\ IsFiniteSet(low..st.snapshot_generation)
          /\ Cardinality(low..st.snapshot_generation) = st.snapshot_generation - low + 1
      <4> HIDE DEF low
      <4> QED BY <3>2, FS_Interval
    <3> QED BY <1>1, <2>2, <3>1, <3>3, SnapshotsAssumption
  <2> QED BY <2>1, <2>2
<1> HIDE DEF W, f
<1>4. Cardinality(st.snapshots) = Cardinality(W)
  BY <1>2, <1>3, FS_Injection
<1> QED BY <1>3, <1>4

\* publish_snapshot preserves the invariant: what goes is the oldest.
LEMMA PublishSnapshotStep ==
    ASSUME SnapshotsIndInv, PublishSnapshot
    PROVE  SnapshotsIndInv'
<1> DEFINE G == state.snapshot_generation
           new == build_snapshot(G + 1)
           kept == Retained(state.snapshots)
<1>0. /\ state \in RackState /\ G \in 0..MaxSnapshotGen /\ G < MaxSnapshotGen
      /\ state.rack_epoch # None /\ run \in 1..MaxRuns /\ running
      /\ issued \subseteq RackSnapshot /\ state.snapshots \subseteq issued
      /\ RetainedOK(state) /\ state.generations \in Generations
      /\ \A s \in RackSnapshot : s.generation \in Int
      /\ state' = [state EXCEPT !.snapshot_generation = G + 1, !.snapshots = kept \cup {new}]
      /\ issued' = issued \cup {new}
      /\ UNCHANGED <<file, running, run, changes, saved, silent>>
  BY DEF PublishSnapshot, Current, SnapshotsIndInv, SnapshotsTypeOK, RackState, RackSnapshot
<1>1. /\ new \in RackSnapshot
      /\ new.generation = G + 1 /\ new.bound = state.generations
      /\ new.content = state.content /\ new.runOf = run
  BY <1>0, SnapshotsAssumption DEF build_snapshot, RackSnapshot, RackState
<1>2. kept \subseteq state.snapshots
  BY DEF Retained
<1> HIDE DEF new, kept
<1>3. G + 1 \in 0..MaxSnapshotGen /\ kept \cup {new} \in SUBSET RackSnapshot
  BY <1>0, <1>1, <1>2, SnapshotsAssumption
<1> HIDE DEF G
<1>4. /\ state' \in RackState
      /\ state'.snapshot_generation = G + 1 /\ state'.snapshots = kept \cup {new}
      /\ state'.rack_epoch = state.rack_epoch /\ state'.content = state.content
      /\ state'.generations = state.generations
  BY <1>0, <1>3 DEF RackState
<1>5. SnapshotsTypeOK'
  BY <1>0, <1>1, <1>2, <1>4 DEF SnapshotsIndInv, SnapshotsTypeOK
<1>6. PICK n : n = G + 1
  OBVIOUS
<1>7. /\ Window(G) = IF G <= MaxRetained THEN 1..G ELSE (G - MaxRetained + 1)..G
      /\ Window(n) = IF n <= MaxRetained THEN 1..n ELSE (n - MaxRetained + 1)..n
      /\ state'.snapshot_generation = n /\ new.generation = n
  BY <1>0, <1>1, <1>3, <1>4, <1>6, WindowIs
<1>8. NotAhead(state.generations, state.generations)
  BY <1>0, SnapshotsAssumption DEF NotAhead, Generations
<1>9. \A g : g \in Window(n) <=> g = n \/ \E s \in kept : s.generation = g
  <2>0. \A s \in state.snapshots : s.generation \in Int
    BY <1>0
  <2>1. CASE G < MaxRetained
    <3>1. Cardinality(state.snapshots) = G
      BY <1>0, <2>1, RetainedCount, SnapshotsAssumption DEF G
    <3>2. kept = state.snapshots
      BY <1>0, <2>1, <3>1, SnapshotsAssumption DEF Retained, kept
    <3>3. Window(G) = 1..G
      BY <1>0, <1>7, <1>6, <2>1, SnapshotsAssumption
    <3>4. Window(n) = 1..n
      BY <1>0, <1>7, <1>6, <2>1, SnapshotsAssumption
    <3>5. \A g : g \in 1..G <=> \E s \in kept : s.generation = g
      BY <1>0, <3>2, <3>3 DEF RetainedOK, G
    <3>6. \A g : g \in 1..n <=> g = n \/ g \in 1..G
      BY <1>0, <1>6, SnapshotsAssumption
    <3> QED BY <3>4, <3>5, <3>6
  <2>2. CASE ~(G < MaxRetained)
    <3> DEFINE low == G - MaxRetained + 1
    <3>1. Cardinality(state.snapshots) = MaxRetained
      BY <1>0, <2>2, RetainedCount, SnapshotsAssumption DEF G
    <3>2. \A s : s \in kept <=> s \in state.snapshots
                                 /\ \E t \in state.snapshots : t.generation < s.generation
      BY <3>1, SnapshotsAssumption DEF Retained, kept
    <3>3. Window(G) = low..G
      BY <1>0, <1>7, <1>6, <2>2, SnapshotsAssumption
    <3>4. Window(n) = (low + 1)..n
      BY <1>0, <1>7, <1>6, <2>2, SnapshotsAssumption
    <3>5. low \in Int /\ low <= G
      BY <1>0, SnapshotsAssumption
    <3> HIDE DEF low
    <3>6. \A g : g \in (low + 1)..G <=> \E s \in kept : s.generation = g
      <4>1. PICK t \in state.snapshots : t.generation = low
        BY <1>0, <3>3, <3>5 DEF RetainedOK, G
      <4>2. ASSUME NEW g \in (low + 1)..G
            PROVE  \E s \in kept : s.generation = g
        <5>1. PICK s \in state.snapshots : s.generation = g
          BY <1>0, <3>3, <3>5 DEF RetainedOK, G
        <5>2. t.generation < s.generation
          BY <3>5, <4>1, <5>1
        <5> QED BY <3>2, <5>1, <5>2
      <4>3. ASSUME NEW s \in kept
            PROVE  s.generation \in (low + 1)..G
        <5>1. PICK u \in state.snapshots : u.generation < s.generation
          BY <3>2
        <5>2. u.generation \in low..G /\ s.generation \in low..G
          BY <1>0, <1>2, <3>3 DEF RetainedOK, G
        <5> QED BY <3>5, <5>1, <5>2
      <4> QED BY <4>2, <4>3
    <3>7. \A g : g \in (low + 1)..n <=> g = n \/ g \in (low + 1)..G
      BY <1>0, <1>6, <3>5, SnapshotsAssumption
    <3> QED BY <3>4, <3>6, <3>7
  <2> QED BY <2>1, <2>2
<1>10. \A s \in kept : s.generation <= G
  BY <1>0, <1>2, <1>7, SnapshotsAssumption DEF RetainedOK, G
<1>11. RetainedOK(state')
  <2>1. ASSUME NEW s \in state'.snapshots
        PROVE  s.generation \in Window(n) /\ NotAhead(s.bound, state'.generations)
    BY <1>0, <1>1, <1>2, <1>4, <1>8, <1>9, <1>7, <2>1 DEF RetainedOK, G
  <2>2. ASSUME NEW g \in Window(n)
        PROVE  \E s \in state'.snapshots : s.generation = g
    BY <1>4, <1>9, <1>7
  <2>3. ASSUME NEW s \in state'.snapshots, NEW t \in state'.snapshots,
               s.generation = t.generation
        PROVE  s = t
    <3>1. ASSUME NEW x \in kept
          PROVE  x.generation # n
      BY <1>0, <1>2, <1>10, <1>6
    <3> QED BY <1>0, <1>2, <1>4, <1>7, <2>3, <3>1 DEF RetainedOK, G
  <2> QED BY <1>0, <1>4, <1>7, <2>1, <2>2, <2>3 DEF RetainedOK, G
<1>12. ASSUME NEW s \in issued'
       PROVE  s.runOf <= run' /\ (s.runOf = run' => OwnSnapshot(s)')
  <2>1. CASE s \in issued
    <3>1. s.runOf <= run /\ (s.runOf = run => OwnSnapshot(s)) /\ s.generation \in Int
      BY <1>0, <2>1 DEF SnapshotsIndInv
    <3>2. s.generation <= G => s.generation <= G + 1
      BY <1>0, <3>1
    <3> QED BY <1>0, <1>4, <3>1, <3>2 DEF OwnSnapshot, G
  <2>2. CASE s = new
    BY <1>0, <1>1, <1>4, <1>8, <2>2, SnapshotsAssumption DEF OwnSnapshot, G
  <2> QED BY <1>0, <2>1, <2>2
<1>13. ASSUME NEW s \in issued', NEW t \in issued', s.generation = t.generation, s.runOf = t.runOf
       PROVE  s = t
  <2>1. ASSUME NEW x \in issued, x.runOf = run
        PROVE  x.generation # G + 1
    <3>1. x.generation <= G /\ x.generation \in Int
      BY <1>0, <2>1 DEF SnapshotsIndInv, OwnSnapshot, G
    <3> QED BY <1>0, <3>1
  <2> QED BY <1>0, <1>1, <1>13, <2>1 DEF SnapshotsIndInv
<1>14. \A s \in saved : SavedSnapshot(s)'
  BY <1>0, <1>4 DEF SnapshotsIndInv, SavedSnapshot
<1> QED BY <1>0, <1>5, <1>11, <1>12, <1>13, <1>14 DEF SnapshotsIndInv

\* save_state preserves the invariant: what the process issued is now in a file, and
\* not ahead of it.
LEMMA SaveStep ==
    ASSUME SnapshotsIndInv, Save
    PROVE  SnapshotsIndInv'
<1>1. /\ state \in RackState /\ file' = state /\ issued \subseteq RackSnapshot
      /\ saved' = saved \cup {s \in issued : s.runOf = run}
      /\ saved \subseteq issued
      /\ UNCHANGED <<state, running, run, changes, issued, silent>>
  BY DEF Save, SnapshotsIndInv, SnapshotsTypeOK
<1>2. file' # None
  BY <1>1, FileAssumption
<1>3. SnapshotsTypeOK'
  BY <1>1 DEF SnapshotsIndInv, SnapshotsTypeOK
<1>4. ASSUME NEW s \in saved'
      PROVE  SavedSnapshot(s)'
  <2>1. /\ s.bound["coordinator_epoch"] \in Int
        /\ state.generations["coordinator_epoch"] \in Int
    BY <1>1, SnapshotsAssumption DEF RackSnapshot, RackState, Generations, Counters
  <2>2. CASE s.runOf = run
    <3>1. OwnSnapshot(s)
      BY <1>1, <2>2 DEF SnapshotsIndInv
    <3> QED BY <1>1, <1>2, <2>2, <3>1 DEF OwnSnapshot, NotAhead, SavedSnapshot, Counters
  <2>3. CASE s.runOf # run
    <3>1. SavedSnapshot(s)
      BY <1>1, <2>3 DEF SnapshotsIndInv
    <3> QED BY <1>1, <1>2, <2>1, <2>3, <3>1 DEF SavedSnapshot
  <2> QED BY <2>2, <2>3
<1> QED BY <1>1, <1>3, <1>4 DEF SnapshotsIndInv, OwnSnapshot

\* A new process has issued no snapshot yet.
LEMMA NobodyIssuedYet ==
    ASSUME SnapshotsIndInv, NEW s \in issued
    PROVE  s.runOf \in 1..MaxRuns /\ run \in 1..MaxRuns /\ s.runOf <= run + 1 /\ s.runOf # run + 1
<1>1. s.runOf \in 1..MaxRuns /\ run \in 1..MaxRuns /\ s.runOf <= run
  BY DEF SnapshotsIndInv, SnapshotsTypeOK, RackSnapshot
<1> QED BY <1>1, SnapshotsAssumption

\* A new RackFabric retains nothing.
LEMMA NewStateOK == NewState \in RackState /\ RetainedOK(NewState) /\ NewState.snapshots = {}
<1> DEFINE g == [c \in Counters |-> IF c = "coordinator_epoch" THEN 1 ELSE 0]
           content == [p \in Parts |-> 0]
<1>1. g \in Generations /\ g["rack"] = 0 /\ content \in Content
  BY SnapshotsAssumption DEF Generations, Content, Counters
<1>2. 0 \in 0..MaxSnapshotGen
  BY SnapshotsAssumption
<1> HIDE DEF g, content
<1>3. NewState = [rack_epoch |-> None, retired |-> FALSE, content |-> content, generations |-> g,
                  snapshot_generation |-> 0, snapshots |-> {}]
  BY DEF NewState, g, content
<1>4. NewState \in RackState
  BY <1>1, <1>2, <1>3 DEF RackState
<1>5. /\ NewState.snapshots = {} /\ NewState.snapshot_generation = 0 /\ NewState.generations = g
  BY <1>3
<1>6. Window(0) = {}
  BY <1>2, WindowIs, SnapshotsAssumption
<1> QED BY <1>1, <1>4, <1>5, <1>6 DEF RetainedOK

\* A process without a file preserves the invariant: nothing was ever saved.
LEMMA StartFreshStep ==
    ASSUME SnapshotsIndInv, StartFresh
    PROVE  SnapshotsIndInv'
<1>1. /\ ~running /\ file = None /\ running' = TRUE /\ run' = run + 1 /\ state' = NewState
      /\ UNCHANGED <<file, changes, issued, saved, silent>>
  BY DEF StartFresh
<1>2. run' \in 1..MaxRuns
  BY <1>1, SnapshotsAssumption DEF SnapshotsIndInv, SnapshotsTypeOK
<1>3. saved = {}
  BY <1>1 DEF SnapshotsIndInv, SavedSnapshot
<1>4. SnapshotsTypeOK'
  BY <1>1, <1>2, NewStateOK DEF SnapshotsIndInv, SnapshotsTypeOK
<1>5. \A s \in issued : s.runOf <= run' /\ s.runOf # run'
  BY <1>1, NobodyIssuedYet
<1> QED BY <1>1, <1>3, <1>4, <1>5, NewStateOK DEF SnapshotsIndInv

\* load_state preserves the invariant: the next epoch is ahead of all that was saved.
LEMMA LoadStateStep ==
    ASSUME SnapshotsIndInv, LoadState
    PROVE  SnapshotsIndInv'
<1> DEFINE ce == "coordinator_epoch"
<1>1. /\ ~running /\ file # None /\ running' = TRUE /\ run' = run + 1 /\ changes' = changes + 1
      /\ file \in RackState /\ RetainedOK(file) /\ file.snapshots \subseteq issued
      /\ file.generations \in Generations
      /\ file.generations[ce] < MaxGen
      /\ changes \in 0..MaxChanges /\ changes < MaxChanges
      /\ issued \subseteq RackSnapshot /\ saved \subseteq issued
      /\ state' = Changed(file, Parts, {ce})
      /\ UNCHANGED <<file, issued, saved, silent>>
  BY DEF LoadState, SnapshotsIndInv, SnapshotsTypeOK, RackState
<1>2. run' \in 1..MaxRuns /\ changes' \in 0..MaxChanges
  BY <1>1, SnapshotsAssumption DEF SnapshotsIndInv, SnapshotsTypeOK
<1>3. /\ state' \in RackState /\ state'.rack_epoch = file.rack_epoch
      /\ state'.snapshots = file.snapshots
      /\ state'.snapshot_generation = file.snapshot_generation
      /\ state'.generations = Moved(file.generations, {ce})
  BY <1>1, ChangedState
<1>4. "rack" \in Counters \ {ce} /\ ce \in Counters \cap {ce}
  BY DEF Counters
<1>5. /\ NotAhead(file.generations, state'.generations) /\ state'.generations \in Generations
      /\ state'.generations["rack"] = file.generations["rack"]
      /\ state'.generations[ce] = file.generations[ce] + 1
  BY <1>1, <1>3, <1>4, MovedUp
<1>6. SnapshotsTypeOK'
  BY <1>1, <1>2, <1>3 DEF SnapshotsIndInv, SnapshotsTypeOK
<1>7. RetainedOK(state')
  <2>1. ASSUME NEW s \in file.snapshots
        PROVE  NotAhead(s.bound, state'.generations)
    <3>1. s.bound \in Generations /\ NotAhead(s.bound, file.generations)
      BY <1>1 DEF RetainedOK, RackSnapshot
    <3> QED BY <1>1, <1>5, <3>1, NotAheadTrans
  <2> QED BY <1>1, <1>3, <1>5, <2>1 DEF RetainedOK
<1>8. \A s \in issued : s.runOf <= run' /\ s.runOf # run'
  BY <1>1, NobodyIssuedYet
<1>9. ASSUME NEW s \in saved
      PROVE  SavedSnapshot(s)'
  <2>1. s.bound[ce] <= file.generations[ce]
    BY DEF SnapshotsIndInv, SavedSnapshot
  <2>2. s.bound[ce] \in Int /\ file.generations[ce] \in Int
    BY <1>1, SnapshotsAssumption DEF RackSnapshot, Generations, Counters
  <2> QED BY <1>1, <1>5, <2>1, <2>2 DEF SavedSnapshot
<1> QED BY <1>1, <1>6, <1>7, <1>8, <1>9 DEF SnapshotsIndInv

\* A rack that was never declared, without a file, satisfies the invariant.
THEOREM SnapshotsInitInv == SnapshotsInit => SnapshotsIndInv
<1> SUFFICES ASSUME SnapshotsInit
             PROVE  SnapshotsIndInv
  OBVIOUS
<1>1. SnapshotsTypeOK
  BY NewStateOK, SnapshotsAssumption DEF SnapshotsInit, SnapshotsTypeOK
<1> QED BY <1>1, NewStateOK DEF SnapshotsInit, SnapshotsIndInv

\* Every step preserves the invariant.
THEOREM SnapshotsStepInv == SnapshotsIndInv /\ [SnapshotsNext]_snapshotVars => SnapshotsIndInv'
<1> SUFFICES ASSUME SnapshotsIndInv, [SnapshotsNext]_snapshotVars
             PROVE  SnapshotsIndInv'
  OBVIOUS
<1>1. CASE Crash
  <2>1. /\ run < MaxRuns /\ running' = FALSE
        /\ UNCHANGED <<state, file, run, changes, issued, saved, silent>>
    BY <1>1 DEF Crash
  <2>2. SnapshotsTypeOK'
    BY <2>1 DEF SnapshotsIndInv, SnapshotsTypeOK
  <2> QED BY <2>1, <2>2 DEF SnapshotsIndInv, OwnSnapshot, SavedSnapshot
<1>2. CASE UNCHANGED snapshotVars
  <2>1. SnapshotsTypeOK'
    BY <1>2 DEF snapshotVars, SnapshotsIndInv, SnapshotsTypeOK
  <2> QED BY <1>2, <2>1 DEF snapshotVars, SnapshotsIndInv, OwnSnapshot, SavedSnapshot
<1>3. CASE Handler \/ RetireRack \/ \E e \in RackEpochs : DeclareRack(e) \/ Redeclare(e)
  BY <1>3, HandlersEdit, EditKeeps
<1> QED BY <1>1, <1>2, <1>3, PublishSnapshotStep, SaveStep, StartFreshStep, LoadStateStep
        DEF SnapshotsNext

\* SnapshotsInv: the retained snapshots are the newest, whatever was published, lost
\* and reloaded; an identity names one snapshot of a process, and one of those
\* retained; and none binds a generation the rack has not reached.
THEOREM SnapshotsCorrect == SnapshotsSpec => []SnapshotsInv
<1>1. SnapshotsIndInv => SnapshotsInv
  <2> SUFFICES ASSUME SnapshotsIndInv
               PROVE  SnapshotsInv
    OBVIOUS
  <2>1. RetainedAreTheNewest
    <3>1. \A g : g \in Window(state.snapshot_generation)
                <=> \E s \in state.snapshots : s.generation = g
      BY DEF SnapshotsIndInv, RetainedOK
    <3>2. {s.generation : s \in state.snapshots} = Window(state.snapshot_generation)
      BY <3>1
    <3> QED BY <3>2 DEF RetainedAreTheNewest, Window
  <2>2. IdentityNamesOneSnapshot
    BY DEF SnapshotsIndInv, RetainedOK, IdentityNamesOneSnapshot
  <2>3. RetainedBindThePast
    BY DEF SnapshotsIndInv, RetainedOK, RetainedBindThePast, NotAhead, Counters
  <2> QED BY <2>1, <2>2, <2>3 DEF SnapshotsInv, SnapshotsIndInv
<1> QED BY <1>1, SnapshotsInitInv, SnapshotsStepInv, PTL DEF SnapshotsSpec

\* RecoveredSnapshotsAreStale: a snapshot that reached a file validates as current to
\* no later process.
THEOREM RecoveredStale == SnapshotsSpec => []RecoveredSnapshotsAreStale
<1>1. SnapshotsIndInv => RecoveredSnapshotsAreStale
  <2> SUFFICES ASSUME SnapshotsIndInv, NEW s \in saved, s.runOf # run
               PROVE  validate_snapshot(s) # "Current"
    BY DEF RecoveredSnapshotsAreStale
  <2>1. s.bound["coordinator_epoch"] < state.generations["coordinator_epoch"]
    BY DEF SnapshotsIndInv, SavedSnapshot
  <2>2. state.generations["coordinator_epoch"] \in Int
    BY SnapshotsAssumption DEF SnapshotsIndInv, SnapshotsTypeOK, RackState, Generations, Counters
  <2>3. s.bound # state.generations
    BY <2>1, <2>2
  <2> QED BY <2>3 DEF validate_snapshot
<1> QED BY <1>1, SnapshotsInitInv, SnapshotsStepInv, PTL DEF SnapshotsSpec

\* CurrentShowsTheRack: a snapshot that validates as current shows the records as they
\* are, but for changes that moved no generation and for snapshots that an earlier
\* process never saved.
THEOREM CurrentIsTrue == SnapshotsSpec => []CurrentShowsTheRack
<1>1. SnapshotsIndInv => CurrentShowsTheRack
  <2> SUFFICES ASSUME SnapshotsIndInv, NEW s \in issued, validate_snapshot(s) = "Current",
                      ~(s.runOf # run /\ s \notin saved)
               PROVE  \A p \in Parts : s.content[p] = state.content[p]
                                       \/ state.content[p] \in silent
    BY DEF CurrentShowsTheRack
  <2>1. s.bound = state.generations
    BY DEF validate_snapshot
  <2>2. s.runOf = run
    <3>1. ASSUME s.runOf # run
          PROVE  FALSE
      <4>1. s.bound["coordinator_epoch"] < state.generations["coordinator_epoch"]
        BY <3>1 DEF SnapshotsIndInv, SavedSnapshot
      <4>2. state.generations["coordinator_epoch"] \in Int
        BY SnapshotsAssumption
        DEF SnapshotsIndInv, SnapshotsTypeOK, RackState, Generations, Counters
      <4> QED BY <2>1, <4>1, <4>2
    <3> QED BY <3>1
  <2> QED BY <2>1, <2>2 DEF SnapshotsIndInv, OwnSnapshot
<1> QED BY <1>1, SnapshotsInitInv, SnapshotsStepInv, PTL DEF SnapshotsSpec
=============================================================================
