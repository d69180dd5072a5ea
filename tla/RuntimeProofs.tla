---------------------------- MODULE RuntimeProofs ----------------------------
(***************************************************************************)
(* What surrounds a run.  The reference counts of the shared workspaces    *)
(* are right, what a run holds is what the index shares, and when all runs *)
(* are over nothing is left; an answer of the client ends only the call it *)
(* was given to, no answer is used twice, and a disconnection forgets no   *)
(* waiter; and side by side, with what is shown of the runs (ViewProofs),  *)
(* each of them is as it is alone.  For any runs, apps, keys, calls and    *)
(* capacities.                                                             *)
(***************************************************************************)
EXTENDS MCRuntime, ViewProofs

-----------------------------------------------------------------------------
(* The shared workspaces.                                                  *)

(* An entry in the index is of that key. *)
IndexRight == \A k \in Keys : index[k] # None => key[index[k]] = k

(* A run inside a Load refers to the entry it loads. *)
LoadingHeld ==
    \A r \in Runs : IF pc[r] \in {"start", "sync", "undo"}
                    THEN loading[r] \in refs[r] ELSE loading[r] = None
SyncedIsStarted == \A r \in Runs : pc[r] = "sync" => loading[r] \in started

(* The inductive invariant. *)
SharedInv ==
    /\ TypeOK
    /\ CountsRight /\ HeldIsIndexed /\ LoadedIsStarted
    /\ IndexRight /\ LoadingHeld /\ SyncedIsStarted

HolderRuns(e, a) == {r \in Runs : e \in refs[r] /\ AppOf[r] = a}
Count(f, e, a)   == Cardinality({r \in Runs : e \in f[r] /\ AppOf[r] = a})

-----------------------------------------------------------------------------
(* The counts after an entry is joined or left. *)
LEMMA CountType ==
    ASSUME NEW h \in [EntryId -> [Apps -> Nat]], NEW e \in EntryId, NEW a \in Apps
    PROVE  /\ Join(h, e, a) \in [EntryId -> [Apps -> Nat]]
           /\ h[e][a] >= 1 => Leave(h, e, a) \in [EntryId -> [Apps -> Nat]]
  BY DEF Join, Leave

LEMMA CountValue ==
    ASSUME NEW h \in [EntryId -> [Apps -> Nat]], NEW e \in EntryId, NEW a \in Apps,
           NEW d \in EntryId, NEW b \in Apps
    PROVE  /\ Join(h, e, a)[d][b] = IF d = e /\ b = a THEN h[d][b] + 1 ELSE h[d][b]
           /\ Leave(h, e, a)[d][b] = IF d = e /\ b = a THEN h[d][b] - 1 ELSE h[d][b]
  BY DEF Join, Leave

(* The size of the set of holders when a run enters or leaves it. *)
LEMMA SizeAfter ==
    ASSUME NEW S, IsFiniteSet(S), NEW x
    PROVE  /\ Cardinality(S) \in Nat
           /\ x \notin S => Cardinality(S \cup {x}) = Cardinality(S) + 1
           /\ x \in S => Cardinality(S \ {x}) = Cardinality(S) - 1 /\ Cardinality(S) >= 1
  <1>1. Cardinality(S) \in Nat
    BY FS_CardinalityType
  <1>2. x \notin S => Cardinality(S \cup {x}) = Cardinality(S) + 1
    BY FS_AddElement
  <1>3. ASSUME x \in S
        PROVE  Cardinality(S \ {x}) = Cardinality(S) - 1 /\ Cardinality(S) >= 1
    <2>1. Cardinality(S \ {x}) = Cardinality(S) - 1
      BY <1>3, FS_RemoveElement
    <2>2. Cardinality(S) # 0
      BY <1>3, FS_EmptySet
    <2> QED BY <1>1, <2>1, <2>2
  <1> QED BY <1>1, <1>2, <1>3

LEMMA HoldersFinite ==
    ASSUME NEW e, NEW a
    PROVE  IsFiniteSet(HolderRuns(e, a))
  <1>1. HolderRuns(e, a) \subseteq Runs
    BY DEF HolderRuns
  <1> QED BY <1>1, Assumptions, FS_Subset

(* An entry that counts nobody is in no run's references. *)
LEMMA UnheldIsFree ==
    ASSUME NEW h, NEW f, NEW e \in EntryId,
           \A b \in Apps : h[e][b] = Count(f, e, b),
           Unheld(h, e), NEW r \in Runs
    PROVE  e \notin f[r]
  <1> DEFINE H == {q \in Runs : e \in f[q] /\ AppOf[q] = AppOf[r]}
  <1>1. AppOf[r] \in Apps
    BY Assumptions
  <1>2. Cardinality(H) = 0
    BY <1>1 DEF Unheld, Count
  <1>3. IsFiniteSet(H)
    BY Assumptions, FS_Subset
  <1>4. H = {}
    BY <1>2, <1>3, FS_EmptySet
  <1> QED BY <1>4

-----------------------------------------------------------------------------
LEMMA SharedInit == Init => SharedInv
  <1> SUFFICES ASSUME Init PROVE SharedInv
    OBVIOUS
  <1>1. TypeOK
    BY Assumptions DEF Init, TypeOK, EntryId, None, Pc
  <1>2. CountsRight
    <2> SUFFICES ASSUME NEW e \in EntryId, NEW a \in Apps
                 PROVE  holders[e][a] = Cardinality({r \in Runs : e \in refs[r] /\ AppOf[r] = a})
      BY DEF CountsRight
    <2>1. {r \in Runs : e \in refs[r] /\ AppOf[r] = a} = {}
      BY DEF Init
    <2>2. holders[e][a] = 0
      BY DEF Init
    <2> QED BY <2>1, <2>2, FS_EmptySet
  <1>3. HeldIsIndexed /\ LoadedIsStarted
    BY DEF Init, HeldIsIndexed, LoadedIsStarted, Loaded
  <1>4. IndexRight /\ LoadingHeld /\ SyncedIsStarted
    BY DEF Init, IndexRight, LoadingHeld, SyncedIsStarted, None
  <1> QED BY <1>1, <1>2, <1>3, <1>4 DEF SharedInv

(* A new reference: the entry is the one in the index, or a new one.       *)
LEMMA LoadStep ==
    ASSUME SharedInv, NEW r \in Runs, NEW k \in Keys, Load(r, k)
    PROVE  SharedInv'
  <1> USE DEF SharedInv
  <1> DEFINE a == AppOf[r]
  <1>1. a \in Apps
    BY Assumptions
  <1>2. PICK e \in EntryId :
          /\ IF index[k] # None THEN e = index[k] /\ UNCHANGED <<index, key>>
             ELSE /\ IsFresh(e)
                  /\ key' = [key EXCEPT ![e] = k]
                  /\ index' = [index EXCEPT ![k] = e]
          /\ holders' = Join(holders, e, a)
          /\ refs' = [refs EXCEPT ![r] = @ \cup {e}]
          /\ loading' = [loading EXCEPT ![r] = e]
    BY DEF Load
  <1>22. holders \in [EntryId -> [Apps -> Nat]] /\ holders' = Join(holders, e, a)
    BY <1>2 DEF TypeOK
  <1>3. /\ pc[r] = "working" /\ pc' = [pc EXCEPT ![r] = "start"]
        /\ \A d \in refs[r] : ServiceOf[key[d]] # ServiceOf[k]
        /\ UNCHANGED <<started, cleanups, teardowns, worktree, server, tools, faults>>
    BY DEF Load, Goto, diskVars
  <1>4. index[k] = None => key[e] = NoKey /\ \A q \in Runs : e \notin refs[q]
    BY <1>2 DEF IsFresh, HeldIsIndexed
  <1>5. e \notin refs[r]
    BY <1>2, <1>3, <1>4 DEF IndexRight
  <1>6. e # None
    BY DEF EntryId, None
  <1>7. /\ key' \in [EntryId -> Keys \cup {NoKey}] /\ key'[e] = k
        /\ \A d \in EntryId : d # e => key'[d] = key[d]
    BY <1>2 DEF TypeOK, IndexRight
  <1>8. /\ index' \in [Keys -> EntryId \cup {None}] /\ index'[k] = e
        /\ \A j \in Keys : j # k => index'[j] = index[j]
    BY <1>2 DEF TypeOK
  <1>9. /\ refs' \in [Runs -> SUBSET EntryId]
        /\ \A q \in Runs, d \in EntryId :
              d \in refs'[q] <=> (d \in refs[q] \/ (q = r /\ d = e))
    BY <1>2 DEF TypeOK
  <1>10. TypeOK'
    <2>1. holders' \in [EntryId -> [Apps -> Nat]]
      BY <1>1, <1>22, CountType
    <2>2. loading' \in [Runs -> EntryId \cup {None}] /\ pc' \in [Runs -> Pc]
      BY <1>2, <1>3 DEF TypeOK, Pc
    <2> QED BY <1>3, <1>7, <1>8, <1>9, <2>1, <2>2 DEF TypeOK
  <1>11. CountsRight'
    <2> SUFFICES ASSUME NEW d \in EntryId, NEW b \in Apps
                 PROVE  holders'[d][b] = Cardinality({q \in Runs : d \in refs'[q] /\ AppOf[q] = b})
      BY DEF CountsRight
    <2>1. holders'[d][b] = IF d = e /\ b = a THEN holders[d][b] + 1 ELSE holders[d][b]
      BY <1>1, <1>22, CountValue
    <2>2. holders[d][b] = Cardinality(HolderRuns(d, b))
      BY DEF CountsRight, HolderRuns
    <2>3. CASE d = e /\ b = a
      <3>1. {q \in Runs : d \in refs'[q] /\ AppOf[q] = b} = HolderRuns(d, b) \cup {r}
        BY <1>9, <2>3 DEF HolderRuns
      <3>2. r \notin HolderRuns(d, b)
        BY <1>5, <2>3 DEF HolderRuns
      <3> QED BY <2>1, <2>2, <2>3, <3>1, <3>2, SizeAfter, HoldersFinite
    <2>4. CASE ~(d = e /\ b = a)
      <3>1. {q \in Runs : d \in refs'[q] /\ AppOf[q] = b} = HolderRuns(d, b)
        BY <1>9, <2>4 DEF HolderRuns
      <3> QED BY <2>1, <2>2, <2>4, <3>1
    <2> QED BY <2>3, <2>4
  <1>12. HeldIsIndexed'
    <2> SUFFICES ASSUME NEW q \in Runs, NEW d \in refs'[q]
                 PROVE  key'[d] # NoKey /\ index'[key'[d]] = d
      BY DEF HeldIsIndexed
    <2>1. d \in EntryId
      BY <1>9
    <2>2. CASE d = e
      BY <2>2, <1>7, <1>8, Assumptions
    <2>3. CASE d # e
      <3>1. d \in refs[q] /\ key[d] # NoKey /\ index[key[d]] = d /\ key[d] \in Keys
        BY <2>1, <2>3, <1>9 DEF HeldIsIndexed, TypeOK
      <3>2. key[d] # k
        BY <2>1, <2>3, <3>1, <1>2 DEF EntryId, None
      <3> QED BY <2>1, <2>3, <3>1, <3>2, <1>7, <1>8
    <2> QED BY <2>2, <2>3
  <1>13. LoadedIsStarted'
    <2> SUFFICES ASSUME NEW q \in Runs, NEW d \in refs'[q] \ {loading'[q]}
                 PROVE  d \in started
      BY <1>3 DEF LoadedIsStarted, Loaded
    <2>1. d \in EntryId /\ d # None
      BY <1>9 DEF EntryId, None
    <2>2. d \in refs[q] /\ d # loading[q]
      BY <2>1, <1>2, <1>3, <1>9 DEF LoadingHeld, TypeOK
    <2> QED BY <2>2 DEF LoadedIsStarted, Loaded
  <1>14. IndexRight'
    <2> SUFFICES ASSUME NEW j \in Keys, index'[j] # None
                 PROVE  key'[index'[j]] = j
      BY DEF IndexRight
    <2>1. CASE j = k
      BY <2>1, <1>7, <1>8
    <2>2. CASE j # k
      <3>1. index'[j] = index[j] /\ index[j] \in EntryId /\ key[index[j]] = j
        BY <2>2, <1>8 DEF IndexRight, TypeOK
      <3>2. CASE index[k] # None
        BY <3>1, <3>2, <1>2
      <3>3. CASE index[k] = None
        <4>1. key[e] = NoKey
          BY <3>3, <1>4
        <4>2. index[j] # e
          BY <3>1, <4>1, Assumptions
        <4> QED BY <3>1, <4>2, <1>7
      <3> QED BY <3>2, <3>3
    <2> QED BY <2>1, <2>2
  <1>15. LoadingHeld' /\ SyncedIsStarted'
    BY <1>2, <1>3, <1>9 DEF LoadingHeld, SyncedIsStarted, TypeOK
  <1> QED BY <1>10, <1>11, <1>12, <1>13, <1>14, <1>15

-----------------------------------------------------------------------------
(* A run drops its references to the entries of S, and the entries of S    *)
(* that nobody holds any more leave the index.                             *)
LEMMA DropStep ==
    ASSUME SharedInv, NEW r \in Runs, NEW S \in SUBSET refs[r],
           \A d \in EntryId, b \in Apps :
               holders'[d][b] = IF d \in S /\ b = AppOf[r] THEN holders[d][b] - 1
                                ELSE holders[d][b],
           refs' = [refs EXCEPT ![r] = @ \ S],
           index' = Without(S), key' = key
    PROVE  /\ index' \in [Keys -> EntryId \cup {None}]
           /\ refs' \in [Runs -> SUBSET EntryId]
           /\ CountsRight' /\ HeldIsIndexed' /\ IndexRight'
  <1> USE DEF SharedInv
  <1>1. /\ refs' \in [Runs -> SUBSET EntryId]
        /\ \A q \in Runs, d \in EntryId :
              d \in refs'[q] <=> (d \in refs[q] /\ ~(q = r /\ d \in S))
    BY DEF TypeOK
  <1>2. /\ index' \in [Keys -> EntryId \cup {None}]
        /\ \A j \in Keys : index'[j] # None => index'[j] = index[j]
    BY DEF TypeOK, Without
  <1>3. CountsRight'
    <2> SUFFICES ASSUME NEW d \in EntryId, NEW b \in Apps
                 PROVE  holders'[d][b] = Cardinality({q \in Runs : d \in refs'[q] /\ AppOf[q] = b})
      BY DEF CountsRight
    <2>1. holders[d][b] = Cardinality(HolderRuns(d, b))
      BY DEF CountsRight, HolderRuns
    <2>2. CASE d \in S /\ b = AppOf[r]
      <3>1. {q \in Runs : d \in refs'[q] /\ AppOf[q] = b} = HolderRuns(d, b) \ {r}
        BY <1>1, <2>2 DEF HolderRuns
      <3>2. r \in HolderRuns(d, b)
        BY <2>2 DEF HolderRuns
      <3>3. holders'[d][b] = holders[d][b] - 1
        BY <2>2
      <3> QED BY <2>1, <3>1, <3>2, <3>3, SizeAfter, HoldersFinite
    <2>3. CASE ~(d \in S /\ b = AppOf[r])
      <3>1. {q \in Runs : d \in refs'[q] /\ AppOf[q] = b} = HolderRuns(d, b)
        BY <1>1, <2>3 DEF HolderRuns
      <3>2. holders'[d][b] = holders[d][b]
        BY <2>3
      <3> QED BY <2>1, <3>1, <3>2
    <2> QED BY <2>2, <2>3
  <1>4. HeldIsIndexed'
    <2> SUFFICES ASSUME NEW q \in Runs, NEW d \in refs'[q]
                 PROVE  key'[d] # NoKey /\ index'[key'[d]] = d
      BY DEF HeldIsIndexed
    <2>1. d \in EntryId
      BY <1>1
    <2>2. d \in refs[q] /\ key[d] # NoKey /\ index[key[d]] = d /\ key[d] \in Keys
      BY <2>1, <1>1 DEF HeldIsIndexed, TypeOK
    <2>3. ~Unheld(holders', d)
      <3>1. \A b \in Apps : holders'[d][b] = Count(refs', d, b)
        BY <1>3, <2>1 DEF CountsRight, Count
      <3> QED BY <2>1, <3>1, UnheldIsFree
    <2>4. ASSUME NEW c \in S, key[c] = key[d]
          PROVE  c = d
      BY <2>2, <2>4 DEF HeldIsIndexed
    <2>5. ~ \E c \in S : key[c] = key[d] /\ Unheld(holders', c)
      BY <2>3, <2>4
    <2>6. index'[key[d]] = index[key[d]]
      BY <2>2, <2>5 DEF Without
    <2> QED BY <2>2, <2>6
  <1>5. IndexRight'
    BY <1>2 DEF IndexRight
  <1> QED BY <1>1, <1>2, <1>3, <1>4, <1>5

(* The rollback of a Load whose start failed. *)
LEMMA UndoStep ==
    ASSUME SharedInv, NEW r \in Runs, Undo(r)
    PROVE  SharedInv'
  <1> USE DEF SharedInv
  <1> DEFINE e == loading[r]
             a == AppOf[r]
  <1>1. a \in Apps
    BY Assumptions
  <1>2. /\ pc[r] = "undo" /\ pc' = [pc EXCEPT ![r] = "working"]
        /\ refs' = [refs EXCEPT ![r] = @ \ {e}]
        /\ holders' = Leave(holders, e, a)
        /\ index' = Without({e})
        /\ loading' = [loading EXCEPT ![r] = None]
        /\ UNCHANGED <<key, started, cleanups, teardowns, worktree, server, tools, faults>>
    BY DEF Undo, Goto, diskVars
  <1>3. e \in refs[r] /\ e \in EntryId
    BY <1>2 DEF LoadingHeld, TypeOK
  <1>4. holders \in [EntryId -> [Apps -> Nat]] /\ holders' = Leave(holders, e, a)
    BY <1>2 DEF TypeOK
  <1>5. holders[e][a] >= 1
    <2>1. holders[e][a] = Cardinality(HolderRuns(e, a))
      BY <1>1, <1>3 DEF CountsRight, HolderRuns
    <2>2. r \in HolderRuns(e, a)
      BY <1>3 DEF HolderRuns
    <2> QED BY <2>1, <2>2, SizeAfter, HoldersFinite
  <1>6. holders' \in [EntryId -> [Apps -> Nat]]
    BY <1>1, <1>3, <1>4, <1>5, CountType
  <1>7. /\ index' \in [Keys -> EntryId \cup {None}]
        /\ refs' \in [Runs -> SUBSET EntryId]
        /\ CountsRight' /\ HeldIsIndexed' /\ IndexRight'
    <2>1. \A d \in EntryId, b \in Apps :
             holders'[d][b] = IF d \in {e} /\ b = a THEN holders[d][b] - 1 ELSE holders[d][b]
      BY <1>1, <1>3, <1>4, CountValue
    <2>2. {e} \in SUBSET refs[r]
      BY <1>3
    <2>3. index' = Without({e}) /\ key' = key /\ refs' = [refs EXCEPT ![r] = @ \ {e}]
      BY <1>2
    <2> HIDE DEF e
    <2> QED BY <2>1, <2>2, <2>3, DropStep
  <1>8. TypeOK'
    <2>1. loading' \in [Runs -> EntryId \cup {None}] /\ pc' \in [Runs -> Pc]
      BY <1>2 DEF TypeOK, Pc
    <2> QED BY <1>2, <1>6, <1>7, <2>1 DEF TypeOK
  <1>9. LoadedIsStarted'
    <2> SUFFICES ASSUME NEW q \in Runs PROVE refs'[q] \ {loading'[q]} \subseteq started
      BY <1>2 DEF LoadedIsStarted, Loaded
    <2>1. refs'[q] \ {loading'[q]} \subseteq refs[q] \ {loading[q]}
      BY <1>2 DEF TypeOK
    <2> QED BY <2>1 DEF LoadedIsStarted, Loaded
  <1>10. LoadingHeld' /\ SyncedIsStarted'
    BY <1>2 DEF LoadingHeld, SyncedIsStarted, TypeOK
  <1> QED BY <1>7, <1>8, <1>9, <1>10

(* The release of a run. *)
LEMMA ReleaseStep ==
    ASSUME SharedInv, NEW r \in Runs, Release(r)
    PROVE  SharedInv'
  <1> USE DEF SharedInv
  <1> DEFINE a == AppOf[r]
  <1>1. a \in Apps
    BY Assumptions
  <1>2. /\ pc[r] = "working" /\ pc' = [pc EXCEPT ![r] = "leaving"]
        /\ refs' = [refs EXCEPT ![r] = {}]
        /\ cleanups' = [cleanups EXCEPT ![r] = Cleanups(r, holders')]
        /\ teardowns' = [teardowns EXCEPT ![r] = Teardowns(r, holders')]
        /\ index' = Without(refs[r])
        /\ UNCHANGED <<key, started, loading, worktree, server, tools, faults>>
    BY DEF Release, Goto, diskVars
  <1>3. refs[r] \subseteq EntryId /\ \A d \in refs[r] : key[d] \in Keys
    BY DEF TypeOK, HeldIsIndexed
  <1>4. holders \in [EntryId -> [Apps -> Nat]] /\ holders' = LeaveAll(r)
    BY DEF TypeOK, Release
  <1>5. \A d \in refs[r] : holders[d][a] >= 1
    <2> SUFFICES ASSUME NEW d \in refs[r] PROVE holders[d][a] >= 1
      OBVIOUS
    <2>1. holders[d][a] = Cardinality(HolderRuns(d, a))
      BY <1>1, <1>3 DEF CountsRight, HolderRuns
    <2>2. r \in HolderRuns(d, a)
      BY DEF HolderRuns
    <2> QED BY <2>1, <2>2, SizeAfter, HoldersFinite
  <1>6. holders' \in [EntryId -> [Apps -> Nat]]
    <2>1. ASSUME NEW d \in EntryId
          PROVE  (IF d \in refs[r] THEN Leave(holders, d, a)[d] ELSE holders[d]) \in [Apps -> Nat]
      <3>1. CASE d \in refs[r]
        <4>1. Leave(holders, d, a) \in [EntryId -> [Apps -> Nat]]
          BY <1>1, <1>4, <1>5, <3>1, CountType
        <4> QED BY <3>1, <4>1
      <3>2. CASE d \notin refs[r]
        BY <3>2, <1>4
      <3> QED BY <3>1, <3>2
    <2> QED BY <1>4, <2>1 DEF LeaveAll
  <1>7. /\ index' \in [Keys -> EntryId \cup {None}]
        /\ refs' \in [Runs -> SUBSET EntryId]
        /\ CountsRight' /\ HeldIsIndexed' /\ IndexRight'
    <2>1. \A d \in EntryId, b \in Apps :
             holders'[d][b] = IF d \in refs[r] /\ b = a THEN holders[d][b] - 1 ELSE holders[d][b]
      <3> SUFFICES ASSUME NEW d \in EntryId, NEW b \in Apps
                   PROVE  holders'[d][b] = IF d \in refs[r] /\ b = a
                                           THEN holders[d][b] - 1 ELSE holders[d][b]
        OBVIOUS
      <3>1. holders'[d] = IF d \in refs[r] THEN Leave(holders, d, a)[d] ELSE holders[d]
        BY <1>4 DEF LeaveAll
      <3>2. Leave(holders, d, a)[d][b] = IF b = a THEN holders[d][b] - 1 ELSE holders[d][b]
        BY <1>1, <1>4, CountValue
      <3> QED BY <3>1, <3>2
    <2>2. refs[r] \in SUBSET refs[r]
      OBVIOUS
    <2>3. refs' = [refs EXCEPT ![r] = @ \ refs[r]]
      BY <1>2
    <2>4. index' = Without(refs[r]) /\ key' = key
      BY <1>2
    <2> QED BY <2>1, <2>2, <2>3, <2>4, DropStep
  <1>8. TypeOK'
    <2>1. Cleanups(r, holders') \subseteq Keys \X Apps
      BY <1>1, <1>3 DEF Cleanups
    <2>2. Teardowns(r, holders') \subseteq EntryId
      BY <1>3 DEF Teardowns
    <2>3. /\ cleanups' \in [Runs -> SUBSET (Keys \X Apps)]
          /\ teardowns' \in [Runs -> SUBSET EntryId]
      BY <1>2, <2>1, <2>2 DEF TypeOK
    <2>4. pc' \in [Runs -> Pc]
      BY <1>2 DEF TypeOK, Pc
    <2> QED BY <1>2, <1>6, <1>7, <2>3, <2>4 DEF TypeOK
  <1>9. LoadedIsStarted'
    <2> SUFFICES ASSUME NEW q \in Runs PROVE refs'[q] \ {loading[q]} \subseteq started
      BY <1>2 DEF LoadedIsStarted, Loaded
    <2>1. refs'[q] \subseteq refs[q]
      BY <1>2 DEF TypeOK
    <2> QED BY <2>1 DEF LoadedIsStarted, Loaded
  <1>10. LoadingHeld' /\ SyncedIsStarted'
    BY <1>2 DEF LoadingHeld, SyncedIsStarted, TypeOK
  <1> QED BY <1>7, <1>8, <1>9, <1>10

(* Steps that change no reference, no count and no index. *)
LEMMA FrameStep ==
    ASSUME SharedInv, UNCHANGED <<index, key, holders, refs>>
    PROVE  CountsRight' /\ HeldIsIndexed' /\ IndexRight'
  BY DEF SharedInv, CountsRight, HeldIsIndexed, IndexRight

(* The start of an instance: found started, started, or failed. *)
LEMMA StartStep ==
    ASSUME SharedInv, NEW r \in Runs, Start(r)
    PROVE  SharedInv'
  <1> USE DEF SharedInv
  <1>1. /\ pc[r] = "start" /\ loading[r] \in EntryId /\ key[loading[r]] \in Keys
        /\ UNCHANGED <<index, key, holders, refs, loading, cleanups, teardowns, tools>>
    BY DEF Start, AlreadyStarted, ColdStart, StartFails, LoadingHeld, HeldIsIndexed, TypeOK
  <1>2. \/ started' = started /\ loading[r] \in started /\ pc' = [pc EXCEPT ![r] = "sync"]
        \/ started' = started \cup {loading[r]} /\ pc' = [pc EXCEPT ![r] = "sync"]
        \/ started' = started /\ pc' = [pc EXCEPT ![r] = "undo"]
    BY DEF Start, AlreadyStarted, ColdStart, StartFails, Goto
  <1>3. /\ started' \subseteq EntryId /\ started \subseteq started'
        /\ pc' \in [Runs -> Pc]
        /\ \A q \in Runs \ {r} : pc'[q] = pc[q]
        /\ pc'[r] \in {"sync", "undo"}
        /\ pc'[r] = "sync" => loading[r] \in started'
    BY <1>1, <1>2 DEF TypeOK, Pc
  <1>4. TypeOK'
    <2>1. worktree' \subseteq Keys /\ server' \subseteq Keys /\ faults' \in 0..MaxFaults
      BY <1>1, Assumptions
         DEF Start, AlreadyStarted, ColdStart, StartFails, TypeOK, diskVars
    <2> QED BY <1>1, <1>3, <2>1 DEF TypeOK
  <1>5. LoadedIsStarted'
    BY <1>1, <1>3 DEF LoadedIsStarted, Loaded
  <1>6. LoadingHeld'
    BY <1>1, <1>3 DEF LoadingHeld
  <1>7. SyncedIsStarted'
    BY <1>1, <1>3 DEF SyncedIsStarted
  <1> QED BY <1>1, <1>4, <1>5, <1>6, <1>7, FrameStep

(* The end of a Load. *)
LEMMA SyncStep ==
    ASSUME SharedInv, NEW r \in Runs, Sync(r)
    PROVE  SharedInv'
  <1> USE DEF SharedInv
  <1>1. /\ pc[r] = "sync" /\ loading[r] \in EntryId /\ key[loading[r]] \in Keys
        /\ loading[r] \in started
        /\ pc' = [pc EXCEPT ![r] = "working"]
        /\ loading' = [loading EXCEPT ![r] = None]
        /\ UNCHANGED <<index, key, started, holders, refs, cleanups, teardowns,
                       worktree, server, faults>>
    BY DEF Sync, Goto, diskVars, LoadingHeld, HeldIsIndexed, SyncedIsStarted, TypeOK
  <1>2. TypeOK'
    <2>1. tools' \subseteq Keys \X Apps
      <3>1. <<key[loading[r]], AppOf[r]>> \in Keys \X Apps
        BY <1>1, Assumptions
      <3>2. tools' = tools \/ tools' = tools \cup {<<key[loading[r]], AppOf[r]>>}
        BY DEF Sync
      <3> QED BY <3>1, <3>2 DEF TypeOK
    <2>2. loading' \in [Runs -> EntryId \cup {None}] /\ pc' \in [Runs -> Pc]
      BY <1>1 DEF TypeOK, Pc
    <2> QED BY <1>1, <2>1, <2>2 DEF TypeOK
  <1>3. LoadedIsStarted'
    <2> SUFFICES ASSUME NEW q \in Runs, NEW d \in refs[q], d # loading'[q]
                 PROVE  d \in started
      BY <1>1 DEF LoadedIsStarted, Loaded
    <2>1. CASE d = loading[q]
      <3>1. q = r
        BY <1>1, <2>1 DEF TypeOK
      <3> QED BY <1>1, <2>1, <3>1
    <2>2. CASE d # loading[q]
      BY <2>2 DEF LoadedIsStarted, Loaded
    <2> QED BY <2>1, <2>2
  <1>4. LoadingHeld' /\ SyncedIsStarted'
    BY <1>1 DEF LoadingHeld, SyncedIsStarted, TypeOK
  <1> QED BY <1>1, <1>2, <1>3, <1>4, FrameStep

(* The end of a release. *)
LEMMA LeavingStep ==
    ASSUME SharedInv, NEW r \in Runs,
           \/ \E c \in cleanups[r] : Clean(r, c)
           \/ \E e \in teardowns[r] : TearDown(r, e)
           \/ Released(r)
    PROVE  SharedInv'
  <1> USE DEF SharedInv
  <1>1. /\ UNCHANGED <<index, key, started, holders, refs, loading, faults>>
        /\ pc' = pc \/ (pc[r] = "leaving" /\ pc' = [pc EXCEPT ![r] = "over"])
    BY DEF Clean, TearDown, Released, Goto
  <1>2. TypeOK'
    <2>1. /\ cleanups' \in [Runs -> SUBSET (Keys \X Apps)]
          /\ teardowns' \in [Runs -> SUBSET EntryId]
          /\ tools' \subseteq Keys \X Apps /\ worktree' \subseteq Keys /\ server' \subseteq Keys
      <3>1. CASE \E c \in cleanups[r] : Clean(r, c)
        BY <3>1 DEF Clean, TypeOK, diskVars
      <3>2. CASE \E e \in teardowns[r] : TearDown(r, e)
        BY <3>2 DEF TearDown, TypeOK, diskVars
      <3>3. CASE Released(r)
        BY <3>3 DEF Released, TypeOK, diskVars
      <3> QED BY <3>1, <3>2, <3>3
    <2>2. pc' \in [Runs -> Pc]
      BY <1>1 DEF TypeOK, Pc
    <2> QED BY <1>1, <2>1, <2>2 DEF TypeOK
  <1>3. LoadedIsStarted'
    BY <1>1 DEF LoadedIsStarted, Loaded
  <1>4. LoadingHeld' /\ SyncedIsStarted'
    BY <1>1 DEF LoadingHeld, SyncedIsStarted, TypeOK
  <1> QED BY <1>1, <1>2, <1>3, <1>4, FrameStep

LEMMA SharedStutter == SharedInv /\ UNCHANGED vars => SharedInv'
  BY DEF SharedInv, vars, diskVars, TypeOK, CountsRight, HeldIsIndexed, LoadedIsStarted, Loaded,
         IndexRight, LoadingHeld, SyncedIsStarted

-----------------------------------------------------------------------------
(* Every step keeps the inductive invariant. *)
LEMMA SharedStep == SharedInv /\ [Next]_vars => SharedInv'
  <1> SUFFICES ASSUME SharedInv, [Next]_vars PROVE SharedInv'
    OBVIOUS
  <1>1. ASSUME NEW r \in Runs, NEW k \in Keys, Load(r, k) PROVE SharedInv'
    BY <1>1, LoadStep
  <1>2. ASSUME NEW r \in Runs, Start(r) PROVE SharedInv'
    BY <1>2, StartStep
  <1>3. ASSUME NEW r \in Runs, Undo(r) PROVE SharedInv'
    BY <1>3, UndoStep
  <1>4. ASSUME NEW r \in Runs, Sync(r) PROVE SharedInv'
    BY <1>4, SyncStep
  <1>5. ASSUME NEW r \in Runs, Release(r) PROVE SharedInv'
    BY <1>5, ReleaseStep
  <1>6. ASSUME NEW r \in Runs,
               \/ \E c \in cleanups[r] : Clean(r, c)
               \/ \E e \in teardowns[r] : TearDown(r, e)
               \/ Released(r)
        PROVE  SharedInv'
    BY <1>6, LeavingStep
  <1>7. CASE UNCHANGED vars
    BY <1>7, SharedStutter
  <1> QED BY <1>1, <1>2, <1>3, <1>4, <1>5, <1>6, <1>7 DEF Next

(* The inductive invariant holds in every state. *)
THEOREM SharedInvariant == Spec => []SharedInv
  <1> QED BY SharedInit, SharedStep, PTL DEF Spec

(* The counts of the manager are the references of the runs, for any runs, *)
(* apps and keys: nobody is counted twice and nobody is forgotten, through *)
(* releases, failed starts and rollbacks.                                  *)
THEOREM CountsAreRight == Spec => []CountsRight
  <1>1. SharedInv => CountsRight
    BY DEF SharedInv
  <1> QED BY <1>1, SharedInvariant, PTL

(* What a run holds is the instance the index shares: no two runs hold     *)
(* different instances of one workspace, and what a run has loaded was     *)
(* started.                                                                *)
THEOREM HeldIsShared == Spec => [](HeldIsIndexed /\ LoadedIsStarted)
  <1>1. SharedInv => HeldIsIndexed /\ LoadedIsStarted
    BY DEF SharedInv
  <1> QED BY <1>1, SharedInvariant, PTL

-----------------------------------------------------------------------------
(* What is left when every run is over.                                    *)

(* A run cleans up only while it leaves, and refers to nothing from then on. *)
LeavesLast ==
    \A r \in Runs :
      /\ pc[r] # "leaving" => cleanups[r] = {} /\ teardowns[r] = {}
      /\ pc[r] \in {"leaving", "over"} => refs[r] = {}
      /\ pc[r] = "undo" => faults > 0

(* Somebody refers to what is there, or is about to take it down.          *)
Minded(k) == \E r \in Runs, e \in EntryId : key[e] = k /\ (e \in refs[r] \/ e \in teardowns[r])
MindedTool(c) ==
    \E r \in Runs : AppOf[r] = c[2] /\ (c \in cleanups[r] \/ \E e \in refs[r] : key[e] = c[1])

AllMinded ==
    faults = 0 => (\A k \in worktree \cup server : Minded(k)) /\ (\A c \in tools : MindedTool(c))

LeftInv == SharedInv /\ LeavesLast /\ AllMinded

(* What is counted is referred to. *)
LEMMA CountedIsReferred ==
    ASSUME SharedInv', NEW e \in EntryId, NEW a \in Apps, holders'[e][a] # 0
    PROVE  \E q \in Runs : e \in refs'[q] /\ AppOf[q] = a
  <1> SUFFICES ASSUME {q \in Runs : e \in refs'[q] /\ AppOf[q] = a} = {} PROVE FALSE
    OBVIOUS
  <1>1. Cardinality({q \in Runs : e \in refs'[q] /\ AppOf[q] = a}) = 0
    BY FS_EmptySet
  <1> QED BY <1>1 DEF SharedInv, CountsRight

(* Who leaves hands over to those that stay, or takes down himself. *)
LEMMA ReleaseMinds == ASSUME LeftInv, SharedInv', NEW r \in Runs, Release(r) PROVE AllMinded'
  <1> SUFFICES ASSUME faults' = 0
               PROVE  (\A k \in worktree' \cup server' : Minded(k)') /\ (\A c \in tools' : MindedTool(c)')
    BY DEF AllMinded
  <1>1. /\ pc[r] = "working" /\ refs' = [refs EXCEPT ![r] = {}]
        /\ cleanups' = [cleanups EXCEPT ![r] = Cleanups(r, holders')]
        /\ teardowns' = [teardowns EXCEPT ![r] = Teardowns(r, holders')]
        /\ UNCHANGED <<key, faults, worktree, server, tools>>
    BY DEF Release, diskVars
  <1>2. /\ AllMinded /\ cleanups[r] = {} /\ teardowns[r] = {}
        /\ refs \in [Runs -> SUBSET EntryId]
        /\ cleanups \in [Runs -> SUBSET (Keys \X Apps)] /\ teardowns \in [Runs -> SUBSET EntryId]
        /\ tools \subseteq Keys \X Apps
        /\ \A e \in refs[r] : key[e] # NoKey /\ index[key[e]] = e
    BY <1>1 DEF LeftInv, LeavesLast, SharedInv, TypeOK, HeldIsIndexed
  <1>3. /\ refs'[r] = {} /\ cleanups'[r] = Cleanups(r, holders') /\ teardowns'[r] = Teardowns(r, holders')
        /\ \A q \in Runs \ {r} : refs'[q] = refs[q] /\ cleanups'[q] = cleanups[q] /\ teardowns'[q] = teardowns[q]
    BY <1>1, <1>2
  <1>4. ASSUME NEW k \in worktree' \cup server' PROVE Minded(k)'
    <2>1. PICK q \in Runs, e \in EntryId : key[e] = k /\ (e \in refs[q] \/ e \in teardowns[q])
      BY <1>1, <1>2 DEF AllMinded, Minded
    <2>2. CASE q # r
      BY <1>1, <1>3, <2>1, <2>2 DEF Minded
    <2>3. CASE q = r
      <3>1. e \in refs[r]
        BY <1>2, <2>1, <2>3
      <3>2. CASE Unheld(holders', e)
        <4>1. e \in teardowns'[r]
          BY <1>2, <1>3, <3>1, <3>2 DEF Teardowns, EntryId, None
        <4> QED BY <1>1, <2>1, <4>1 DEF Minded
      <3>3. CASE ~Unheld(holders', e)
        <4>1. PICK p \in Runs : e \in refs'[p]
          BY <3>3, CountedIsReferred DEF Unheld
        <4> QED BY <1>1, <2>1, <4>1 DEF Minded
      <3> QED BY <3>2, <3>3
    <2> QED BY <2>2, <2>3
  <1>5. ASSUME NEW c \in tools' PROVE MindedTool(c)'
    <2>1. /\ c \in Keys \X Apps
          /\ \E q \in Runs : AppOf[q] = c[2] /\ (c \in cleanups[q] \/ \E e \in refs[q] : key[e] = c[1])
      BY <1>1, <1>2 DEF AllMinded, MindedTool
    <2>2. PICK q \in Runs : AppOf[q] = c[2] /\ (c \in cleanups[q] \/ \E e \in refs[q] : key[e] = c[1])
      BY <2>1
    <2>3. CASE q # r
      BY <1>1, <1>3, <2>2, <2>3 DEF MindedTool
    <2>4. CASE q = r
      <3>1. PICK e \in refs[r] : key[e] = c[1] /\ e \in EntryId
        BY <1>2, <2>2, <2>4
      <3>2. CASE holders'[e][AppOf[r]] = 0
        <4>1. c = <<key[e], AppOf[r]>>
          BY <2>1, <2>2, <2>4, <3>1
        <4>2. c \in cleanups'[r]
          BY <1>3, <3>1, <3>2, <4>1 DEF Cleanups
        <4> QED BY <2>2, <2>4, <4>2 DEF MindedTool
      <3>3. CASE holders'[e][AppOf[r]] # 0
        <4>1. AppOf[r] \in Apps
          BY Assumptions
        <4>2. PICK p \in Runs : e \in refs'[p] /\ AppOf[p] = AppOf[r]
          BY <3>1, <3>3, <4>1, CountedIsReferred
        <4> QED BY <1>1, <2>2, <2>4, <3>1, <4>2 DEF MindedTool
      <3> QED BY <3>2, <3>3
    <2> QED BY <2>3, <2>4
  <1> QED BY <1>4, <1>5

(* A run that enters, starts or registers its copies refers to what it adds. *)
LEMMA LoadMinds ==
    ASSUME LeftInv, NEW r \in Runs, (\E k \in Keys : Load(r, k)) \/ Start(r) \/ Sync(r)
    PROVE  AllMinded'
  <1> SUFFICES ASSUME faults' = 0
               PROVE  (\A k \in worktree' \cup server' : Minded(k)') /\ (\A c \in tools' : MindedTool(c)')
    BY DEF AllMinded
  <1>1. /\ AllMinded /\ TypeOK /\ faults \in Nat
        /\ pc[r] \in {"start", "sync"} => loading[r] \in refs[r] /\ loading[r] \in EntryId
    BY DEF LeftInv, SharedInv, LoadingHeld, TypeOK
  <1>2. CASE \E k \in Keys : Load(r, k)
    <2>1. PICK e \in EntryId :
            /\ UNCHANGED key \/ (IsFresh(e) /\ \E k \in Keys : key' = [key EXCEPT ![e] = k])
            /\ refs' = [refs EXCEPT ![r] = refs[r] \cup {e}]
      BY <1>2 DEF Load
    <2>2. UNCHANGED <<cleanups, teardowns, worktree, server, tools, faults>>
      BY <1>2 DEF Load, diskVars
    <2>3. /\ \A q \in Runs : refs[q] \subseteq refs'[q]
          /\ \A d \in EntryId : key[d] \in Keys => key'[d] = key[d]
      BY <1>1, <2>1, Assumptions DEF TypeOK, IsFresh
    <2>4. worktree \cup server \subseteq Keys /\ \A c \in tools : c[1] \in Keys
      BY <1>1 DEF TypeOK
    <2>5. \A q \in Runs : refs[q] \subseteq EntryId
      BY <1>1 DEF TypeOK
    <2>6. ASSUME NEW k \in worktree' \cup server' PROVE Minded(k)'
      BY <1>1, <2>2, <2>3, <2>4 DEF AllMinded, Minded
    <2>7. ASSUME NEW c \in tools' PROVE MindedTool(c)'
      <3>1. c \in tools /\ c[1] \in Keys /\ MindedTool(c)
        BY <1>1, <2>2, <2>4 DEF AllMinded
      <3> QED BY <3>1, <2>2, <2>3, <2>5 DEF MindedTool
    <2> QED BY <2>6, <2>7
  <1>3. CASE Start(r)
    <2>1. /\ UNCHANGED <<key, refs, cleanups, teardowns, tools>>
          /\ faults = 0
          /\ \A k \in worktree' \cup server' :
               k \in worktree \cup server \/ (k = key[loading[r]] /\ pc[r] = "start")
      BY <1>1, <1>3 DEF Start, AlreadyStarted, ColdStart, StartFails, diskVars
    <2> QED BY <1>1, <2>1 DEF AllMinded, Minded, MindedTool
  <1>4. CASE Sync(r)
    <2>1. /\ UNCHANGED <<key, refs, cleanups, teardowns, worktree, server, faults>> /\ pc[r] = "sync"
          /\ \A c \in tools' : c \in tools \/ c = <<key[loading[r]], AppOf[r]>>
      BY <1>4 DEF Sync, diskVars
    <2> QED BY <1>1, <2>1 DEF AllMinded, Minded, MindedTool
  <1> QED BY <1>2, <1>3, <1>4

(* What is taken down is gone. *)
LEMMA LeavingMinds ==
    ASSUME LeftInv, NEW r \in Runs,
           \/ \E c \in cleanups[r] : Clean(r, c)
           \/ \E e \in teardowns[r] : TearDown(r, e)
           \/ Released(r)
    PROVE  AllMinded'
  <1>1. AllMinded /\ cleanups \in [Runs -> SUBSET (Keys \X Apps)] /\ teardowns \in [Runs -> SUBSET EntryId]
    BY DEF LeftInv, SharedInv, TypeOK
  <1>2. UNCHANGED <<key, refs, faults>>
    BY DEF Clean, TearDown, Released
  <1>3. ASSUME NEW c \in cleanups[r], Clean(r, c) PROVE AllMinded'
    <2>1. /\ tools' = tools \ {c} /\ cleanups' = [cleanups EXCEPT ![r] = cleanups[r] \ {c}]
          /\ UNCHANGED <<teardowns, worktree, server>>
      BY <1>3 DEF Clean, diskVars
    <2>2. \A q \in Runs : \A d \in cleanups[q] : d # c => d \in cleanups'[q]
      BY <1>1, <2>1
    <2> QED BY <1>1, <1>2, <2>1, <2>2 DEF AllMinded, Minded, MindedTool
  <1>4. ASSUME NEW e \in teardowns[r], TearDown(r, e) PROVE AllMinded'
    <2>1. /\ server' = server \ {key[e]} /\ worktree' = worktree \ {key[e]}
          /\ teardowns' = [teardowns EXCEPT ![r] = teardowns[r] \ {e}] /\ UNCHANGED <<cleanups, tools>>
      BY <1>4 DEF TearDown
    <2>2. \A q \in Runs : \A d \in teardowns[q] : d # e => d \in teardowns'[q]
      BY <1>1, <2>1
    <2> QED BY <1>1, <1>2, <2>1, <2>2 DEF AllMinded, Minded, MindedTool
  <1>5. CASE Released(r)
    BY <1>1, <1>2, <1>5 DEF Released, diskVars, AllMinded, Minded, MindedTool
  <1> QED BY <1>3, <1>4, <1>5

LEMMA LeavesLastStep == LeftInv /\ [Next]_vars => LeavesLast'
  <1> SUFFICES ASSUME LeftInv, [Next]_vars PROVE LeavesLast'
    OBVIOUS
  <1>1. /\ LeavesLast /\ faults \in Nat /\ pc \in [Runs -> Pc] /\ refs \in [Runs -> SUBSET EntryId]
        /\ cleanups \in [Runs -> SUBSET (Keys \X Apps)] /\ teardowns \in [Runs -> SUBSET EntryId]
    BY DEF LeftInv, SharedInv, TypeOK
  <1>2. ASSUME NEW r \in Runs, NEW k \in Keys, Load(r, k) PROVE LeavesLast'
    BY <1>1, <1>2 DEF Load, Goto, LeavesLast
  <1>3. ASSUME NEW r \in Runs, Start(r) PROVE LeavesLast'
    BY <1>1, <1>3 DEF Start, AlreadyStarted, ColdStart, StartFails, Goto, LeavesLast
  <1>4. ASSUME NEW r \in Runs, Undo(r) PROVE LeavesLast'
    BY <1>1, <1>4 DEF Undo, Goto, LeavesLast
  <1>5. ASSUME NEW r \in Runs, Sync(r) PROVE LeavesLast'
    BY <1>1, <1>5 DEF Sync, Goto, LeavesLast
  <1>6. ASSUME NEW r \in Runs, Release(r) PROVE LeavesLast'
    BY <1>1, <1>6 DEF Release, Goto, LeavesLast
  <1>7. ASSUME NEW r \in Runs,
               \/ \E c \in cleanups[r] : Clean(r, c)
               \/ \E e \in teardowns[r] : TearDown(r, e)
               \/ Released(r)
        PROVE  LeavesLast'
    BY <1>1, <1>7 DEF Clean, TearDown, Released, Goto, LeavesLast
  <1>8. CASE UNCHANGED vars
    BY <1>1, <1>8 DEF vars, LeavesLast
  <1> QED BY <1>2, <1>3, <1>4, <1>5, <1>6, <1>7, <1>8 DEF Next

LEMMA AllMindedStep == LeftInv /\ SharedInv' /\ [Next]_vars => AllMinded'
  <1> SUFFICES ASSUME LeftInv, SharedInv', [Next]_vars PROVE AllMinded'
    OBVIOUS
  <1>1. ASSUME NEW r \in Runs, Undo(r) PROVE AllMinded'
    BY <1>1 DEF Undo, LeftInv, LeavesLast, AllMinded
  <1>2. CASE UNCHANGED vars
    BY <1>2 DEF LeftInv, vars, diskVars, AllMinded, Minded, MindedTool
  <1> QED BY <1>1, <1>2, LoadMinds, ReleaseMinds, LeavingMinds DEF Next

(* When every run is over no worktree, no server and no copy of a tool is  *)
(* left, as long as no start failed, for any runs, apps, keys and loads    *)
(* (ReleaseRun).                                                           *)
THEOREM NothingIsLeft == Spec => []NothingLeft
  <1>1. Init => LeftInv
    BY SharedInit DEF Init, LeftInv, LeavesLast, AllMinded
  <1>2. LeftInv /\ [Next]_vars => LeftInv'
    BY SharedStep, LeavesLastStep, AllMindedStep DEF LeftInv
  <1>3. LeftInv => NothingLeft
    BY DEF LeftInv, LeavesLast, AllMinded, Minded, MindedTool, NothingLeft
  <1> QED BY <1>1, <1>2, <1>3, PTL DEF Spec

-----------------------------------------------------------------------------
(* The distribution of the client's messages.                              *)

USE HubAssumption DEF RunIds

(* What the client sends, and what a pump may hand over besides.           *)
FromClient == {Cancel} \cup {AnswerTo(k) : k \in Calls}
Handed     == FromClient \cup {Closed}

(* The pump of a hub holds a message only between two reads; what it hands *)
(* to a list of waiters is for one of them if it is an answer.             *)
PumpShaped(p) ==
    /\ p.pc \in {"off", "read", "exit"} => p.msg = Nothing
    /\ p.pc \in {"route", "buffer"} => p.msg \in FromClient
    /\ p.pc = "send" =>
         /\ p.msg \in Handed /\ p.todo # <<>>
         /\ \A k \in Calls : p.msg = AnswerTo(k) => Len(p.todo) = 1
         /\ \A k \in Asks : p.msg = AnswerTo(k) => p.todo[1] = k

(* An event is on its way to the waiter or has come. *)
Woken(k) ==
    \/ slot[k] # Nothing
    \/ PumpAt(RunOf[k], "send") /\ \E i \in DOMAIN pump[RunOf[k]].todo : pump[RunOf[k]].todo[i] = k
Waits(k) == wait[k] \in {"blocked", "expired"}
IdlePump == [pc |-> "read", msg |-> Nothing, todo |-> <<>>]
EndKnown(r) ==
    PumpAt(r, "exit") \/ (PumpAt(r, "send") /\ pump[r].msg = Closed) => dead[r]

(* Types, in parts that one kind of step changes. *)
ShapeOfPumps == pump \in [RunIds -> Pump] /\ \A r \in RunIds : PumpShaped(pump[r])
ShapeOfInbox == inbox \in Seq(FromClient) /\ Len(inbox) <= InboxCap
ShapeOfHubs ==
    /\ waiters \in [RunIds -> SUBSET Calls] /\ dead \in [RunIds -> BOOLEAN]
    /\ pending \in [RunIds -> Seq(Message)] /\ \A r \in RunIds : Len(pending[r]) <= PendingCap
ShapeOfCalls ==
    /\ slot \in [Calls -> Message] /\ wait \in [Calls -> {"none"} \cup Open \cup Ended]
    /\ \A k \in Calls : slot[k] \in Handed \cup {Nothing}
ShapeOfClient ==
    /\ closed \in BOOLEAN /\ run \in RunIds
    /\ answers \in [Calls -> 0..MaxAnswers] /\ cancels \in 0..MaxCancels

HubShape == ShapeOfPumps /\ ShapeOfInbox /\ ShapeOfHubs /\ ShapeOfCalls /\ ShapeOfClient

(* A call that waits is registered; a pump that has ended, or is about to, *)
(* has said so; and then whoever waits is woken.                           *)
HubEnds ==
    /\ \A k \in Calls : Waits(k) => k \in waiters[RunOf[k]]
    /\ \A r \in RunIds : EndKnown(r)
    /\ \A k \in Calls : Waits(k) /\ dead[RunOf[k]] => Woken(k)

HubInv == HubShape /\ NoCrossTalk /\ HubEnds

-----------------------------------------------------------------------------
(* The messages *)

LEMMA MessageFields ==
    /\ Cancel.type = "cancel" /\ Closed.type = "closed" /\ Nothing.type = "none"
    /\ {Cancel, Closed, Nothing} \subseteq Message
    /\ \A k \in Calls : /\ AnswerTo(k) \in Message /\ AnswerTo(k).call = k
                       /\ AnswerTo(k).type = IF k \in Asks THEN "answer" ELSE "confirm"
  BY DEF Message, MessageType, AnswerTo, Cancel, Closed, Nothing

LEMMA MessagesDiffer ==
    /\ FromClient \subseteq Message /\ Handed \subseteq Message /\ Nothing \in Message
    /\ Cancel # Closed /\ \A k \in Calls : AnswerTo(k) \notin {Cancel, Closed, Nothing}
    /\ Closed \notin FromClient /\ Nothing \notin Handed
    /\ \A j, k \in Calls : AnswerTo(j) = AnswerTo(k) => j = k
    /\ \A k \in Calls : AnswerTo(k).type = "answer" <=> k \in Asks
    /\ \A m \in Handed \cup {Nothing} : m.type = "answer" => \E k \in Asks : m = AnswerTo(k)
<1>1. FromClient \subseteq Message /\ Handed \subseteq Message
  BY MessageFields DEF FromClient, Handed
<1>2. Cancel # Closed /\ \A k \in Calls : AnswerTo(k) \notin {Cancel, Closed, Nothing}
  BY MessageFields
<1>3. Closed \notin FromClient /\ Nothing \notin Handed
  BY <1>2, MessageFields DEF FromClient, Handed
<1>4. \A j, k \in Calls : AnswerTo(j) = AnswerTo(k) => j = k
  BY MessageFields
<1>5. \A m \in Handed \cup {Nothing} : m.type = "answer" => \E k \in Asks : m = AnswerTo(k)
  BY MessageFields DEF FromClient, Handed
<1> QED BY <1>1, <1>2, <1>3, <1>4, <1>5, MessageFields

LEMMA HubTyped == HubShape => HubTypeOK
<1> SUFFICES ASSUME HubShape PROVE HubTypeOK
  OBVIOUS
<1>1. inbox \in [1..Len(inbox) -> Message] /\ Len(inbox) \in Nat
  BY MessagesDiffer DEF HubShape, ShapeOfInbox
<1>2. inbox \in Seq(Message)
  BY <1>1, SeqDef
<1> QED BY <1>2 DEF HubTypeOK, HubShape, ShapeOfPumps, ShapeOfInbox, ShapeOfHubs, ShapeOfCalls, ShapeOfClient

LEMMA RestOfMany ==
    ASSUME NEW S, NEW s \in Seq(S), s # <<>>, Len(s) # 1
    PROVE  Tail(s) \in Seq(S) /\ Tail(s) # <<>>
<1>1. Len(s) \in Nat /\ Len(s) # 0
  BY EmptySeq
<1>2. Tail(s) \in Seq(S) /\ Len(Tail(s)) = Len(s) - 1
  BY HeadTailProperties
<1>3. Len(Tail(s)) # Len(<<>>)
  BY <1>1, <1>2, EmptySeq
<1> QED BY <1>2, <1>3

LEMMA LaterInTail ==
    ASSUME NEW S, NEW s \in Seq(S), s # <<>>
    PROVE  \A i \in 2..Len(s) : \E n \in DOMAIN Tail(s) : Tail(s)[n] = s[i]
<1>1. PICK l : l = Len(s)
  OBVIOUS
<1>2. PICK t : t = Tail(s)
  OBVIOUS
<1>3. l \in Nat /\ t \in Seq(S) /\ Len(t) = l - 1 /\ \A n \in 1..Len(t) : t[n] = s[n + 1]
  BY ONLY <1>1, <1>2, s \in Seq(S), s # <<>>, HeadTailProperties, LenProperties
<1>4. DOMAIN t = 1..(l - 1)
  BY ONLY <1>3, LenProperties
<1>5. ASSUME NEW i \in 2..l PROVE i - 1 \in DOMAIN t /\ t[i - 1] = s[i]
  <2>1. i - 1 \in 1..(l - 1) /\ (i - 1) + 1 = i
    BY ONLY <1>3, i \in 2..l
  <2> QED BY ONLY <1>3, <1>4, <2>1
<1> QED BY ONLY <1>1, <1>2, <1>5

(* A list of waiters names each of them. *)
LEMMA OrderNames ==
    ASSUME NEW S \in SUBSET Calls, NEW order \in Orders(S)
    PROVE  /\ order \in Seq(Calls) /\ Len(order) = Cardinality(S) /\ Cardinality(S) \in Nat
           /\ \A k \in S : \E i \in DOMAIN order : order[i] = k
           /\ \A i \in DOMAIN order : order[i] \in S
           /\ S # {} => order # <<>>
<1>1. IsFiniteSet(S) /\ Cardinality(S) \in Nat
  BY FS_Subset, FS_CardinalityType
<1>2. order \in [1..Cardinality(S) -> S] /\ order \in Injection(1..Cardinality(S), S)
  BY DEF Orders, Injection, IsInjective
<1>3. Cardinality(1..Cardinality(S)) = Cardinality(S)
  BY <1>1, FS_Interval
<1>4. order \in Surjection(1..Cardinality(S), S)
  BY <1>1, <1>2, <1>3, FS_Injection
<1>5. order \in Seq(Calls) /\ Len(order) = Cardinality(S)
  BY <1>1, <1>2, SeqDef
<1>6. \A k \in S : \E i \in DOMAIN order : order[i] = k
  BY <1>2, <1>4 DEF Surjection
<1>7. S # {} => order # <<>>
  BY <1>6
<1> QED BY <1>1, <1>2, <1>5, <1>6, <1>7

-----------------------------------------------------------------------------
(* The shape of the hub *)

LEMMA PumpMoved ==
    ASSUME HubShape, NEW r \in RunIds, NEW p \in Pump, PumpShaped(p), pump' = [pump EXCEPT ![r] = p]
    PROVE  /\ pump' \in [RunIds -> Pump] /\ \A q \in RunIds : PumpShaped(pump'[q])
           /\ pump'[r] = p /\ \A q \in RunIds \ {r} : pump'[q] = pump[q]
<1>1. pump \in [RunIds -> Pump] /\ \A q \in RunIds : PumpShaped(pump[q])
  BY DEF HubShape, ShapeOfPumps
<1>2. pump'[r] = p /\ \A q \in RunIds \ {r} : pump'[q] = pump[q]
  BY <1>1
<1> QED BY <1>1, <1>2

(* Who may be handed a message: an answer goes to the call it is for.      *)
Fits(m, S) ==
    /\ \A k \in Calls : m = AnswerTo(k) /\ S # {} => Cardinality(S) = 1
    /\ \A k \in Asks : m = AnswerTo(k) => S \subseteq {k}

LEMMA ReceiversFit ==
    ASSUME NEW m \in FromClient, NEW W \in SUBSET Calls
    PROVE  /\ Receivers(m, W) \in SUBSET Calls /\ Receivers(m, W) \subseteq W
           /\ Fits(m, Receivers(m, W))
<1>1. Receivers(m, W) \subseteq W
  BY DEF Receivers
<1>2. ASSUME NEW k \in Calls, m = AnswerTo(k), Receivers(m, W) # {}
      PROVE  Cardinality(Receivers(m, W)) = 1
  <2>1. m # Cancel /\ \A j \in W : Match(j, m) <=> j = k
    BY <1>2, MessagesDiffer DEF Match
  <2>2. CASE k \in W
    <3>1. Receivers(m, W) = {k}
      BY <2>1, <2>2 DEF Receivers
    <3> QED BY <3>1, FS_Singleton
  <2>3. CASE k \notin W
    BY <1>2, <2>1, <2>3 DEF Receivers
  <2> QED BY <2>2, <2>3
<1>3. ASSUME NEW k \in Asks, m = AnswerTo(k) PROVE Receivers(m, W) \subseteq {k}
  <2>1. m # Cancel /\ Addressable(m) /\ \A j \in W : Match(j, m) <=> j = k
    BY <1>3, MessagesDiffer DEF Match, Addressable, Calls
  <2> QED BY <2>1 DEF Receivers
<1> QED BY <1>1, <1>2, <1>3 DEF Fits

(* A message is handed to a set of waiters, one after the other. *)
SentAs(r, m, S) ==
    \E p \in Pump :
        /\ PumpShaped(p) /\ pump' = [pump EXCEPT ![r] = p]
        /\ \/ S = {} /\ p = [pc |-> IF m = Closed THEN "exit" ELSE "read", msg |-> Nothing, todo |-> <<>>]
           \/ S # {} /\ p.pc = "send" /\ p.msg = m /\ \A k \in S : \E i \in DOMAIN p.todo : p.todo[i] = k
LEMMA SentTo ==
    ASSUME HubShape, NEW r \in RunIds, NEW m \in Handed, NEW S \in SUBSET Calls, SendTo(r, m, S),
           Fits(m, S)
    PROVE  SentAs(r, m, S)
<1>1. CASE S = {}
  <2> DEFINE p == [pc |-> IF m = Closed THEN "exit" ELSE "read", msg |-> Nothing, todo |-> <<>>]
  <2>1. pump' = [pump EXCEPT ![r] = p]
    BY <1>1 DEF SendTo, PumpGoto
  <2>2. p \in Pump /\ PumpShaped(p)
    BY MessagesDiffer DEF Pump, PumpPc, PumpShaped
  <2> QED BY <1>1, <2>1, <2>2 DEF SentAs
<1>2. CASE S # {}
  <2>1. PICK order \in Orders(S) : PumpGoto(r, "send", m, order)
    BY <1>2 DEF SendTo
  <2> DEFINE p == [pc |-> "send", msg |-> m, todo |-> order]
  <2>2. /\ order \in Seq(Calls) /\ Len(order) = Cardinality(S) /\ order # <<>>
        /\ \A k \in S : \E i \in DOMAIN order : order[i] = k
        /\ \A i \in DOMAIN order : order[i] \in S
    BY <1>2, <2>1, OrderNames
  <2>3. p \in Pump
    BY <2>2, MessagesDiffer DEF Pump, PumpPc
  <2>4. PumpShaped(p)
    <3>1. \A k \in Calls : m = AnswerTo(k) => Len(order) = 1
      BY <1>2, <2>2 DEF Fits
    <3>2. \A k \in Asks : m = AnswerTo(k) => order[1] = k
      BY <2>2, <3>1 DEF Fits, Calls
    <3> QED BY <2>2, <3>1, <3>2 DEF PumpShaped
  <2>5. pump' = [pump EXCEPT ![r] = p]
    BY <2>1 DEF PumpGoto
  <2> QED BY <1>2, <2>2, <2>3, <2>4, <2>5 DEF SentAs
<1> QED BY <1>1, <1>2

LEMMA PumpShapes == ASSUME HubShape, NEW r \in RunIds, PumpStep(r) PROVE HubShape'
<1>1. ShapeOfPumps /\ ShapeOfInbox /\ ShapeOfHubs /\ ShapeOfCalls /\ ShapeOfClient
  BY DEF HubShape
<1>2. pump[r] \in Pump /\ PumpShaped(pump[r])
  BY <1>1 DEF ShapeOfPumps
<1>3. SUFFICES ShapeOfPumps' /\ ShapeOfInbox' /\ ShapeOfHubs' /\ ShapeOfCalls' /\ ShapeOfClient'
  BY DEF HubShape
<1>4. ShapeOfClient'
  BY <1>1 DEF PumpStep, Read, Route, Buffer, Send, BroadcastError, clientVars, ShapeOfClient
<1>5. ASSUME NEW p \in Pump, PumpShaped(p), pump' = [pump EXCEPT ![r] = p] PROVE ShapeOfPumps'
  BY <1>5, PumpMoved DEF ShapeOfPumps
<1>6. CASE Read(r)
  <2> DEFINE p == [pc |-> "route", msg |-> Head(inbox), todo |-> <<>>]
  <2>1. Head(inbox) \in FromClient /\ Tail(inbox) \in Seq(FromClient) /\ Len(Tail(inbox)) <= InboxCap
    BY <1>1, <1>6 DEF Read, ShapeOfInbox
  <2>2. p \in Pump /\ PumpShaped(p)
    BY <2>1, MessagesDiffer DEF Pump, PumpPc, PumpShaped
  <2>3. pump' = [pump EXCEPT ![r] = p]
    BY <1>6 DEF Read, PumpGoto
  <2> QED BY <1>1, <1>4, <1>5, <1>6, <2>1, <2>2, <2>3 DEF Read, ShapeOfInbox, ShapeOfHubs, ShapeOfCalls
<1>7. CASE Route(r)
  <2> DEFINE m == pump[r].msg
             S == Receivers(m, waiters[r])
  <2>1. m \in FromClient /\ waiters[r] \in SUBSET Calls
    BY <1>1, <1>2, <1>7 DEF Route, PumpAt, PumpShaped, ShapeOfHubs
  <2>2. ShapeOfPumps'
    <3>1. CASE S = {} /\ Addressable(m)
      <4> DEFINE p == [pc |-> "buffer", msg |-> m, todo |-> <<>>]
      <4>1. p \in Pump /\ PumpShaped(p)
        BY <2>1, MessagesDiffer DEF Pump, PumpPc, PumpShaped
      <4>2. pump' = [pump EXCEPT ![r] = p]
        BY <1>7, <3>1 DEF Route, PumpGoto
      <4> QED BY <1>5, <4>1, <4>2
    <3>2. CASE ~(S = {} /\ Addressable(m))
      <4>1. SendTo(r, m, S) /\ m \in Handed
        BY <1>7, <2>1, <3>2 DEF Route, Handed
      <4>2. \E p \in Pump : PumpShaped(p) /\ pump' = [pump EXCEPT ![r] = p]
        <5> HIDE DEF m
        <5> QED BY <2>1, <4>1, ReceiversFit, SentTo DEF SentAs
      <4> QED BY <1>5, <4>2
    <3> QED BY <3>1, <3>2
  <2> QED BY <1>1, <1>4, <1>7, <2>2 DEF Route, ShapeOfInbox, ShapeOfHubs, ShapeOfCalls
<1>8. CASE Buffer(r)
  <2> DEFINE m == pump[r].msg
  <2>1. m \in Message /\ pending[r] \in Seq(Message) /\ Len(pending[r]) <= PendingCap
    BY <1>1, <1>2 DEF Pump, ShapeOfHubs
  <2>2. Buffered(pending[r], m) \in Seq(Message) /\ Len(Buffered(pending[r], m)) <= PendingCap
    BY <2>1 DEF Buffered
  <2>3. ShapeOfHubs'
    BY <1>1, <1>8, <2>2 DEF Buffer, ShapeOfHubs
  <2>4. pump' = [pump EXCEPT ![r] = IdlePump] /\ IdlePump \in Pump /\ PumpShaped(IdlePump)
    BY <1>8, MessagesDiffer DEF Buffer, PumpGoto, IdlePump, Pump, PumpPc, PumpShaped
  <2>5. ShapeOfPumps'
    BY <1>5, <2>4
  <2> QED BY <1>1, <1>4, <1>8, <2>3, <2>5 DEF Buffer, ShapeOfInbox, ShapeOfCalls
<1>9. CASE Send(r)
  <2> DEFINE m == pump[r].msg
             todo == pump[r].todo
  <2>1. m \in Handed /\ m \in Message /\ todo \in Seq(Calls) /\ todo # <<>> /\ Head(todo) \in Calls
    BY <1>2, <1>9, MessagesDiffer DEF Send, PumpAt, PumpShaped, Pump
  <2>2. slot' = [slot EXCEPT ![Head(todo)] = m]
    BY <1>9 DEF Send
  <2>3. ShapeOfCalls'
    BY <1>1, <1>9, <2>1, <2>2 DEF Send, ShapeOfCalls
  <2>4. ShapeOfPumps'
    <3>1. CASE Len(todo) = 1
      <4>1. SendTo(r, m, {})
        BY <1>9, <3>1 DEF Send
      <4>2. \E p \in Pump : PumpShaped(p) /\ pump' = [pump EXCEPT ![r] = p]
        <5>1. Fits(m, {})
          BY DEF Fits
        <5> HIDE DEF m
        <5> QED BY <2>1, <4>1, <5>1, SentTo DEF SentAs
      <4> QED BY <1>5, <4>2
    <3>2. CASE Len(todo) # 1
      <4> DEFINE p == [pc |-> "send", msg |-> m, todo |-> Tail(todo)]
      <4>1. \A k \in Calls : m # AnswerTo(k)
        BY <1>2, <1>9, <3>2 DEF Send, PumpAt, PumpShaped
      <4>2. Tail(todo) \in Seq(Calls) /\ Tail(todo) # <<>>
        BY <2>1, <3>2, RestOfMany
      <4>3. p \in Pump /\ PumpShaped(p)
        BY <2>1, <4>1, <4>2 DEF Pump, PumpPc, PumpShaped, Calls
      <4>4. pump' = [pump EXCEPT ![r] = p]
        BY <1>9, <3>2 DEF Send, PumpGoto
      <4> QED BY <1>5, <4>3, <4>4
    <3> QED BY <3>1, <3>2
  <2> QED BY <1>1, <1>4, <1>9, <2>3, <2>4 DEF Send, ShapeOfInbox, ShapeOfHubs
<1>10. CASE BroadcastError(r)
  <2>1. SendTo(r, Closed, waiters[r]) /\ waiters[r] \in SUBSET Calls /\ Closed \in Handed
        /\ \A k \in Calls : Closed # AnswerTo(k)
    BY <1>1, <1>10, MessagesDiffer DEF BroadcastError, ShapeOfHubs, Handed
  <2>2. \E p \in Pump : PumpShaped(p) /\ pump' = [pump EXCEPT ![r] = p]
    <3>1. Fits(Closed, waiters[r])
      BY <2>1 DEF Fits, Calls
    <3> QED BY <2>1, <3>1, SentTo DEF SentAs
  <2>3. ShapeOfHubs'
    <3>1. <<>> \in Seq(Message) /\ Len(<<>>) = 0
      OBVIOUS
    <3> QED BY <1>1, <1>10, <3>1 DEF BroadcastError, ShapeOfHubs
  <2> QED BY <1>1, <1>4, <1>5, <1>10, <2>2, <2>3 DEF BroadcastError, ShapeOfInbox, ShapeOfCalls
<1> QED BY <1>6, <1>7, <1>8, <1>9, <1>10 DEF PumpStep

(* What is left of a buffer when a message is claimed. *)
LEMMA UnclaimedRest ==
    ASSUME NEW S, NEW p \in Seq(S), NEW i \in 1..Len(p)
    PROVE  /\ Unclaimed(p, i) \in Seq(S) /\ Len(Unclaimed(p, i)) = Len(p) - 1
           /\ \A j \in 1..Len(Unclaimed(p, i)) : Unclaimed(p, i)[j] = IF j < i THEN p[j] ELSE p[j + 1]
<1>1. Len(p) \in Nat /\ \A j \in 1..Len(p) : p[j] \in S
  BY ElementOfSeq, LenProperties
<1> DEFINE s == SubSeq(p, 1, i - 1)
           t == SubSeq(p, i + 1, Len(p))
<1>2. s \in Seq(S) /\ Len(s) = i - 1 /\ \A j \in 1..(i - 1) : s[j] = p[j]
  <2>1. \A j \in 1..(i - 1) : p[j] \in S
    BY <1>1
  <2> QED BY <1>1, <2>1, SubSeqProperties
<1>3. t \in Seq(S) /\ Len(t) = Len(p) - i /\ \A j \in 1..(Len(p) - i) : t[j] = p[i + j]
  <2>1. \A j \in (i + 1)..Len(p) : p[j] \in S
    BY <1>1
  <2>2. /\ t \in Seq(S) /\ Len(t) = IF i + 1 <= Len(p) THEN Len(p) - (i + 1) + 1 ELSE 0
        /\ \A j \in 1..(Len(p) - (i + 1) + 1) : t[j] = p[i + 1 + j - 1]
    BY <1>1, <2>1, SubSeqProperties
  <2>3. \A j \in 1..(Len(p) - i) : i + 1 + j - 1 = i + j
    BY <1>1
  <2> QED BY <1>1, <2>2, <2>3
<1> HIDE DEF s, t
<1>4. /\ s \o t \in Seq(S) /\ Len(s \o t) = Len(s) + Len(t)
      /\ \A j \in 1..Len(s) + Len(t) : (s \o t)[j] = IF j <= Len(s) THEN s[j] ELSE t[j - Len(s)]
  <2>1. s \in Seq(S) /\ t \in Seq(S)
    BY <1>2, <1>3
  <2> QED BY ONLY <2>1, ConcatProperties, Zenon
<1>5. ASSUME NEW j \in 1..(Len(p) - 1)
      PROVE  (s \o t)[j] = IF j < i THEN p[j] ELSE p[j + 1]
  <2>1. j \in 1..Len(s) + Len(t)
    BY <1>1, <1>2, <1>3
  <2>2. CASE j < i
    <3>1. j <= Len(s) /\ j \in 1..(i - 1)
      BY <1>1, <1>2, <2>2
    <3> QED BY <1>2, <1>4, <2>1, <2>2, <3>1
  <2>3. CASE ~(j < i)
    <3>1. ~(j <= Len(s)) /\ j - Len(s) \in 1..(Len(p) - i) /\ i + (j - Len(s)) = j + 1
      BY <1>1, <1>2, <2>3
    <3> QED BY <1>3, <1>4, <2>1, <2>3, <3>1
  <2> QED BY <2>2, <2>3
<1>6. Len(s \o t) = Len(p) - 1
  BY <1>1, <1>2, <1>3, <1>4
<1>7. Unclaimed(p, i) = s \o t
  BY DEF Unclaimed, s, t
<1> QED BY <1>4, <1>5, <1>6, <1>7

LEMMA OutcomeEnds == \A k \in Calls : \A m : Outcome(k, m) \in Ended /\ (Outcome(k, m) = "answered" <=> Match(k, m))
<1> SUFFICES ASSUME NEW k \in Calls, NEW m
             PROVE  Outcome(k, m) \in Ended /\ (Outcome(k, m) = "answered" <=> Match(k, m))
  OBVIOUS
<1>1. CASE Match(k, m)
  <2>1. m.type # "cancel" /\ m.type # "closed"
    BY <1>1, MessageFields DEF Match
  <2> QED BY <1>1, <2>1 DEF Outcome, Ended
<1>2. CASE ~Match(k, m) /\ m.type = "cancel"
  BY <1>2 DEF Outcome, Ended
<1>3. CASE ~Match(k, m) /\ m.type # "cancel" /\ m.type = "closed"
  BY <1>3 DEF Outcome, Ended
<1>4. CASE ~Match(k, m) /\ m.type # "cancel" /\ m.type # "closed"
  BY <1>4 DEF Outcome, Ended
<1> QED BY <1>1, <1>2, <1>3, <1>4

CallStep(k) == Ask(k) \/ WaitStep(k) \/ Expire(k)

LEMMA CallShapes == ASSUME HubShape, NEW k \in Calls, CallStep(k) PROVE HubShape'
<1>1. ShapeOfPumps /\ ShapeOfInbox /\ ShapeOfHubs /\ ShapeOfCalls /\ ShapeOfClient
  BY DEF HubShape
<1> DEFINE r == RunOf[k]
<1>2. r \in RunIds
  OBVIOUS
<1>3. ShapeOfInbox' /\ ShapeOfClient'
  BY <1>1 DEF CallStep, WaitStep, Ask, RegisterDead, Claim, Register, Receive, Expire, Unregister, clientVars,
             ShapeOfInbox, ShapeOfClient
<1>4. ShapeOfCalls'
  <2>1. /\ slot' = slot \/ slot' = [slot EXCEPT ![k] = Nothing]
        /\ \E w \in {"none"} \cup Open \cup Ended : wait' = [wait EXCEPT ![k] = w]
    <3>1. CASE Ask(k) \/ Register(k) \/ Expire(k) \/ Unregister(k)
      BY <3>1 DEF Ask, Register, Expire, Unregister, Open, Ended
    <3>2. CASE RegisterDead(k) \/ Claim(k) \/ Receive(k)
      BY <3>2, OutcomeEnds DEF RegisterDead, Claim, Receive, End
    <3> QED BY <3>1, <3>2 DEF CallStep, WaitStep
  <2> QED BY <1>1, <2>1, MessagesDiffer DEF ShapeOfCalls
<1>5. ShapeOfHubs'
  <2>1. CASE Claim(k)
    <3>1. PICK i \in DOMAIN pending[r] : pending' = [pending EXCEPT ![r] = Unclaimed(pending[r], i)]
      BY <2>1 DEF Claim
    <3>2. pending[r] \in Seq(Message) /\ Len(pending[r]) <= PendingCap /\ Len(pending[r]) \in Nat
          /\ i \in 1..Len(pending[r])
      BY <1>1, <1>2, <3>1 DEF ShapeOfHubs
    <3>3. Unclaimed(pending[r], i) \in Seq(Message) /\ Len(Unclaimed(pending[r], i)) = Len(pending[r]) - 1
      BY <3>2, UnclaimedRest
    <3>4. Len(Unclaimed(pending[r], i)) <= PendingCap
      BY <3>2, <3>3
    <3> QED BY <1>1, <1>2, <2>1, <3>1, <3>3, <3>4 DEF Claim, ShapeOfHubs
  <2>2. CASE Register(k) \/ Unregister(k)
    <3>1. waiters \in [RunIds -> SUBSET Calls] /\ waiters[r] \in SUBSET Calls
      BY <1>1, <1>2 DEF ShapeOfHubs
    <3>2. \E W \in SUBSET Calls : waiters' = [waiters EXCEPT ![r] = W]
      <4>1. CASE Register(k)
        <5>1. waiters' = [waiters EXCEPT ![r] = waiters[r] \cup {k}]
          BY <4>1 DEF Register
        <5> QED BY <3>1, <5>1
      <4>2. CASE Unregister(k)
        <5>1. waiters' = [waiters EXCEPT ![r] = waiters[r] \ {k}]
          BY <4>2 DEF Unregister
        <5> QED BY <3>1, <5>1
      <4> QED BY <2>2, <4>1, <4>2
    <3>3. waiters' \in [RunIds -> SUBSET Calls]
      BY <3>1, <3>2
    <3>4. UNCHANGED <<dead, pending>>
      BY <2>2 DEF Register, Unregister
    <3> QED BY <1>1, <3>3, <3>4 DEF ShapeOfHubs
  <2>3. CASE Ask(k) \/ RegisterDead(k) \/ Receive(k) \/ Expire(k)
    BY <1>1, <2>3 DEF Ask, RegisterDead, Receive, Expire, ShapeOfHubs
  <2> QED BY <2>1, <2>2, <2>3 DEF CallStep, WaitStep
<1>6. ShapeOfPumps'
  <2>1. CASE Register(k)
    <3> DEFINE p == [pump[r] EXCEPT !.pc = IF pump[r].pc = "off" THEN "read" ELSE pump[r].pc]
    <3>1. pump[r] \in Pump /\ PumpShaped(pump[r])
      BY <1>1, <1>2 DEF ShapeOfPumps
    <3>2. p \in Pump /\ PumpShaped(p)
      BY <3>1 DEF Pump, PumpPc, PumpShaped
    <3>3. pump' = [pump EXCEPT ![r] = p]
      BY <1>1, <1>2, <2>1 DEF Register, ShapeOfPumps
    <3> QED BY <1>2, <3>2, <3>3, PumpMoved DEF ShapeOfPumps
  <2>2. CASE Ask(k) \/ RegisterDead(k) \/ Claim(k) \/ Receive(k) \/ Expire(k) \/ Unregister(k)
    BY <1>1, <2>2 DEF Ask, RegisterDead, Claim, Receive, Expire, Unregister, ShapeOfPumps
  <2> QED BY <2>1, <2>2 DEF CallStep, WaitStep
<1> QED BY <1>3, <1>4, <1>5, <1>6 DEF HubShape

(* The client and the handler. *)
ClientStep == (\E k \in Calls : SendAnswer(k)) \/ SendCancel \/ Close \/ NextRun

LEMMA ClientShapes == ASSUME HubShape, ClientStep PROVE HubShape'
<1>1. ShapeOfPumps /\ ShapeOfInbox /\ ShapeOfHubs /\ ShapeOfCalls /\ ShapeOfClient
  BY DEF HubShape
<1>2. ShapeOfPumps' /\ ShapeOfHubs' /\ ShapeOfCalls'
  BY <1>1 DEF ClientStep, SendAnswer, SendCancel, Close, NextRun, clientVars, ShapeOfPumps, ShapeOfHubs, ShapeOfCalls
<1>3. ASSUME NEW m \in FromClient, Forward(m) PROVE ShapeOfInbox'
  BY <1>1, <1>3 DEF Forward, ShapeOfInbox
<1>4. ShapeOfInbox' /\ ShapeOfClient'
  <2>1. CASE \E k \in Calls : SendAnswer(k)
    <3>1. PICK k \in Calls : SendAnswer(k)
      BY <2>1
    <3>2. ShapeOfInbox'
      BY <1>3, <3>1 DEF SendAnswer, FromClient
    <3>3. answers[k] \in 0..MaxAnswers /\ answers[k] < MaxAnswers /\ MaxAnswers \in Nat
      BY <1>1, <3>1 DEF SendAnswer, ShapeOfClient
    <3>4. answers[k] + 1 \in 0..MaxAnswers
      BY <3>3
    <3> QED BY <1>1, <3>1, <3>2, <3>4 DEF SendAnswer, ShapeOfClient
  <2>2. CASE SendCancel
    <3>1. ShapeOfInbox'
      BY <1>3, <2>2 DEF SendCancel, FromClient
    <3>2. cancels \in 0..MaxCancels /\ cancels < MaxCancels /\ MaxCancels \in Nat
      BY <1>1, <2>2 DEF SendCancel, ShapeOfClient
    <3>3. cancels + 1 \in 0..MaxCancels
      BY <3>2
    <3> QED BY <1>1, <2>2, <3>1, <3>3 DEF SendCancel, ShapeOfClient
  <2>3. CASE Close
    BY <1>1, <2>3 DEF Close, ShapeOfInbox, ShapeOfClient
  <2>4. CASE NextRun
    BY <1>1, <2>4 DEF NextRun, clientVars, ShapeOfInbox, ShapeOfClient
  <2> QED BY <2>1, <2>2, <2>3, <2>4 DEF ClientStep
<1> QED BY <1>2, <1>4 DEF HubShape

LEMMA ShapeStep == HubShape /\ [HubNext]_hubVars => HubShape'
<1> SUFFICES ASSUME HubShape, [HubNext]_hubVars PROVE HubShape'
  OBVIOUS
<1>1. CASE UNCHANGED hubVars
  BY <1>1 DEF hubVars, HubShape, ShapeOfPumps, ShapeOfInbox, ShapeOfHubs, ShapeOfCalls, ShapeOfClient
<1> QED BY <1>1, PumpShapes, CallShapes, ClientShapes DEF HubNext, CallStep, ClientStep

-----------------------------------------------------------------------------
(* Who is handed what, and who is woken *)

(* The event that a waiter gets is its own. *)
LEMMA CrossStep == HubShape /\ NoCrossTalk /\ [HubNext]_hubVars => NoCrossTalk'
<1> SUFFICES ASSUME HubShape, NoCrossTalk, [HubNext]_hubVars PROVE NoCrossTalk'
  OBVIOUS
<1>1. slot \in [Calls -> Message] /\ pump \in [RunIds -> Pump] /\ \A r \in RunIds : PumpShaped(pump[r])
  BY DEF HubShape, ShapeOfCalls, ShapeOfPumps
<1>2. ASSUME NEW r \in RunIds, Send(r) PROVE NoCrossTalk'
  <2> DEFINE m == pump[r].msg
             j == Head(pump[r].todo)
  <2>1. /\ m \in Handed /\ pump[r].todo \in Seq(Calls) /\ pump[r].todo # <<>> /\ j = pump[r].todo[1]
        /\ j \in Calls /\ \A k \in Asks : m = AnswerTo(k) => j = k
        /\ slot' = [slot EXCEPT ![j] = m]
    BY <1>1, <1>2 DEF Send, PumpAt, PumpShaped, Pump
  <2>2. m.type = "answer" => m.call = j
    BY <2>1, MessagesDiffer, MessageFields DEF Calls
  <2> QED BY <1>1, <2>1, <2>2 DEF NoCrossTalk
<1>3. ASSUME NEW j \in Calls, Receive(j) PROVE NoCrossTalk'
  <2>1. slot' = [slot EXCEPT ![j] = Nothing] /\ Nothing.type # "answer"
    BY <1>3, MessageFields DEF Receive
  <2> QED BY <1>1, <2>1 DEF NoCrossTalk
<1>4. CASE UNCHANGED slot
  BY <1>4 DEF NoCrossTalk
<1>5. (\E r \in RunIds : Send(r)) \/ (\E j \in Calls : Receive(j)) \/ UNCHANGED slot
  BY DEF HubNext, hubVars, WaitStep, PumpStep, Ask, RegisterDead, Claim, Register, Expire, Unregister,
         Read, Route, Buffer, BroadcastError, SendAnswer, SendCancel, Close, NextRun
<1> QED BY <1>2, <1>3, <1>4, <1>5

(* The pump that has read the end, and those that have not. *)
LEMMA PumpEnds == ASSUME HubShape, HubEnds, NEW r \in RunIds, PumpStep(r) PROVE HubEnds'
<1>1. /\ pump \in [RunIds -> Pump] /\ pump[r] \in Pump /\ PumpShaped(pump[r])
      /\ dead \in [RunIds -> BOOLEAN] /\ slot \in [Calls -> Message] /\ waiters[r] \in SUBSET Calls
  BY DEF HubShape, ShapeOfPumps, ShapeOfHubs, ShapeOfCalls
<1>2. UNCHANGED <<waiters, wait>>
  BY DEF PumpStep, Read, Route, Buffer, Send, BroadcastError
<1>3. ASSUME \A q \in RunIds \ {r} : pump'[q] = pump[q] /\ dead'[q] = dead[q],
             \A k \in Calls : slot[k] # Nothing => slot'[k] # Nothing,
             EndKnown(r)',
             \A k \in Calls : RunOf[k] = r /\ Waits(k) /\ dead'[r] => Woken(k)'
      PROVE  HubEnds'
  <2>1. \A q \in RunIds : EndKnown(q)'
    BY <1>3 DEF HubEnds, EndKnown, PumpAt
  <2>2. ASSUME NEW k \in Calls, Waits(k)', dead'[RunOf[k]] PROVE Woken(k)'
    <3>1. RunOf[k] \in RunIds /\ Waits(k)
      BY <1>2, <2>2 DEF Waits
    <3>2. CASE RunOf[k] = r
      BY <1>3, <2>2, <3>1, <3>2
    <3>3. CASE RunOf[k] # r
      <4>1. Woken(k) /\ pump'[RunOf[k]] = pump[RunOf[k]]
        BY <1>3, <2>2, <3>1, <3>3 DEF HubEnds
      <4> QED BY <1>3, <4>1 DEF Woken, PumpAt
    <3> QED BY <3>2, <3>3
  <2>3. \A k \in Calls : Waits(k)' => k \in waiters'[RunOf[k]]
    BY <1>2 DEF HubEnds, Waits
  <2> QED BY <2>1, <2>2, <2>3 DEF HubEnds
<1>4. CASE Read(r)
  <2>1. /\ pump' = [pump EXCEPT ![r] = [pc |-> "route", msg |-> Head(inbox), todo |-> <<>>]]
        /\ UNCHANGED <<dead, slot>> /\ pump[r].pc = "read"
    BY <1>4 DEF Read, PumpGoto, PumpAt
  <2>2. EndKnown(r)'
    BY <1>1, <2>1 DEF EndKnown, PumpAt
  <2>3. \A k \in Calls : RunOf[k] = r /\ Waits(k) /\ dead'[r] => Woken(k)'
    BY <1>1, <2>1 DEF HubEnds, Woken, PumpAt
  <2> QED BY <1>1, <1>3, <2>1, <2>2, <2>3
<1>5. CASE Route(r)
  <2> DEFINE m == pump[r].msg
             S == Receivers(m, waiters[r])
  <2>1. m \in FromClient /\ m # Closed /\ UNCHANGED <<dead, slot>> /\ pump[r].pc = "route"
    BY <1>1, <1>5, MessagesDiffer DEF Route, PumpAt, PumpShaped
  <2>2. PICK p : /\ pump' = [pump EXCEPT ![r] = p]
                 /\ p.pc # "exit" /\ ~(p.pc = "send" /\ p.msg = Closed)
    <3>1. CASE S = {} /\ Addressable(m)
      <4> DEFINE p == [pc |-> "buffer", msg |-> m, todo |-> <<>>]
      <4>1. pump' = [pump EXCEPT ![r] = p]
        BY <1>5, <3>1 DEF Route, PumpGoto
      <4>2. p.pc # "exit" /\ p.pc # "send"
        OBVIOUS
      <4> HIDE DEF p
      <4> QED BY <4>1, <4>2
    <3>2. CASE ~(S = {} /\ Addressable(m))
      <4>1. SendTo(r, m, S) /\ m \in Handed
        BY <1>5, <2>1, <3>2 DEF Route, Handed
      <4>2. \E p \in Pump :
              /\ pump' = [pump EXCEPT ![r] = p]
              /\ \/ S = {} /\ p = [pc |-> IF m = Closed THEN "exit" ELSE "read", msg |-> Nothing, todo |-> <<>>]
                 \/ S # {} /\ p.pc = "send" /\ p.msg = m
        <5> HIDE DEF m
        <5> QED BY <1>1, <2>1, <4>1, ReceiversFit, SentTo DEF SentAs
      <4>3. PICK p \in Pump :
              /\ pump' = [pump EXCEPT ![r] = p]
              /\ \/ S = {} /\ p = [pc |-> IF m = Closed THEN "exit" ELSE "read", msg |-> Nothing, todo |-> <<>>]
                 \/ S # {} /\ p.pc = "send" /\ p.msg = m
        BY <4>2
      <4>4. p.pc # "exit" /\ ~(p.pc = "send" /\ p.msg = Closed)
        BY <2>1, <4>3
      <4> QED BY <4>3, <4>4
    <3> QED BY <3>1, <3>2
  <2>3. pump'[r] = p /\ \A q \in RunIds \ {r} : pump'[q] = pump[q]
    BY <1>1, <2>2
  <2>4. EndKnown(r)'
    BY <2>2, <2>3 DEF EndKnown, PumpAt
  <2>5. \A k \in Calls : RunOf[k] = r /\ Waits(k) /\ dead'[r] => Woken(k)'
    BY <2>1 DEF HubEnds, Woken, PumpAt
  <2> QED BY <1>3, <2>1, <2>3, <2>4, <2>5
<1>6. CASE Buffer(r)
  <2>1. /\ pump' = [pump EXCEPT ![r] = IdlePump] /\ UNCHANGED <<dead, slot>> /\ pump[r].pc = "buffer"
        /\ IdlePump.pc = "read"
    BY <1>6 DEF Buffer, PumpGoto, PumpAt, IdlePump
  <2>2. EndKnown(r)'
    BY <1>1, <2>1 DEF EndKnown, PumpAt
  <2>3. \A k \in Calls : RunOf[k] = r /\ Waits(k) /\ dead'[r] => Woken(k)'
    BY <1>1, <2>1 DEF HubEnds, Woken, PumpAt
  <2> QED BY <1>1, <1>3, <2>1, <2>2, <2>3
<1>7. CASE Send(r)
  <2> DEFINE m == pump[r].msg
             todo == pump[r].todo
  <2>1. /\ m \in Handed /\ m # Nothing /\ todo \in Seq(Calls) /\ todo # <<>> /\ Head(todo) \in Calls
        /\ pump[r].pc = "send" /\ Len(todo) \in Nat \ {0} /\ DOMAIN todo = 1..Len(todo) /\ Head(todo) = todo[1]
    BY <1>1, <1>7, MessagesDiffer DEF Send, PumpAt, PumpShaped, Pump
  <2>2. /\ slot' = [slot EXCEPT ![Head(todo)] = m] /\ dead' = dead
        /\ slot'[Head(todo)] # Nothing /\ \A k \in Calls : slot[k] # Nothing => slot'[k] # Nothing
    BY <1>1, <1>7, <2>1 DEF Send
  <2>3. PICK p : /\ pump' = [pump EXCEPT ![r] = p]
                 /\ p.pc = "exit" => m = Closed
                 /\ p.pc = "send" => p.msg = m
                 /\ \A i \in 2..Len(todo) : p.pc = "send" /\ \E n \in DOMAIN p.todo : p.todo[n] = todo[i]
    <3>1. CASE Len(todo) = 1
      <4> DEFINE p == [pc |-> IF m = Closed THEN "exit" ELSE "read", msg |-> Nothing, todo |-> <<>>]
      <4>1. pump' = [pump EXCEPT ![r] = p]
        BY <1>7, <3>1 DEF Send, SendTo, PumpGoto
      <4>2. (p.pc = "exit" => m = Closed) /\ p.pc # "send" /\ 2..Len(todo) = {}
        BY <3>1
      <4> HIDE DEF p
      <4> QED BY <4>1, <4>2
    <3>2. CASE Len(todo) # 1
      <4> DEFINE p == [pc |-> "send", msg |-> m, todo |-> Tail(todo)]
      <4>1. pump' = [pump EXCEPT ![r] = p] /\ p.pc = "send" /\ p.msg = m /\ p.todo = Tail(todo)
        BY <1>7, <3>2 DEF Send, PumpGoto
      <4>2. \A i \in 2..Len(todo) : \E n \in DOMAIN Tail(todo) : Tail(todo)[n] = todo[i]
        BY <2>1, LaterInTail
      <4> HIDE DEF p
      <4>3. \A i \in 2..Len(todo) : p.pc = "send" /\ \E n \in DOMAIN p.todo : p.todo[n] = todo[i]
        BY <4>1, <4>2
      <4> QED BY <4>1, <4>3
    <3> QED BY <3>1, <3>2
  <2>4. pump'[r] = p /\ \A q \in RunIds \ {r} : pump'[q] = pump[q]
    BY <1>1, <2>3
  <2>5. EndKnown(r)'
    BY <2>1, <2>2, <2>3, <2>4 DEF EndKnown, PumpAt, HubEnds
  <2>6. ASSUME NEW k \in Calls, RunOf[k] = r, Waits(k), dead'[r] PROVE Woken(k)'
    <3>1. Woken(k)
      BY <2>2, <2>6 DEF HubEnds
    <3>2. CASE slot[k] # Nothing
      BY <2>2, <3>2 DEF Woken
    <3>3. CASE slot[k] = Nothing
      <4>1. PICK i \in 1..Len(todo) : todo[i] = k
        BY <2>1, <2>6, <3>1, <3>3 DEF Woken
      <4>2. CASE i = 1
        BY <2>1, <2>2, <4>1, <4>2 DEF Woken
      <4>3. CASE i # 1
        <5>1. i \in 2..Len(todo)
          BY <2>1, <4>1, <4>3
        <5> QED BY <2>3, <2>4, <2>6, <4>1, <5>1 DEF Woken, PumpAt
      <4> QED BY <4>2, <4>3
    <3> QED BY <3>2, <3>3
  <2> QED BY <1>3, <2>2, <2>4, <2>5, <2>6
<1>8. CASE BroadcastError(r)
  <2>1. /\ SendTo(r, Closed, waiters[r]) /\ Closed \in Handed /\ \A k \in Calls : Closed # AnswerTo(k)
        /\ dead' = [dead EXCEPT ![r] = TRUE] /\ slot' = slot
    BY <1>8, MessagesDiffer DEF BroadcastError, Handed
  <2>2. PICK p \in Pump :
          /\ pump' = [pump EXCEPT ![r] = p]
          /\ waiters[r] = {} \/ (p.pc = "send" /\ \A k \in waiters[r] : \E i \in DOMAIN p.todo : p.todo[i] = k)
    <3>1. Fits(Closed, waiters[r])
      BY <2>1 DEF Fits, Calls
    <3>2. PICK m \in Handed : m = Closed
      BY <2>1
    <3>3. SendTo(r, m, waiters[r]) /\ Fits(m, waiters[r]) /\ waiters[r] \in SUBSET Calls
      BY <1>1, <2>1, <3>1, <3>2
    <3>6. \A S \in SUBSET Calls : SendTo(r, m, S) /\ Fits(m, S) => SentAs(r, m, S)
      BY SentTo
    <3>4. PICK p \in Pump :
            /\ PumpShaped(p) /\ pump' = [pump EXCEPT ![r] = p]
            /\ \/ waiters[r] = {} /\ p = [pc |-> IF m = Closed THEN "exit" ELSE "read", msg |-> Nothing, todo |-> <<>>]
               \/ /\ waiters[r] # {} /\ p.pc = "send" /\ p.msg = m
                  /\ \A k \in waiters[r] : \E i \in DOMAIN p.todo : p.todo[i] = k
      BY <3>3, <3>6 DEF SentAs
    <3>5. waiters[r] = {} \/ (p.pc = "send" /\ \A k \in waiters[r] : \E i \in DOMAIN p.todo : p.todo[i] = k)
      BY <3>4
    <3> QED BY <3>4, <3>5
  <2>3. pump'[r] = p /\ (\A q \in RunIds \ {r} : pump'[q] = pump[q] /\ dead'[q] = dead[q]) /\ dead'[r]
    BY <1>1, <2>1, <2>2
  <2>4. EndKnown(r)'
    BY <2>3 DEF EndKnown
  <2>5. ASSUME NEW k \in Calls, RunOf[k] = r, Waits(k) PROVE Woken(k)'
    <3>1. k \in waiters[r]
      BY <2>5 DEF HubEnds
    <3> QED BY <2>2, <2>3, <2>5, <3>1 DEF Woken, PumpAt
  <2> QED BY <1>3, <2>1, <2>3, <2>4, <2>5
<1> QED BY <1>4, <1>5, <1>6, <1>7, <1>8 DEF PumpStep

LEMMA CallEnds == ASSUME HubShape, HubEnds, NEW k \in Calls, CallStep(k) PROVE HubEnds'
<1> DEFINE r == RunOf[k]
<1>1. /\ pump \in [RunIds -> Pump] /\ r \in RunIds /\ waiters \in [RunIds -> SUBSET Calls]
      /\ wait \in [Calls -> {"none"} \cup Open \cup Ended] /\ slot \in [Calls -> Message]
  BY DEF HubShape, ShapeOfPumps, ShapeOfHubs, ShapeOfCalls
<1>2. /\ dead' = dead /\ \A j \in Calls \ {k} : wait'[j] = wait[j] /\ slot'[j] = slot[j]
      /\ \A j \in Calls \ {k} : \A q \in RunIds : j \in waiters[q] => j \in waiters'[q]
      /\ \A q \in RunIds : pump'[q].pc \in {pump[q].pc, "read"} /\ pump'[q].msg = pump[q].msg /\ pump'[q].todo = pump[q].todo
      /\ \A q \in RunIds : pump'[q].pc # pump[q].pc => pump[q].pc = "off"
  <2>1. CASE Ask(k) \/ Expire(k) \/ RegisterDead(k) \/ Claim(k) \/ Receive(k)
    BY <1>1, <2>1 DEF Ask, Expire, RegisterDead, Claim, Receive, End
  <2>2. CASE Register(k)
    <3>1. /\ wait' = [wait EXCEPT ![k] = "blocked"] /\ waiters' = [waiters EXCEPT ![r] = @ \cup {k}]
          /\ pump' = [pump EXCEPT ![r].pc = IF @ = "off" THEN "read" ELSE @] /\ UNCHANGED <<dead, slot>>
      BY <2>2 DEF Register
    <3>2. pump[r] \in Pump
      BY <1>1
    <3> QED BY <1>1, <3>1, <3>2 DEF Pump
  <2>3. CASE Unregister(k)
    BY <1>1, <2>3 DEF Unregister
  <2> QED BY <2>1, <2>2, <2>3 DEF CallStep, WaitStep
<1>3. \A q \in RunIds : EndKnown(q)'
  BY <1>2 DEF HubEnds, EndKnown, PumpAt
<1>4. ASSUME NEW j \in Calls, Waits(j)', j # k
      PROVE  j \in waiters'[RunOf[j]] /\ (dead'[RunOf[j]] => Woken(j)')
  <2>1. Waits(j) /\ RunOf[j] \in RunIds
    BY <1>2, <1>4 DEF Waits
  <2>2. j \in waiters'[RunOf[j]]
    BY <1>2, <1>4, <2>1 DEF HubEnds
  <2>3. dead'[RunOf[j]] => Woken(j)
    BY <1>2, <2>1 DEF HubEnds
  <2> QED BY <1>2, <1>4, <2>1, <2>2, <2>3 DEF Woken, PumpAt
<1>5. ASSUME Waits(k)' PROVE k \in waiters'[r] /\ (dead'[r] => Woken(k)')
  <2>1. CASE Register(k)
    BY <1>1, <2>1 DEF Register
  <2>2. CASE Expire(k)
    <3>1. Waits(k) /\ UNCHANGED <<waiters, dead, pump, slot>>
      BY <2>2 DEF Expire, Waits
    <3> QED BY <3>1 DEF HubEnds, Woken, PumpAt
  <2>3. CASE Ask(k) \/ RegisterDead(k) \/ Claim(k) \/ Receive(k) \/ Unregister(k)
    <3>1. wait'[k] \in {"asked", "timeout"} \/ \E m : wait'[k] = Outcome(k, m)
      BY <1>1, <2>3 DEF Ask, RegisterDead, Claim, Receive, Unregister, End
    <3> QED BY <1>5, <3>1, OutcomeEnds DEF Waits, Ended
  <2> QED BY <2>1, <2>2, <2>3 DEF CallStep, WaitStep
<1> QED BY <1>3, <1>4, <1>5 DEF HubEnds

LEMMA HubInvStep == HubInv /\ [HubNext]_hubVars => HubInv'
<1> SUFFICES ASSUME HubInv, [HubNext]_hubVars PROVE HubInv'
  OBVIOUS
<1>1. HubShape' /\ NoCrossTalk'
  BY ShapeStep, CrossStep DEF HubInv
<1>2. CASE ClientStep \/ UNCHANGED hubVars
  <2>1. UNCHANGED <<waiters, dead, pump, slot, wait>>
    BY <1>2 DEF ClientStep, SendAnswer, SendCancel, Close, NextRun, clientVars, hubVars
  <2> QED BY <1>1, <2>1 DEF HubInv, HubEnds, EndKnown, Woken, Waits, PumpAt
<1> QED BY <1>1, <1>2, CallEnds, PumpEnds DEF HubInv, HubNext, CallStep, ClientStep

LEMMA HubInvInit == HubInit => HubInv
<1> SUFFICES ASSUME HubInit PROVE HubInv
  OBVIOUS
<1>1. ShapeOfPumps
  BY MessagesDiffer DEF HubInit, ShapeOfPumps, NoPump, Pump, PumpPc, PumpShaped
<1>2. ShapeOfInbox
  <2>1. <<>> \in Seq(FromClient) /\ Len(<<>>) = 0
    OBVIOUS
  <2> QED BY <2>1 DEF HubInit, ShapeOfInbox
<1>3. ShapeOfHubs
  <2>1. <<>> \in Seq(Message) /\ Len(<<>>) = 0
    OBVIOUS
  <2> QED BY <2>1 DEF HubInit, ShapeOfHubs
<1>4. ShapeOfCalls
  BY MessagesDiffer DEF HubInit, ShapeOfCalls
<1>5. ShapeOfClient
  <2>1. 1 \in RunIds /\ 0 \in 0..MaxAnswers /\ 0 \in 0..MaxCancels
    OBVIOUS
  <2> QED BY <2>1 DEF HubInit, ShapeOfClient
<1>6. NoCrossTalk
  BY MessageFields DEF HubInit, NoCrossTalk
<1>7. HubEnds
  BY DEF HubInit, HubEnds, Waits, EndKnown, PumpAt, NoPump
<1> QED BY <1>1, <1>2, <1>3, <1>4, <1>5, <1>6, <1>7 DEF HubInv, HubShape

-----------------------------------------------------------------------------
(* Copies of an answer *)

One(b) == IF b THEN 1 ELSE 0

(* Two sets that differ in one element at most. *)
LEMMA OneChanged ==
    ASSUME NEW A, IsFiniteSet(A), NEW B, NEW x, B \ {x} \subseteq A \ {x}
    PROVE  Cardinality(B) \in Nat /\ Cardinality(B) <= Cardinality(A) - One(x \in A) + One(x \in B)
<1>1. IsFiniteSet(A \ {x}) /\ Cardinality(A \ {x}) = Cardinality(A) - One(x \in A) /\ Cardinality(A) \in Nat
  BY FS_RemoveElement, FS_CardinalityType DEF One
<1>2. IsFiniteSet(B \ {x}) /\ Cardinality(B \ {x}) <= Cardinality(A \ {x})
  BY <1>1, FS_Subset
<1>3. IsFiniteSet(B)
  <2>1. IsFiniteSet((B \ {x}) \cup {x})
    BY <1>2, FS_AddElement
  <2> QED BY <2>1, FS_Subset
<1>4. Cardinality(B \ {x}) = Cardinality(B) - One(x \in B) /\ Cardinality(B) \in Nat
  BY <1>3, FS_RemoveElement, FS_CardinalityType DEF One
<1> QED BY <1>1, <1>2, <1>4 DEF One

(* The elements of one set are mapped to different ones of another, except x. *)
LEMMA OneSpared ==
    ASSUME NEW A, IsFiniteSet(A), NEW B, NEW x, NEW f \in Injection(B, A \ {x})
    PROVE  Cardinality(B) \in Nat /\ Cardinality(B) <= Cardinality(A) - One(x \in A)
<1>1. IsFiniteSet(A \ {x}) /\ Cardinality(A \ {x}) = Cardinality(A) - One(x \in A)
  BY FS_RemoveElement, FS_CardinalityType DEF One
<1>2. IsFiniteSet(B) /\ Cardinality(B) <= Cardinality(A \ {x})
  BY <1>1, FS_Injection
<1> QED BY <1>1, <1>2, FS_CardinalityType

BuffersOf(p, m) ==
    {x \in RunIds \X (1..PendingCap) : x[2] \in DOMAIN p[x[1]] /\ p[x[1]][x[2]] = m}

LEMMA CountTypes ==
    ASSUME HubShape, NEW m
    PROVE  /\ IsFiniteSet(Places(m)) /\ Cardinality(Places(m)) \in Nat
           /\ IsFiniteSet(Buffers(m)) /\ Cardinality(Buffers(m)) \in Nat
           /\ IsFiniteSet(Pumps(m)) /\ Cardinality(Pumps(m)) \in Nat
           /\ IsFiniteSet(Slots(m)) /\ Cardinality(Slots(m)) \in Nat
<1>1. IsFiniteSet(Places(m))
  <2>1. Len(inbox) \in Nat /\ DOMAIN inbox = 1..Len(inbox)
    BY DEF HubShape, ShapeOfInbox
  <2>2. IsFiniteSet(1..Len(inbox)) /\ Places(m) \subseteq 1..Len(inbox)
    BY <2>1, FS_Interval DEF Places
  <2> QED BY <2>2, FS_Subset
<1>2. IsFiniteSet(RunIds) /\ IsFiniteSet(1..PendingCap)
  BY FS_Interval
<1>3. IsFiniteSet(Buffers(m))
  <2>1. IsFiniteSet(RunIds \X (1..PendingCap))
    BY <1>2, FS_Product
  <2>2. Buffers(m) \subseteq RunIds \X (1..PendingCap)
    BY DEF Buffers
  <2> QED BY <2>1, <2>2, FS_Subset
<1>4. IsFiniteSet(Pumps(m)) /\ IsFiniteSet(Slots(m))
  <2>1. Pumps(m) \subseteq RunIds /\ Slots(m) \subseteq Calls
    BY DEF Pumps, Slots
  <2> QED BY <1>2, <2>1, FS_Subset
<1> QED BY <1>1, <1>3, <1>4, FS_CardinalityType

(* The next message is taken, and a message is put in. *)
LEMMA PlacesTaken ==
    ASSUME HubShape, inbox # <<>>, inbox' = Tail(inbox), NEW m
    PROVE  Cardinality(Places(m)') \in Nat /\ Cardinality(Places(m)') <= Cardinality(Places(m)) - One(Head(inbox) = m)
<1>1. /\ inbox \in Seq(FromClient) /\ Len(inbox) \in Nat /\ DOMAIN inbox = 1..Len(inbox) /\ Head(inbox) = inbox[1]
      /\ Len(inbox) # 0
  BY EmptySeq DEF HubShape, ShapeOfInbox
<1>2. /\ Len(inbox') = Len(inbox) - 1 /\ DOMAIN inbox' = 1..(Len(inbox) - 1)
      /\ \A i \in 1..(Len(inbox) - 1) : inbox'[i] = inbox[i + 1]
  BY <1>1
<1> DEFINE f == [i \in Places(m)' |-> i + 1]
<1>3. f \in Injection(Places(m)', Places(m) \ {1})
  <2>1. \A i \in Places(m)' : i \in Nat /\ i + 1 \in Places(m) \ {1}
    BY <1>1, <1>2 DEF Places
  <2>2. \A i, j \in Places(m)' : i + 1 = j + 1 => i = j
    BY <2>1
  <2>3. f \in [Places(m)' -> Places(m) \ {1}]
    BY <2>1
  <2> QED BY <2>2, <2>3 DEF Injection, IsInjective
<1>4. One(1 \in Places(m)) = One(Head(inbox) = m)
  BY <1>1 DEF Places, One
<1> QED BY <1>3, <1>4, OneSpared, CountTypes

LEMMA PlacesForwarded ==
    ASSUME HubShape, NEW e \in FromClient, Forward(e), NEW m
    PROVE  Cardinality(Places(m)') \in Nat /\ Cardinality(Places(m)') <= Cardinality(Places(m)) + One(e = m)
<1>1. inbox \in Seq(FromClient) /\ Len(inbox) \in Nat /\ DOMAIN inbox = 1..Len(inbox)
  BY DEF HubShape, ShapeOfInbox
<1>2. CASE inbox' = inbox
  <2>1. Places(m)' = Places(m)
    BY <1>2 DEF Places
  <2> QED BY <2>1, CountTypes DEF One
<1>3. CASE inbox' = Append(inbox, e)
  <2> DEFINE x == Len(inbox) + 1
  <2>1. /\ DOMAIN inbox' = 1..x /\ inbox'[x] = e /\ \A i \in 1..Len(inbox) : inbox'[i] = inbox[i]
    BY <1>1, <1>3
  <2>2. Places(m)' \ {x} \subseteq Places(m) \ {x} /\ x \notin Places(m) /\ (x \in Places(m)' => e = m)
    BY <1>1, <2>1 DEF Places
  <2>3. One(x \in Places(m)) = 0 /\ One(x \in Places(m)') <= One(e = m) /\ One(x \in Places(m)') \in Nat /\ One(e = m) \in Nat
    BY <2>2 DEF One
  <2> HIDE DEF x
  <2>4. /\ Cardinality(Places(m)') \in Nat
        /\ Cardinality(Places(m)') <= Cardinality(Places(m)) - One(x \in Places(m)) + One(x \in Places(m)')
    BY <2>2, OneChanged, CountTypes
  <2> QED BY <2>3, <2>4, CountTypes
<1> QED BY <1>2, <1>3 DEF Forward

(* One pump, or one slot, gets another message. *)
LEMMA PumpsChanged ==
    ASSUME HubShape, NEW r \in RunIds, \A q \in RunIds \ {r} : pump'[q].msg = pump[q].msg, NEW m
    PROVE  /\ Cardinality(Pumps(m)') \in Nat
           /\ Cardinality(Pumps(m)') <= Cardinality(Pumps(m)) - One(pump[r].msg = m) + One(pump'[r].msg = m)
<1>1. Pumps(m)' \ {r} \subseteq Pumps(m) \ {r}
  BY DEF Pumps
<1>2. One(r \in Pumps(m)) = One(pump[r].msg = m) /\ One(r \in Pumps(m)') = One(pump'[r].msg = m)
  BY DEF Pumps, One
<1> QED BY <1>1, <1>2, OneChanged, CountTypes

LEMMA SlotsChanged ==
    ASSUME HubShape, NEW j \in Calls, \A i \in Calls \ {j} : slot'[i] = slot[i], NEW m
    PROVE  /\ Cardinality(Slots(m)') \in Nat
           /\ Cardinality(Slots(m)') <= Cardinality(Slots(m)) - One(slot[j] = m) + One(slot'[j] = m)
<1>1. Slots(m)' \ {j} \subseteq Slots(m) \ {j}
  BY DEF Slots
<1>2. One(j \in Slots(m)) = One(slot[j] = m) /\ One(j \in Slots(m)') = One(slot'[j] = m)
  BY DEF Slots, One
<1> QED BY <1>1, <1>2, OneChanged, CountTypes

LEMMA InBuffers ==
    ASSUME NEW p, NEW m, NEW q \in RunIds, NEW i \in 1..PendingCap, i \in DOMAIN p[q], p[q][i] = m
    PROVE  <<q, i>> \in BuffersOf(p, m)
BY DEF BuffersOf

LEMMA OfBuffers ==
    ASSUME NEW p, NEW m, NEW b \in BuffersOf(p, m)
    PROVE  /\ b[1] \in RunIds /\ b[2] \in 1..PendingCap /\ b[2] \in DOMAIN p[b[1]] /\ p[b[1]][b[2]] = m
           /\ b = <<b[1], b[2]>>
BY DEF BuffersOf

LEMMA BufferOfPair ==
    ASSUME NEW p, NEW m, NEW q, NEW i, <<q, i>> \in BuffersOf(p, m)
    PROVE  q \in RunIds /\ i \in 1..PendingCap /\ i \in DOMAIN p[q] /\ p[q][i] = m
BY DEF BuffersOf

LEMMA BuffersPending ==
    ASSUME NEW m
    PROVE  Buffers(m) = BuffersOf(pending, m) /\ Buffers(m)' = BuffersOf(pending', m)
BY DEF Buffers, BuffersOf

LEMMA BufferAt ==
    ASSUME HubShape, NEW m, NEW r \in RunIds, NEW i \in DOMAIN pending[r]
    PROVE  i \in 1..PendingCap /\ (<<r, i>> \in Buffers(m) <=> pending[r][i] = m)
<1>1. i \in 1..PendingCap
  <2>1. PendingCap \in Nat /\ pending[r] \in Seq(Message) /\ Len(pending[r]) <= PendingCap
    BY DEF HubShape, ShapeOfHubs
  <2>2. PICK n : n = Len(pending[r])
    OBVIOUS
  <2>3. DOMAIN pending[r] = 1..n /\ n \in Nat /\ n <= PendingCap
    BY <2>1, <2>2, LenProperties
  <2>4. i \in 1..n
    BY ONLY <2>3, i \in DOMAIN pending[r]
  <2> QED BY ONLY <2>1, <2>3, <2>4
<1>2. pending[r][i] = m => <<r, i>> \in BuffersOf(pending, m)
  BY ONLY <1>1, r \in RunIds, i \in DOMAIN pending[r], InBuffers, Zenon
<1>3. <<r, i>> \in BuffersOf(pending, m) => pending[r][i] = m
  BY BufferOfPair
<1>4. Buffers(m) = BuffersOf(pending, m)
  BY BuffersPending
<1> QED BY ONLY <1>1, <1>2, <1>3, <1>4

(* The messages of t are messages of s, each at a place of its own, and     *)
(* none of them at the place x.                                            *)
Moved(t, s, x) ==
    \E from \in [DOMAIN t -> DOMAIN s] :
        /\ \A i, j \in DOMAIN t : from[i] = from[j] => i = j
        /\ \A i \in DOMAIN t : from[i] # x /\ t[i] = s[from[i]]

LEMMA MovedShift ==
    ASSUME NEW s, NEW t, NEW n \in Nat, NEW l \in Nat, DOMAIN s = 1..n, DOMAIN t = 1..l,
           NEW d \in {0, 1}, l + d <= n, \A i \in 1..l : t[i] = s[i + d]
    PROVE  Moved(t, s, 0)
<1> DEFINE from == [i \in 1..l |-> i + d]
<1>1. ASSUME NEW i \in 1..l PROVE i + d \in 1..n /\ i + d # 0 /\ i \in Nat
  OBVIOUS
<1>2. from \in [1..l -> 1..n] /\ \A i \in 1..l : from[i] = i + d
  BY <1>1
<1> HIDE DEF from
<1>3. \A i, j \in 1..l : from[i] = from[j] => i = j
  BY <1>1, <1>2
<1>4. \A i \in 1..l : from[i] # 0 /\ t[i] = s[from[i]]
  BY <1>1, <1>2
<1>5. from \in [DOMAIN t -> DOMAIN s]
  BY ONLY <1>2, DOMAIN s = 1..n, DOMAIN t = 1..l
<1>6. /\ \A i, j \in DOMAIN t : from[i] = from[j] => i = j
      /\ \A i \in DOMAIN t : from[i] # 0 /\ t[i] = s[from[i]]
  BY ONLY <1>3, <1>4, DOMAIN t = 1..l, Zenon
<1> QED BY ONLY <1>5, <1>6, Zenon DEF Moved

LEMMA MovedRest ==
    ASSUME NEW s, NEW t, NEW n \in Nat, DOMAIN s = 1..n, NEW x \in 1..n, DOMAIN t = 1..(n - 1),
           \A i \in 1..(n - 1) : t[i] = IF i < x THEN s[i] ELSE s[i + 1]
    PROVE  Moved(t, s, x)
<1> DEFINE from == [i \in 1..(n - 1) |-> IF i < x THEN i ELSE i + 1]
<1>1. ASSUME NEW i \in 1..(n - 1) PROVE (IF i < x THEN i ELSE i + 1) \in 1..n /\ (IF i < x THEN i ELSE i + 1) # x
  OBVIOUS
<1>2. from \in [1..(n - 1) -> 1..n] /\ \A i \in 1..(n - 1) : from[i] = IF i < x THEN i ELSE i + 1
  BY <1>1
<1> HIDE DEF from
<1>3. ASSUME NEW i \in 1..(n - 1), NEW j \in 1..(n - 1), from[i] = from[j] PROVE i = j
  <2>1. from[i] = (IF i < x THEN i ELSE i + 1) /\ from[j] = (IF j < x THEN j ELSE j + 1)
    BY <1>2
  <2>2. i \in Nat /\ j \in Nat /\ x \in Nat
    OBVIOUS
  <2>3. (IF i < x THEN i ELSE i + 1) = (IF j < x THEN j ELSE j + 1)
    BY ONLY <1>3, <2>1
  <2> QED BY ONLY <2>2, <2>3
<1>4. \A i \in 1..(n - 1) : from[i] # x /\ t[i] = s[from[i]]
  BY <1>1, <1>2
<1>5. from \in [DOMAIN t -> DOMAIN s]
  BY ONLY <1>2, DOMAIN s = 1..n, DOMAIN t = 1..(n - 1)
<1>6. /\ \A i, j \in DOMAIN t : from[i] = from[j] => i = j
      /\ \A i \in DOMAIN t : from[i] # x /\ t[i] = s[from[i]]
  BY ONLY <1>3, <1>4, DOMAIN t = 1..(n - 1), Zenon
<1> QED BY ONLY <1>5, <1>6, Zenon DEF Moved

LEMMA PairFields == \A a, b : <<a, b>>[1] = a /\ <<a, b>>[2] = b
OBVIOUS

LEMMA BuffersMoved ==
    ASSUME HubShape, NEW r \in RunIds, NEW m, NEW x, NEW new,
           \A q \in RunIds \ {r} : new[q] = pending[q], Moved(new[r], pending[r], x)
    PROVE  /\ IsFiniteSet(BuffersOf(new, m)) /\ Cardinality(BuffersOf(new, m)) \in Nat
           /\ Cardinality(BuffersOf(new, m)) <= Cardinality(Buffers(m)) - One(<<r, x>> \in Buffers(m))
<1>0. PICK from \in [DOMAIN new[r] -> DOMAIN pending[r]] :
        /\ \A i, j \in DOMAIN new[r] : from[i] = from[j] => i = j
        /\ \A i \in DOMAIN new[r] : from[i] # x /\ new[r][i] = pending[r][from[i]]
  BY DEF Moved
<1> DEFINE B == BuffersOf(new, m)
           A == Buffers(m)
           At(b) == IF b[1] = r THEN <<r, from[b[2]]>> ELSE b
           f == [b \in B |-> At(b)]
<1>2. ASSUME NEW b \in B
      PROVE  b[1] \in RunIds /\ b[2] \in DOMAIN new[b[1]] /\ b = <<b[1], b[2]>> /\ new[b[1]][b[2]] = m
  BY ONLY <1>2, OfBuffers, Zenon DEF B
<1>e. ASSUME NEW q \in RunIds, NEW i \in DOMAIN pending[q], pending[q][i] = m PROVE <<q, i>> \in A
  BY <1>e, BufferAt DEF A
<1> HIDE DEF A, B
<1>3. ASSUME NEW b \in B PROVE At(b) \in A \ {<<r, x>>}
  <2>1. CASE b[1] = r
    <3>1. /\ At(b) = <<r, from[b[2]]>> /\ from[b[2]] \in DOMAIN pending[r] /\ from[b[2]] # x
          /\ pending[r][from[b[2]]] = m
      BY <1>0, <1>2, <2>1
    <3>2. <<r, from[b[2]]>> \in A
      BY <3>1, <1>e
    <3> QED BY ONLY <3>1, <3>2
  <2>2. CASE b[1] # r
    <3>1. b = <<b[1], b[2]>> /\ b[1] \in RunIds /\ b[2] \in DOMAIN pending[b[1]] /\ pending[b[1]][b[2]] = m
      BY <1>2, <2>2
    <3>2. <<b[1], b[2]>> \in A
      BY <3>1, <1>e
    <3>3. At(b) = b /\ b # <<r, x>>
      BY ONLY <2>2, PairFields
    <3> QED BY ONLY <3>1, <3>2, <3>3, Zenon
  <2> QED BY <2>1, <2>2
<1>4. ASSUME NEW b \in B, NEW c \in B, At(b) = At(c) PROVE b = c
  <2>0. b = <<b[1], b[2]>> /\ c = <<c[1], c[2]>>
    BY <1>2
  <2>1. CASE b[1] = r /\ c[1] = r
    <3>1. <<r, from[b[2]]>> = <<r, from[c[2]]>>
      BY ONLY <1>4, <2>1
    <3>2. from[b[2]] = from[c[2]] /\ b[2] \in DOMAIN new[r] /\ c[2] \in DOMAIN new[r]
      BY ONLY <1>2, <2>1, <3>1, PairFields
    <3>3. b[2] = c[2]
      BY ONLY <1>0, <3>2
    <3> QED BY ONLY <2>0, <2>1, <3>3, Zenon
  <2>2. CASE b[1] # r /\ c[1] # r
    BY ONLY <1>4, <2>2
  <2>3. CASE b[1] = r /\ c[1] # r
    <3>1. c = <<r, from[b[2]]>>
      BY ONLY <1>4, <2>3
    <3> QED BY ONLY <2>3, <3>1, PairFields
  <2>4. CASE b[1] # r /\ c[1] = r
    <3>1. b = <<r, from[c[2]]>>
      BY ONLY <1>4, <2>4
    <3> QED BY ONLY <2>4, <3>1, PairFields
  <2> QED BY ONLY <2>1, <2>2, <2>3, <2>4
<1>5. f \in Injection(B, A \ {<<r, x>>})
  <2> HIDE DEF At
  <2>1. f \in [B -> A \ {<<r, x>>}] /\ \A b \in B : f[b] = At(b)
    BY ONLY <1>3
  <2> HIDE DEF f
  <2>2. \A b, c \in B : f[b] = f[c] => b = c
    BY ONLY <1>4, <2>1
  <2> QED BY ONLY <2>1, <2>2 DEF Injection, IsInjective
<1> HIDE DEF f
<1>6. IsFiniteSet(A)
  BY CountTypes DEF A
<1>7. IsFiniteSet(B)
  <2>1. IsFiniteSet(A \ {<<r, x>>})
    BY <1>6, FS_RemoveElement
  <2> QED BY <1>5, <2>1, FS_Injection
<1>8. Cardinality(B) \in Nat /\ Cardinality(B) <= Cardinality(A) - One(<<r, x>> \in A)
  BY <1>5, <1>6, OneSpared
<1> QED BY <1>7, <1>8 DEF A, B

LEMMA BuffersClaimed ==
    ASSUME HubShape, NEW r \in RunIds, NEW i \in DOMAIN pending[r],
           pending' = [pending EXCEPT ![r] = Unclaimed(pending[r], i)], NEW m
    PROVE  /\ Cardinality(Buffers(m)') \in Nat
           /\ Cardinality(Buffers(m)') <= Cardinality(Buffers(m)) - One(pending[r][i] = m)
<1>1. pending \in [RunIds -> Seq(Message)] /\ pending[r] \in Seq(Message)
  BY DEF HubShape, ShapeOfHubs
<1>2. PICK s : s = pending[r]
  OBVIOUS
<1>3. PICK n : n = Len(s)
  OBVIOUS
<1>4. s \in Seq(Message) /\ n \in Nat /\ DOMAIN s = 1..n /\ i \in 1..n
  BY <1>1, <1>2, <1>3
<1>5. PICK p : p = Unclaimed(s, i)
  OBVIOUS
<1>6. /\ p \in Seq(Message) /\ Len(p) = n - 1
      /\ \A j \in 1..Len(p) : p[j] = IF j < i THEN s[j] ELSE s[j + 1]
  BY <1>3, <1>4, <1>5, UnclaimedRest
<1>7. DOMAIN p = 1..(n - 1)
  BY <1>6
<1>8. Moved(p, s, i)
  BY ONLY <1>4, <1>6, <1>7, MovedRest
<1>9. pending'[r] = p /\ \A q \in RunIds \ {r} : pending'[q] = pending[q]
  BY <1>1, <1>2, <1>5
<1>10. /\ Cardinality(BuffersOf(pending', m)) \in Nat
       /\ Cardinality(BuffersOf(pending', m)) <= Cardinality(Buffers(m)) - One(<<r, i>> \in Buffers(m))
  <2>1. Moved(pending'[r], pending[r], i)
    BY ONLY <1>2, <1>8, <1>9
  <2> QED BY <1>9, <2>1, BuffersMoved
<1>11. <<r, i>> \in Buffers(m) <=> pending[r][i] = m
  BY BufferAt
<1> QED BY ONLY <1>10, <1>11, BuffersPending DEF One

LEMMA BuffersGrown ==
    ASSUME HubShape, NEW r \in RunIds, NEW e \in Message,
           pending' = [pending EXCEPT ![r] = Buffered(pending[r], e)], NEW m
    PROVE  /\ Cardinality(Buffers(m)') \in Nat
           /\ Cardinality(Buffers(m)') <= Cardinality(Buffers(m)) + One(e = m)
<1>1. pending \in [RunIds -> Seq(Message)] /\ pending[r] \in Seq(Message) /\ PendingCap \in Nat \ {0}
  BY DEF HubShape, ShapeOfHubs
<1>2. PICK s : s = pending[r]
  OBVIOUS
<1>3. PICK n : n = Len(s)
  OBVIOUS
<1>4. s \in Seq(Message) /\ n \in Nat /\ DOMAIN s = 1..n
  BY <1>1, <1>2, <1>3
<1>5. PICK p : p = IF n >= PendingCap THEN Tail(s) ELSE s
  OBVIOUS
<1>6. PICK l : l = Len(p)
  OBVIOUS
<1>7. p \in Seq(Message) /\ l \in Nat /\ DOMAIN p = 1..l /\ Moved(p, s, 0)
  <2>1. CASE n >= PendingCap
    <3>1. s # <<>> /\ n # 0
      BY <1>1, <1>3, <1>4, <2>1
    <3>2. p = Tail(s)
      BY <1>5, <2>1
    <3>3. p \in Seq(Message) /\ l = n - 1 /\ \A j \in 1..(n - 1) : p[j] = s[j + 1]
      BY <1>3, <1>4, <1>6, <3>1, <3>2
    <3>a. l \in Nat /\ l + 1 <= n
      BY ONLY <1>4, <3>1, <3>3
    <3>b. DOMAIN p = 1..l
      BY ONLY <1>6, <3>3, LenProperties
    <3>0. l \in Nat /\ l + 1 <= n /\ DOMAIN p = 1..l
      BY ONLY <3>a, <3>b
    <3>4. l \in Nat /\ DOMAIN p = 1..l /\ l + 1 <= n /\ \A j \in 1..l : p[j] = s[j + 1]
      BY ONLY <3>0, <3>3
    <3>5. 1 \in {0, 1}
      OBVIOUS
    <3>6. Moved(p, s, 0)
      BY ONLY <1>4, <3>4, <3>5, MovedShift
    <3> QED BY <3>3, <3>4, <3>6
  <2>2. CASE ~(n >= PendingCap)
    <3>1. p = s
      BY <1>5, <2>2
    <3>2. l = n
      BY <1>3, <1>6, <3>1
    <3>3. 0 \in {0, 1} /\ n + 0 <= n /\ \A j \in 1..n : s[j] = s[j + 0]
      BY <1>4
    <3>4. Moved(s, s, 0)
      BY ONLY <1>4, <3>3, MovedShift
    <3> QED BY ONLY <1>4, <3>1, <3>2, <3>4
  <2> QED BY <2>1, <2>2
<1>8. Buffered(pending[r], e) = Append(p, e)
  BY <1>2, <1>3, <1>5 DEF Buffered
<1>9. PICK mid : mid = [pending EXCEPT ![r] = p]
  OBVIOUS
<1>10. mid[r] = p /\ \A q \in RunIds \ {r} : mid[q] = pending[q]
  BY <1>1, <1>9
<1>11. IsFiniteSet(BuffersOf(mid, m)) /\ Cardinality(BuffersOf(mid, m)) \in Nat
       /\ Cardinality(BuffersOf(mid, m)) <= Cardinality(Buffers(m))
  <2>1. Moved(mid[r], pending[r], 0)
    BY ONLY <1>2, <1>7, <1>10
  <2>2. /\ IsFiniteSet(BuffersOf(mid, m)) /\ Cardinality(BuffersOf(mid, m)) \in Nat
        /\ Cardinality(BuffersOf(mid, m)) <= Cardinality(Buffers(m)) - One(<<r, 0>> \in Buffers(m))
    BY <1>10, <2>1, BuffersMoved
  <2> QED BY ONLY <2>2, HubShape, CountTypes DEF One
<1>12. PICK x : x = l + 1
  OBVIOUS
<1>13. pending'[r] = Append(p, e) /\ \A q \in RunIds \ {r} : pending'[q] = mid[q]
  BY <1>1, <1>8, <1>10
<1>14. PICK g : g = pending'[r]
  OBVIOUS
<1>15. DOMAIN g = 1..x /\ g[x] = e /\ (\A j \in 1..l : g[j] = p[j]) /\ x \notin DOMAIN p
  BY <1>6, <1>7, <1>12, <1>13, <1>14
<1>16. ASSUME NEW b \in BuffersOf(pending', m), b # <<r, x>> PROVE b \in BuffersOf(mid, m)
  <2>1. /\ b[1] \in RunIds /\ b[2] \in 1..PendingCap /\ b[2] \in DOMAIN pending'[b[1]] /\ pending'[b[1]][b[2]] = m
        /\ b = <<b[1], b[2]>>
    BY ONLY <1>16, OfBuffers, Zenon
  <2>2. b[2] \in DOMAIN mid[b[1]] /\ mid[b[1]][b[2]] = m
    <3>1. CASE b[1] = r
      <4>1. b[2] # x /\ b[2] \in 1..x /\ g[b[2]] = m
        BY ONLY <1>14, <1>15, <1>16, <2>1, <3>1
      <4>2. b[2] \in 1..l
        BY ONLY <1>7, <1>12, <4>1
      <4> QED BY ONLY <1>7, <1>10, <1>15, <3>1, <4>1, <4>2
    <3>2. CASE b[1] # r
      BY ONLY <1>13, <2>1, <3>2
    <3> QED BY <3>1, <3>2
  <2>3. <<b[1], b[2]>> \in BuffersOf(mid, m)
    BY ONLY <2>1, <2>2, InBuffers, Zenon
  <2> QED BY ONLY <2>1, <2>3, Zenon
<1>17. <<r, x>> \notin BuffersOf(mid, m) /\ (<<r, x>> \in BuffersOf(pending', m) => e = m)
  <2>1. <<r, x>> \in BuffersOf(mid, m) => x \in DOMAIN mid[r]
    BY BufferOfPair
  <2>2. ASSUME <<r, x>> \in BuffersOf(pending', m) PROVE pending'[r][x] = m
    BY ONLY <2>2, BufferOfPair
  <2> QED BY ONLY <1>10, <1>14, <1>15, <2>1, <2>2
<1>18. BuffersOf(pending', m) \ {<<r, x>>} \subseteq BuffersOf(mid, m) \ {<<r, x>>}
  BY ONLY <1>16
<1>19. /\ Cardinality(BuffersOf(pending', m)) \in Nat
       /\ Cardinality(BuffersOf(pending', m))
            <= Cardinality(BuffersOf(mid, m)) - One(<<r, x>> \in BuffersOf(mid, m)) + One(<<r, x>> \in BuffersOf(pending', m))
  BY ONLY <1>11, <1>18, OneChanged
<1>20. One(<<r, x>> \in BuffersOf(mid, m)) = 0 /\ One(<<r, x>> \in BuffersOf(pending', m)) \in 0..One(e = m)
  BY ONLY <1>17 DEF One
<1>21. Buffers(m)' = BuffersOf(pending', m) /\ One(e = m) \in Nat /\ Cardinality(Buffers(m)) \in Nat
  BY BuffersPending, CountTypes DEF One
<1> QED BY ONLY <1>11, <1>19, <1>20, <1>21

(* A copy of an answer is somewhere, or was used. *)
LEMMA InFlightTypes ==
    ASSUME HubShape, NEW k \in Calls
    PROVE  InFlight(k) \in Nat /\ Used(k) \in Nat
BY CountTypes DEF InFlight, Used

(* What a step leaves alone is counted as before. *)
LEMMA CountsKept ==
    ASSUME NEW m
    PROVE  /\ inbox' = inbox => Places(m)' = Places(m)
           /\ pending' = pending => Buffers(m)' = Buffers(m)
           /\ pump' = pump => Pumps(m)' = Pumps(m)
           /\ slot' = slot => Slots(m)' = Slots(m)
BY DEF Places, Buffers, Pumps, Slots

LEMMA OnePump ==
    ASSUME HubShape, NEW r \in RunIds, PumpStep(r)
    PROVE  \A q \in RunIds \ {r} : pump'[q].msg = pump[q].msg
<1>1. pump \in [RunIds -> Pump]
  BY DEF HubShape, ShapeOfPumps
<1>2. \E p : pump' = [pump EXCEPT ![r] = p]
  BY DEF PumpStep, Read, Route, Buffer, Send, BroadcastError, SendTo, PumpGoto
<1> QED BY <1>1, <1>2

LEMMA PumpAnswers ==
    ASSUME HubShape, NEW r \in RunIds, PumpStep(r), NEW k \in Calls
    PROVE  InFlight(k)' \in Nat /\ InFlight(k)' <= InFlight(k)
<1> DEFINE m == AnswerTo(k)
<1>1. /\ pump \in [RunIds -> Pump] /\ pump[r] \in Pump /\ PumpShaped(pump[r]) /\ slot \in [Calls -> Message]
      /\ waiters \in [RunIds -> SUBSET Calls]
  BY DEF HubShape, ShapeOfPumps, ShapeOfHubs, ShapeOfCalls
<1>2. m # Nothing /\ m # Closed
  BY MessagesDiffer
<1>3. PICK e : e = pump[r].msg
  OBVIOUS
<1>4. PICK g : g = pump'[r].msg
  OBVIOUS
<1>5. /\ Cardinality(Places(m)) \in Nat /\ Cardinality(Buffers(m)) \in Nat
      /\ Cardinality(Pumps(m)) \in Nat /\ Cardinality(Slots(m)) \in Nat /\ Used(k) \in Nat
  BY CountTypes, InFlightTypes
<1>6. Cardinality(Pumps(m)') \in Nat /\ Cardinality(Pumps(m)') <= Cardinality(Pumps(m)) - One(e = m) + One(g = m)
  BY <1>3, <1>4, OnePump, PumpsChanged
<1>7. Used(k)' = Used(k)
  BY DEF PumpStep, Read, Route, Buffer, Send, BroadcastError, Used
<1> HIDE DEF m
<1>8. CASE Read(r)
  <2>1. e # m
    BY <1>1, <1>2, <1>3, <1>8 DEF Read, PumpAt, PumpShaped
  <2>2. g = Head(inbox)
    BY <1>1, <1>4, <1>8 DEF Read, PumpGoto
  <2>3. Cardinality(Places(m)') \in Nat /\ Cardinality(Places(m)') <= Cardinality(Places(m)) - One(g = m)
    BY <1>8, <2>2, PlacesTaken DEF Read
  <2>4. Buffers(m)' = Buffers(m) /\ Slots(m)' = Slots(m)
    BY <1>8, CountsKept DEF Read
  <2> QED BY <1>5, <1>6, <1>7, <2>1, <2>3, <2>4 DEF InFlight, One, m
<1>9. CASE Route(r)
  <2>1. g \in {e, Nothing}
    <3>1. CASE Receivers(e, waiters[r]) = {} /\ Addressable(e)
      BY <1>1, <1>3, <1>4, <1>9, <3>1 DEF Route, PumpGoto
    <3>2. CASE ~(Receivers(e, waiters[r]) = {} /\ Addressable(e))
      <4>1. SendTo(r, e, Receivers(e, waiters[r]))
        BY <1>3, <1>9, <3>2 DEF Route
      <4> QED BY <1>1, <1>4, <4>1 DEF SendTo, PumpGoto
    <3> QED BY <3>1, <3>2
  <2>2. Places(m)' = Places(m) /\ Buffers(m)' = Buffers(m) /\ Slots(m)' = Slots(m)
    BY <1>9, CountsKept DEF Route
  <2>3. One(g = m) <= One(e = m) /\ One(g = m) \in Nat /\ One(e = m) \in Nat
    BY <1>2, <2>1 DEF One
  <2> QED BY <1>5, <1>6, <1>7, <2>2, <2>3 DEF InFlight, m
<1>10. CASE Buffer(r)
  <2>1. g # m
    BY <1>1, <1>2, <1>4, <1>10 DEF Buffer, PumpGoto
  <2>2. e \in Message /\ pending' = [pending EXCEPT ![r] = Buffered(pending[r], e)]
    BY <1>1, <1>3, <1>10 DEF Buffer, Pump
  <2>3. Cardinality(Buffers(m)') \in Nat /\ Cardinality(Buffers(m)') <= Cardinality(Buffers(m)) + One(e = m)
    BY <2>2, BuffersGrown
  <2>4. Places(m)' = Places(m) /\ Slots(m)' = Slots(m)
    BY <1>10, CountsKept DEF Buffer
  <2> QED BY <1>5, <1>6, <1>7, <2>1, <2>3, <2>4 DEF InFlight, One, m
<1>11. CASE Send(r)
  <2>1. PICK j : j = Head(pump[r].todo)
    OBVIOUS
  <2>2. j \in Calls
    BY <1>1, <1>11, <2>1 DEF Send, PumpAt, PumpShaped, Pump
  <2>3. slot[j] # m /\ slot'[j] = e /\ \A i \in Calls \ {j} : slot'[i] = slot[i]
    BY <1>1, <1>2, <1>3, <1>11, <2>1, <2>2 DEF Send
  <2>4. Cardinality(Slots(m)') \in Nat /\ Cardinality(Slots(m)') <= Cardinality(Slots(m)) + One(e = m)
    <3>1. /\ Cardinality(Slots(m)') \in Nat
          /\ Cardinality(Slots(m)') <= Cardinality(Slots(m)) - One(slot[j] = m) + One(slot'[j] = m)
      BY <2>2, <2>3, SlotsChanged
    <3> QED BY <1>5, <2>3, <3>1 DEF One
  <2>5. g # m
    <3>1. CASE Len(pump[r].todo) = 1
      BY <1>1, <1>2, <1>4, <1>11, <3>1 DEF Send, SendTo, PumpGoto
    <3>2. CASE Len(pump[r].todo) # 1
      <4>1. g = e
        BY <1>1, <1>3, <1>4, <1>11, <3>2 DEF Send, PumpGoto
      <4>2. e # m
        BY <1>1, <1>3, <1>11, <3>2 DEF Send, PumpAt, PumpShaped, m
      <4> QED BY <4>1, <4>2
    <3> QED BY <3>1, <3>2
  <2>6. Places(m)' = Places(m) /\ Buffers(m)' = Buffers(m)
    BY <1>11, CountsKept DEF Send
  <2> QED BY <1>5, <1>6, <1>7, <2>4, <2>5, <2>6 DEF InFlight, One, m
<1>12. CASE BroadcastError(r)
  <2>1. g # m
    BY <1>1, <1>2, <1>4, <1>12 DEF BroadcastError, SendTo, PumpGoto
  <2>2. Buffers(m)' \subseteq Buffers(m)
    <3>1. pending \in [RunIds -> Seq(Message)]
      BY DEF HubShape, ShapeOfHubs
    <3>2. pending'[r] = <<>> /\ \A q \in RunIds \ {r} : pending'[q] = pending[q]
      BY <1>12, <3>1 DEF BroadcastError
    <3>3. DOMAIN pending'[r] = {}
      BY <3>2
    <3> QED BY <3>2, <3>3 DEF Buffers
  <2>3. Cardinality(Buffers(m)') \in Nat /\ Cardinality(Buffers(m)') <= Cardinality(Buffers(m))
    <3>1. IsFiniteSet(Buffers(m))
      BY CountTypes
    <3> QED BY <2>2, <3>1, FS_Subset, FS_CardinalityType
  <2>4. Places(m)' = Places(m) /\ Slots(m)' = Slots(m)
    BY <1>12, CountsKept DEF BroadcastError
  <2> QED BY <1>5, <1>6, <1>7, <2>1, <2>3, <2>4 DEF InFlight, One, m
<1> QED BY <1>8, <1>9, <1>10, <1>11, <1>12 DEF PumpStep

LEMMA CallAnswers ==
    ASSUME HubShape, NEW j \in Calls, CallStep(j), NEW k \in Calls
    PROVE  InFlight(k)' \in Nat /\ InFlight(k)' <= InFlight(k)
<1> DEFINE m == AnswerTo(k)
           r == RunOf[j]
<1>1. /\ pump \in [RunIds -> Pump] /\ slot \in [Calls -> Message] /\ r \in RunIds
      /\ wait \in [Calls -> {"none"} \cup Open \cup Ended]
  BY DEF HubShape, ShapeOfPumps, ShapeOfHubs, ShapeOfCalls
<1>2. m # Nothing /\ m # Closed /\ AnswerTo(j) # Closed /\ (j = k <=> AnswerTo(j) = m)
  BY MessagesDiffer
<1>3. /\ Cardinality(Places(m)) \in Nat /\ Cardinality(Buffers(m)) \in Nat
      /\ Cardinality(Pumps(m)) \in Nat /\ Cardinality(Slots(m)) \in Nat /\ Used(k) \in Nat
  BY CountTypes, InFlightTypes
<1>4. ASSUME NEW e, End(j, e)
      PROVE  Used(k)' \in Nat /\ Used(k)' <= Used(k) + One(e = m)
  <2>1. wait'[j] = Outcome(j, e) /\ \A i \in Calls \ {j} : wait'[i] = wait[i]
    BY <1>1, <1>4 DEF End
  <2>2. Outcome(j, e) = "answered" <=> e = AnswerTo(j)
    BY OutcomeEnds DEF Match
  <2> QED BY <1>2, <2>1, <2>2 DEF Used, One
<1>5. CASE Ask(j) \/ RegisterDead(j) \/ Register(j) \/ Expire(j) \/ Unregister(j)
  <2>1. inbox' = inbox /\ pending' = pending /\ slot' = slot
    BY <1>5 DEF Ask, RegisterDead, Register, Expire, Unregister
  <2>2. Pumps(m)' = Pumps(m)
    <3>1. \A q \in RunIds : pump'[q].msg = pump[q].msg
      <4>1. CASE Register(j)
        BY <1>1, <4>1 DEF Register, Pump
      <4>2. CASE ~Register(j)
        BY <1>5, <4>2 DEF Ask, RegisterDead, Expire, Unregister
      <4> QED BY <4>1, <4>2
    <3> QED BY <3>1 DEF Pumps
  <2>3. Used(k)' <= Used(k)
    <3>1. CASE RegisterDead(j)
      <4>1. End(j, Closed)
        BY <3>1 DEF RegisterDead
      <4> QED BY <1>2, <1>3, <1>4, <4>1 DEF One
    <3>2. CASE Ask(j) \/ Register(j) \/ Expire(j) \/ Unregister(j)
      <4>1. /\ wait'[j] # "answered" /\ \A i \in Calls \ {j} : wait'[i] = wait[i]
        BY <1>1, <3>2 DEF Ask, Register, Expire, Unregister
      <4> QED BY <4>1 DEF Used
    <3> QED BY <1>5, <3>1, <3>2
  <2>4. Places(m)' = Places(m) /\ Buffers(m)' = Buffers(m) /\ Slots(m)' = Slots(m) /\ Used(k)' \in Nat
    BY <2>1, CountsKept DEF Used
  <2> QED BY ONLY <1>3, <2>2, <2>3, <2>4 DEF InFlight, m
<1>6. CASE Claim(j)
  <2>1. PICK i \in DOMAIN pending[r] :
          /\ pending' = [pending EXCEPT ![r] = Unclaimed(pending[r], i)] /\ End(j, pending[r][i])
    BY <1>6 DEF Claim
  <2>2. PICK e : e = pending[r][i]
    OBVIOUS
  <2>3. Cardinality(Buffers(m)') \in Nat /\ Cardinality(Buffers(m)') <= Cardinality(Buffers(m)) - One(e = m)
    BY <1>1, <2>1, <2>2, BuffersClaimed
  <2>5. Used(k)' \in Nat /\ Used(k)' <= Used(k) + One(e = m)
    BY <1>4, <2>1, <2>2
  <2>6. Places(m)' = Places(m) /\ Slots(m)' = Slots(m) /\ Pumps(m)' = Pumps(m) /\ One(e = m) \in Nat
    BY <1>6, CountsKept DEF Claim, One
  <2> QED BY ONLY <1>3, <2>3, <2>5, <2>6 DEF InFlight, m
<1>7. CASE Receive(j)
  <2>1. PICK e : e = slot[j]
    OBVIOUS
  <2>2. End(j, e) /\ slot'[j] # m /\ \A i \in Calls \ {j} : slot'[i] = slot[i]
    BY <1>1, <1>2, <1>7, <2>1 DEF Receive
  <2>3. Cardinality(Slots(m)') \in Nat /\ Cardinality(Slots(m)') <= Cardinality(Slots(m)) - One(e = m)
    <3>1. /\ Cardinality(Slots(m)') \in Nat
          /\ Cardinality(Slots(m)') <= Cardinality(Slots(m)) - One(slot[j] = m) + One(slot'[j] = m)
      BY <2>2, SlotsChanged
    <3> QED BY <1>3, <2>1, <2>2, <3>1 DEF One
  <2>4. Used(k)' \in Nat /\ Used(k)' <= Used(k) + One(e = m)
    BY <1>4, <2>2
  <2>5. Places(m)' = Places(m) /\ Buffers(m)' = Buffers(m) /\ Pumps(m)' = Pumps(m) /\ One(e = m) \in Nat
    BY <1>7, CountsKept DEF Receive, One
  <2> QED BY ONLY <1>3, <2>3, <2>4, <2>5 DEF InFlight, m
<1> QED BY <1>5, <1>6, <1>7 DEF CallStep, WaitStep

LEMMA AnswersStep == HubShape /\ AnswersConserved /\ [HubNext]_hubVars => AnswersConserved'
<1> SUFFICES ASSUME HubShape, AnswersConserved, [HubNext]_hubVars, NEW k \in Calls
             PROVE  InFlight(k)' <= answers'[k]
  BY DEF AnswersConserved
<1>2. InFlight(k) \in Nat
  BY InFlightTypes
<1>3. answers \in [Calls -> 0..MaxAnswers] /\ answers[k] \in Nat /\ InFlight(k) <= answers[k]
  BY DEF HubShape, ShapeOfClient, AnswersConserved
<1>4. ASSUME InFlight(k)' \in Nat, InFlight(k)' <= InFlight(k), answers' = answers PROVE InFlight(k)' <= answers'[k]
  BY <1>2, <1>3, <1>4
<1>5. ASSUME NEW j \in Calls, CallStep(j) PROVE InFlight(k)' <= answers'[k]
  <2>1. answers' = answers
    BY <1>5 DEF CallStep, WaitStep, Ask, RegisterDead, Claim, Register, Receive, Expire, Unregister, clientVars
  <2> QED BY <1>4, <1>5, <2>1, CallAnswers
<1>6. ASSUME NEW r \in RunIds, PumpStep(r) PROVE InFlight(k)' <= answers'[k]
  <2>1. answers' = answers
    BY <1>6 DEF PumpStep, Read, Route, Buffer, Send, BroadcastError, clientVars
  <2> QED BY <1>4, <1>6, <2>1, PumpAnswers
<1>7. ASSUME NEW e \in FromClient, Forward(e), UNCHANGED <<pending, pump, slot, wait>>
      PROVE  InFlight(k)' \in Nat /\ InFlight(k)' <= InFlight(k) + One(e = AnswerTo(k))
  <2> DEFINE m == AnswerTo(k)
  <2>1. Buffers(m)' = Buffers(m) /\ Pumps(m)' = Pumps(m) /\ Slots(m)' = Slots(m) /\ Used(k)' = Used(k)
    BY <1>7, CountsKept DEF Used
  <2>2. Cardinality(Places(m)') \in Nat /\ Cardinality(Places(m)') <= Cardinality(Places(m)) + One(e = m)
    BY <1>7, PlacesForwarded
  <2>3. /\ Cardinality(Places(m)) \in Nat /\ Cardinality(Buffers(m)) \in Nat /\ One(e = m) \in Nat
        /\ Cardinality(Pumps(m)) \in Nat /\ Cardinality(Slots(m)) \in Nat /\ Used(k) \in Nat
    BY CountTypes, InFlightTypes DEF One
  <2> QED BY ONLY <2>1, <2>2, <2>3 DEF InFlight
<1>8. ASSUME NEW j \in Calls, SendAnswer(j) PROVE InFlight(k)' <= answers'[k]
  <2>1. InFlight(k)' \in Nat /\ InFlight(k)' <= InFlight(k) + One(AnswerTo(j) = AnswerTo(k))
    BY <1>7, <1>8 DEF SendAnswer, FromClient
  <2>2. answers'[k] = answers[k] + One(AnswerTo(j) = AnswerTo(k))
    BY <1>3, <1>8, MessagesDiffer DEF SendAnswer, One
  <2> QED BY ONLY <1>2, <1>3, <2>1, <2>2 DEF One
<1>9. CASE SendCancel
  <2>1. InFlight(k)' \in Nat /\ InFlight(k)' <= InFlight(k) + One(Cancel = AnswerTo(k)) /\ answers' = answers
    BY <1>7, <1>9 DEF SendCancel, FromClient
  <2>2. One(Cancel = AnswerTo(k)) = 0
    BY MessagesDiffer DEF One
  <2> QED BY <1>2, <1>4, <2>1, <2>2
<1>10. CASE Close \/ NextRun \/ UNCHANGED hubVars
  <2>1. UNCHANGED <<inbox, pending, pump, slot, wait, answers>>
    BY <1>10 DEF Close, NextRun, clientVars, hubVars
  <2>2. InFlight(k)' = InFlight(k)
    BY <2>1, CountsKept DEF InFlight, Used
  <2> QED BY <1>2, <1>4, <2>1, <2>2
<1> QED BY <1>5, <1>6, <1>8, <1>9, <1>10 DEF HubNext, CallStep

LEMMA AnswersInit == HubInit => AnswersConserved
<1> SUFFICES ASSUME HubInit, NEW k \in Calls PROVE InFlight(k) <= answers[k]
  BY DEF AnswersConserved
<1>1. AnswerTo(k) # Nothing
  BY MessagesDiffer
<1>2. Places(AnswerTo(k)) = {} /\ Buffers(AnswerTo(k)) = {}
  <2>1. DOMAIN <<>> = {}
    OBVIOUS
  <2> QED BY <2>1 DEF HubInit, Places, Buffers
<1>3. Pumps(AnswerTo(k)) = {} /\ Slots(AnswerTo(k)) = {}
  BY <1>1 DEF HubInit, Pumps, Slots, NoPump
<1>4. Used(k) = 0 /\ answers[k] = 0
  BY DEF HubInit, Used
<1> QED BY <1>2, <1>3, <1>4, FS_EmptySet DEF InFlight

-----------------------------------------------------------------------------
(* Every variable keeps its type and no channel or buffer exceeds its      *)
(* capacity.                                                               *)
THEOREM HubTypesHold == HubSpec => []HubTypeOK
<1>1. HubInv => HubTypeOK
  BY HubTyped DEF HubInv
<1> QED BY <1>1, HubInvInit, HubInvStep, PTL DEF HubSpec

(* An answer to one call never ends another: dispatch hands an addressed   *)
(* answer only to the waiter that it names.                                *)
THEOREM NoCrossTalkHolds == HubSpec => []NoCrossTalk
<1>1. HubInv => NoCrossTalk
  BY DEF HubInv
<1> QED BY <1>1, HubInvInit, HubInvStep, PTL DEF HubSpec

(* Nobody is forgotten by a disconnection: once the pump has ended, whoever *)
(* waits on its hub has been woken, however the registrations and the      *)
(* broadcast of the error interleave.                                      *)
THEOREM NobodyForgottenHolds == HubSpec => []NobodyForgotten
<1>1. HubInv => NobodyForgotten
  <2> SUFFICES ASSUME HubInv, NEW k \in Calls, PumpAt(RunOf[k], "exit"), wait[k] \in {"blocked", "expired"}
               PROVE  slot[k] # Nothing
    BY DEF NobodyForgotten
  <2>1. RunOf[k] \in RunIds
    OBVIOUS
  <2>2. dead[RunOf[k]] /\ Waits(k)
    BY <2>1 DEF HubInv, HubEnds, EndKnown, Waits
  <2> QED BY <2>2 DEF HubInv, HubEnds, Woken, PumpAt
<1> QED BY <1>1, HubInvInit, HubInvStep, PTL DEF HubSpec

(* No answer is used twice: the copies of an answer in the channel, in the *)
(* buffers, in the pumps and on their way to a waiter, and the one that    *)
(* was consumed, are never more than the client sent.                      *)
THEOREM AnswersConservedHolds == HubSpec => []AnswersConserved
<1>1. HubInit => HubShape /\ AnswersConserved
  BY HubInvInit, AnswersInit DEF HubInv
<1>2. (HubShape /\ AnswersConserved) /\ [HubNext]_hubVars => (HubShape /\ AnswersConserved)'
  BY ShapeStep, AnswersStep
<1> QED BY <1>1, <1>2, PTL DEF HubSpec

-----------------------------------------------------------------------------
(* Side by side: a step of one of them leaves the others where they are.   *)
LEMMA RuntimeStep ==
    ASSUME [RuntimeNext]_<<part, vars, hubVars, viewVars>>
    PROVE  [Next]_vars /\ [HubNext]_hubVars /\ [ViewNext]_viewVars
<1>1. \/ Next /\ UNCHANGED <<hubVars, viewVars>>
      \/ HubNext /\ UNCHANGED <<vars, viewVars>>
      \/ ViewNext /\ UNCHANGED <<vars, hubVars>>
      \/ UNCHANGED <<vars, hubVars, viewVars>>
  BY DEF RuntimeNext
<1> QED BY <1>1

(* What is proved of one of them alone holds of it here.                   *)
LEMMA RuntimeImplements == RuntimeSpec => Spec /\ HubSpec /\ ViewSpec
<1>1. RuntimeInit => Init /\ HubInit /\ ViewInit
  BY DEF RuntimeInit
<1>2. [RuntimeNext]_<<part, vars, hubVars, viewVars>> =>
          [Next]_vars /\ [HubNext]_hubVars /\ [ViewNext]_viewVars
  BY RuntimeStep
<1> QED BY <1>1, <1>2, PTL DEF RuntimeSpec, Spec, HubSpec, ViewSpec

(* Every variable of the workspaces, of the hub and of the views keeps its *)
(* type, whichever of them moves.                                          *)
THEOREM RuntimeTypesHold == RuntimeSpec => []RuntimeTypeOK
<1>1. SharedInv /\ HubTypeOK /\ ViewTypeOK => RuntimeTypeOK
  BY DEF SharedInv, RuntimeTypeOK
<1> QED BY <1>1, RuntimeImplements, SharedInvariant, HubTypesHold, ViewTypesHold, PTL
=============================================================================
