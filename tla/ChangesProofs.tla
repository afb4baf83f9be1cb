---------------------------- MODULE ChangesProofs ----------------------------
(***************************************************************************)
(* Proofs about Changes for any cities, histories and number of builds:    *)
(* changes.json is an exact account of the difference to the city of a     *)
(* commit, and tells which, unless HEAD moves or git fails.                *)
(***************************************************************************)
EXTENDS Changes, FiniteSetTheorems, TLAPS

-----------------------------------------------------------------------------
(* The diff, for any two maps and a category.                              *)

(* Entries made of keys list these keys, and none under another change.    *)
LEMMA ListedEntries ==
  ASSUME NEW c, NEW change, NEW keys
  PROVE  /\ Listed(Entries(c, change, keys), c, change) = keys
         /\ \A other : other # change => Listed(Entries(c, change, keys), c, other) = {}
<1> DEFINE E == Entries(c, change, keys)
           New(k) == [kind |-> c, id |-> k, change |-> change]
<1>1. \A e \in E : e.kind = c /\ e.change = change /\ e.id \in keys
  BY DEF Entries
<1>2. \A k \in keys : New(k) \in E
  BY DEF Entries
<1>3. \A k : New(k).kind = c /\ New(k).change = change /\ New(k).id = k
  OBVIOUS
<1> HIDE DEF E, New
<1>4. \A other, k : k \in Listed(E, c, other) <=>
                     \E e \in E : e.kind = c /\ e.change = other /\ e.id = k
  BY DEF Listed
<1>5. \A other : other # change => Listed(E, c, other) = {}
  BY <1>1, <1>4
<1>6. \A k : k \in Listed(E, c, change) <=> k \in keys
  BY <1>1, <1>2, <1>3, <1>4
<1>7. Listed(E, c, change) = keys
  BY <1>6
<1> QED BY <1>5, <1>7 DEF E

(* What the entries of a diff list under each change.                      *)
LEMMA ListedOfDiff ==
  ASSUME NEW previous_network, NEW current, NEW c \in Category
  PROVE  LET P == ItemMap(previous_network[c])
             C == ItemMap(current[c])
             D == Diff(previous_network, current).changes
         IN  /\ Listed(D, c, "added") = Added(P, C)
             /\ Listed(D, c, "removed") = Removed(P, C)
             /\ Listed(D, c, "modified") = Modified(P, C)
<1> DEFINE P(d) == ItemMap(previous_network[d])
           C(d) == ItemMap(current[d])
           D == Diff(previous_network, current).changes
<1>1. D = UNION {DiffCategory(P(d), C(d), d) : d \in Category}
  BY DEF Diff
<1>2. \A d \in Category : \A e \in DiffCategory(P(d), C(d), d) : e.kind = d
  BY DEF DiffCategory, Entries
<1>3. \A change : Listed(D, c, change) = Listed(DiffCategory(P(c), C(c), c), c, change)
  BY <1>1, <1>2 DEF Listed
<1> HIDE DEF P, C, D
<1>4. \A X, Y, Z, change : Listed(X \cup Y \cup Z, c, change)
        = Listed(X, c, change) \cup Listed(Y, c, change) \cup Listed(Z, c, change)
  BY DEF Listed
<1>5. /\ Listed(DiffCategory(P(c), C(c), c), c, "added") = Added(P(c), C(c))
      /\ Listed(DiffCategory(P(c), C(c), c), c, "removed") = Removed(P(c), C(c))
      /\ Listed(DiffCategory(P(c), C(c), c), c, "modified") = Modified(P(c), C(c))
  <2> DEFINE A == Entries(c, "added", Added(P(c), C(c)))
             R == Entries(c, "removed", Removed(P(c), C(c)))
             M == Entries(c, "modified", Modified(P(c), C(c)))
  <2>1. /\ Listed(A, c, "added") = Added(P(c), C(c))
        /\ Listed(A, c, "removed") = {} /\ Listed(A, c, "modified") = {}
    BY ListedEntries
  <2>2. /\ Listed(R, c, "removed") = Removed(P(c), C(c))
        /\ Listed(R, c, "added") = {} /\ Listed(R, c, "modified") = {}
    BY ListedEntries
  <2>3. /\ Listed(M, c, "modified") = Modified(P(c), C(c))
        /\ Listed(M, c, "added") = {} /\ Listed(M, c, "removed") = {}
    BY ListedEntries
  <2>4. DiffCategory(P(c), C(c), c) = A \cup R \cup M
    BY DEF DiffCategory
  <2> HIDE DEF A, R, M
  <2>5. \A change : Listed(A \cup R \cup M, c, change)
          = Listed(A, c, change) \cup Listed(R, c, change) \cup Listed(M, c, change)
    BY <1>4
  <2>6. Listed(A \cup R \cup M, c, "added") = Added(P(c), C(c))
    BY <2>1, <2>2, <2>3, <2>5
  <2>7. Listed(A \cup R \cup M, c, "removed") = Removed(P(c), C(c))
    BY <2>1, <2>2, <2>3, <2>5
  <2>8. Listed(A \cup R \cup M, c, "modified") = Modified(P(c), C(c))
    BY <2>1, <2>2, <2>3, <2>5
  <2> QED BY <2>4, <2>6, <2>7, <2>8
<1> QED BY <1>3, <1>5 DEF P, C, D

(* An entry that no other repeats is missed where it was listed, only.     *)
LEMMA ListedWithout ==
  ASSUME NEW changes, NEW e \in changes,
         \A x \in changes : x.kind = e.kind /\ x.change = e.change /\ x.id = e.id => x = e
  PROVE  /\ e.id \in Listed(changes, e.kind, e.change)
         /\ Listed(changes \ {e}, e.kind, e.change) = Listed(changes, e.kind, e.change) \ {e.id}
         /\ \A change : change # e.change =>
              Listed(changes \ {e}, e.kind, change) = Listed(changes, e.kind, change)
<1>1. e.id \in Listed(changes, e.kind, e.change)
  BY DEF Listed
<1>2. Listed(changes \ {e}, e.kind, e.change) = Listed(changes, e.kind, e.change) \ {e.id}
  BY DEF Listed
<1>3. \A change : change # e.change =>
        Listed(changes \ {e}, e.kind, change) = Listed(changes, e.kind, change)
  BY DEF Listed
<1> QED BY <1>1, <1>2, <1>3

(* The entries lead from the previous city to the current one ...          *)
LEMMA DiffTurns ==
  ASSUME NEW previous_network, NEW current
  PROVE  Turns(previous_network, current, Diff(previous_network, current).changes)
<1> DEFINE D == Diff(previous_network, current).changes
<1> SUFFICES ASSUME NEW c \in Category
             PROVE  Patched(ItemMap(previous_network[c]), ItemMap(current[c]), D, c)
                      = ItemMap(current[c])
  BY DEF Turns
<1> DEFINE P == ItemMap(previous_network[c])
           C == ItemMap(current[c])
<1>1. /\ Listed(D, c, "added") = Added(P, C)
      /\ Listed(D, c, "removed") = Removed(P, C)
      /\ Listed(D, c, "modified") = Modified(P, C)
  BY ListedOfDiff
<1>2. C = [k \in DOMAIN C |-> C[k]]
  BY DEF ItemMap
<1> HIDE DEF D, P, C
<1> QED BY <1>1, <1>2 DEF Patched, Added, Removed, Modified, P, C

(* ... and each of them is needed.                                         *)
LEMMA DiffIsMinimal ==
  ASSUME NEW previous_network, NEW current,
         NEW e \in Diff(previous_network, current).changes
  PROVE  ~ Turns(previous_network, current, Diff(previous_network, current).changes \ {e})
<1> DEFINE D == Diff(previous_network, current).changes
           c == e.kind
           P == ItemMap(previous_network[c])
           C == ItemMap(current[c])
           N == Patched(P, C, D \ {e}, c)
<1>1. c \in Category /\ e.change \in {"added", "removed", "modified"}
  BY DEF Diff, DiffCategory, Entries
<1>2. /\ e.id \in Listed(D, c, e.change)
      /\ Listed(D \ {e}, c, e.change) = Listed(D, c, e.change) \ {e.id}
      /\ \A change : change # e.change => Listed(D \ {e}, c, change) = Listed(D, c, change)
  <2>1. \A x \in D : x = [kind |-> x.kind, id |-> x.id, change |-> x.change]
    BY DEF Diff, DiffCategory, Entries
  <2>2. e \in D
    OBVIOUS
  <2> HIDE DEF D
  <2>3. \A x \in D : x.kind = e.kind /\ x.change = e.change /\ x.id = e.id => x = e
    BY <2>1, <2>2
  <2>4. /\ e.id \in Listed(D, e.kind, e.change)
        /\ Listed(D \ {e}, e.kind, e.change) = Listed(D, e.kind, e.change) \ {e.id}
        /\ \A change : change # e.change =>
             Listed(D \ {e}, e.kind, change) = Listed(D, e.kind, change)
    BY <2>2, <2>3, ListedWithout, Zenon
  <2> QED BY <2>4
<1>3. /\ Listed(D, c, "added") = Added(P, C)
      /\ Listed(D, c, "removed") = Removed(P, C)
      /\ Listed(D, c, "modified") = Modified(P, C)
  BY <1>1, ListedOfDiff
<1>4. SUFFICES N # C
  BY <1>1 DEF Turns
<1>5. /\ DOMAIN N = (DOMAIN P \cup Listed(D \ {e}, c, "added")) \ Listed(D \ {e}, c, "removed")
      /\ \A k \in DOMAIN N :
           N[k] = IF k \in Listed(D \ {e}, c, "added") \cup Listed(D \ {e}, c, "modified")
                  THEN C[k] ELSE P[k]
  BY DEF Patched
<1> HIDE DEF D, c, P, C, N
<1>6. CASE e.change = "added"
  BY <1>2, <1>3, <1>5, <1>6 DEF Added, Removed
<1>7. CASE e.change = "removed"
  BY <1>2, <1>3, <1>5, <1>7 DEF Added, Removed
<1>8. CASE e.change = "modified"
  BY <1>2, <1>3, <1>5, <1>8 DEF Added, Removed, Modified
<1> QED BY <1>1, <1>6, <1>7, <1>8

(* A map of a list without repeated keys has as many keys as the list has  *)
(* items.                                                                  *)
LEMMA KeysCounted ==
  ASSUME NEW items, Len(items) \in Nat, DOMAIN items = 1 .. Len(items), Distinct(items)
  PROVE  IsFiniteSet(Keys(items)) /\ Cardinality(Keys(items)) = Len(items)
<1> DEFINE f == [i \in 1 .. Len(items) |-> items[i].key]
<1>1. f \in Bijection(1 .. Len(items), Keys(items))
  <2>1. f \in [1 .. Len(items) -> Keys(items)]
    BY DEF Keys
  <2>2. \A k \in Keys(items) : \E i \in 1 .. Len(items) : f[i] = k
    BY DEF Keys
  <2>3. \A i, j \in 1 .. Len(items) : f[i] = f[j] => i = j
    BY DEF Distinct
  <2> QED BY <2>1, <2>2, <2>3 DEF Bijection, Injection, Surjection, IsInjective
<1>2. ExistsBijection(1 .. Len(items), Keys(items))
  BY <1>1 DEF ExistsBijection
<1>3. IsFiniteSet(1 .. Len(items)) /\ Cardinality(1 .. Len(items)) = Len(items)
  <2> DEFINE n == Len(items)
  <2>1. 1 \in Int /\ n \in Int /\ (IF 1 > n THEN 0 ELSE n - 1 + 1) = n
    OBVIOUS
  <2> HIDE DEF n
  <2>2. IsFiniteSet(1 .. n) /\ Cardinality(1 .. n) = n
    BY <2>1, FS_Interval
  <2> QED BY <2>2 DEF n
<1> QED BY <1>2, <1>3, FS_Bijection

(* What was there and what was added make up what is there and what went.  *)
LEMMA Balance ==
  ASSUME NEW P, NEW C, IsFiniteSet(P), IsFiniteSet(C)
  PROVE  Cardinality(C) + Cardinality(P \ C) = Cardinality(P) + Cardinality(C \ P)
<1>1. /\ Cardinality(P \ C) = Cardinality(P) - Cardinality(P \cap C)
      /\ Cardinality(C \ P) = Cardinality(C) - Cardinality(C \cap P)
  BY FS_Difference
<1>2. P \cap C = C \cap P
  OBVIOUS
<1>3. Cardinality(P) \in Nat /\ Cardinality(C) \in Nat /\ Cardinality(P \cap C) \in Nat
  BY FS_CardinalityType, FS_Intersection
<1> QED BY <1>1, <1>2, <1>3

-----------------------------------------------------------------------------
(* The build.                                                              *)

(* The invariant holds before the first build.                             *)
LEMMA InitInv == Init => IInv
<1> SUFFICES ASSUME Init PROVE IInv
  OBVIOUS
<1>1. commits \in Seq(File) /\ head \in 0 .. Len(commits)
  BY ChangesAssumption DEF Init
<1> QED BY <1>1, ChangesAssumption
        DEF Init, IInv, TypeOK, AnswersInv, ReportInv, RefNamesCompared, Fresh

(* Every step keeps it.                                                    *)
LEMMA NextInv == IInv /\ [Next]_vars => IInv'
<1> SUFFICES ASSUME IInv, [Next]_vars PROVE IInv'
  OBVIOUS
<1> USE ChangesAssumption DEF IInv, TypeOK, AnswersInv, ReportInv, RefNamesCompared, Fresh,
            Tells, repo, answers, history
<1>1. CASE Commit
  <2>1. PICK file \in File : commits' = Append(commits, file) /\ Move(Len(commits) + 1)
    BY <1>1 DEF Commit, Held, File
  <2>2. /\ commits' \in Seq(File) /\ Len(commits') = Len(commits) + 1
        /\ \A i \in 1 .. Len(commits) : commits'[i] = commits[i]
        /\ Len(commits) \in Nat
    BY <2>1
  <2>3. head' = Len(commits) + 1 /\ heads' = heads \cup {Len(commits) + 1}
    BY <2>1 DEF Move
  <2>4. UNCHANGED <<model, out, pc, network, answers, report, builds, seen, failed>>
    BY <2>1 DEF Move
  <2>5. moves' \in 0 .. MaxMoves
    BY <2>1 DEF Move
  <2>6. TypeOK'
    <3>1. 0 .. Len(commits) \subseteq 0 .. Len(commits')
      BY <2>2
    <3>2. heads' \subseteq 0 .. Len(commits')
      <4>1. Len(commits) + 1 \in 0 .. Len(commits')
        BY <2>2
      <4>2. heads \subseteq 0 .. Len(commits)
        OBVIOUS
      <4> QED BY <2>3, <3>1, <4>1, <4>2, Zenon
    <3>3. head' \in 0 .. Len(commits') /\ seen' \in 0 .. Len(commits')
      BY <2>2, <2>3, <2>4
    <3>4. UNCHANGED <<previous, model, network, out, pc, builds, failed>>
      BY <2>4
    <3> QED BY <2>2, <2>5, <3>2, <3>3, <3>4
  <2>7. AnswersInv'
    BY <2>2, <2>3, <2>4
  <2>8. ReportInv'
    BY <2>4
  <2>9. RefNamesCompared'
    BY <2>2, <2>3, <2>4
  <2> QED BY <2>6, <2>7, <2>8, <2>9
<1>2. CASE Checkout
  BY <1>2 DEF Checkout, Move
<1>3. CASE Edit
  BY <1>3 DEF Edit
<1>4. CASE StartBuild
  BY <1>4 DEF StartBuild
<1>5. CASE NothingToCompare
  BY <1>5 DEF NothingToCompare, ReadPrevious, File
<1>6. CASE PreviousIsForeign
  BY <1>6 DEF PreviousIsForeign, ReadPrevious, File
<1>7. CASE ReadNetwork
  <2>1. PICK city \in Networks : ReadPrevious(city) /\ Held(head) = city
    BY <1>7 DEF ReadNetwork, ReadPrevious, Held, File
  <2>2. head # 0 /\ commits[head] = city
    BY <2>1 DEF Held
  <2> QED BY <1>7, <2>1, <2>2 DEF ReadNetwork, ReadPrevious, File
<1>8. CASE ReadRef
  BY <1>8 DEF ReadRef
<1>9. CASE ReadTimestamp
  <2>1. /\ report'.compared = previous /\ report'.previous_ref = ref
        /\ report'.previous_generated_at = time'
        /\ report'.diff = Diff(previous, network)
    BY <1>9 DEF ReadTimestamp
  <2> QED BY <1>9, <2>1 DEF ReadTimestamp
<1>10. CASE WriteArtifacts
  BY <1>10 DEF WriteArtifacts
<1>11. CASE Interrupted
  BY <1>11 DEF Interrupted
<1>12. CASE UNCHANGED vars
  BY <1>12 DEF vars
<1> QED BY <1>1, <1>2, <1>3, <1>4, <1>5, <1>6, <1>7, <1>8, <1>9, <1>10, <1>11, <1>12
       DEF Next, Build

(* The inductive invariant holds of every reachable state.                 *)
THEOREM Invariant == Spec => []IInv
BY InitInv, NextInv, PTL DEF Spec

(* Every variable keeps its shape, and a build that has a network to       *)
(* compare with got one from git (_build_changes).                         *)
THEOREM TypeCorrect == Spec => []TypeOK
<1>1. IInv => TypeOK
  BY DEF IInv
<1> QED BY <1>1, Invariant, PTL

(* However HEAD moves and whichever of the three git processes fails, an   *)
(* answer is of a commit that HEAD was at since the first                  *)
(* (previous_network_json, head_ref, head_timestamp).                      *)
THEOREM RefIsRight == Spec => []RefNamesCompared
<1>1. IInv => RefNamesCompared
  BY DEF IInv
<1> QED BY <1>1, Invariant, PTL

(* The entries of changes.json turn the compared city into the built one,  *)
(* and none could be left out (_diff_networks).                            *)
THEOREM ExactDiff == Spec => []DiffIsExact
<1>1. IInv => DiffIsExact
  BY DiffTurns, DiffIsMinimal DEF IInv, ReportInv, DiffIsExact
<1> QED BY <1>1, Invariant, PTL

(* The summary agrees with the counts of the two cities (_diff_networks).  *)
THEOREM SummaryAddsUp == Spec => []CountsAddUp
<1>1. IInv => CountsAddUp
  <2> SUFFICES ASSUME IInv, Fresh, report.compared # None, NEW c \in Category,
                      Distinct(report.compared[c]), Distinct(network[c])
               PROVE  Len(network[c]) + report.diff.summary[c].removed
                        = Len(report.compared[c]) + report.diff.summary[c].added
    BY DEF CountsAddUp
  <2> DEFINE P == Keys(report.compared[c])
             C == Keys(network[c])
  <2>1. report.compared \in Networks /\ network \in Networks
    BY ChangesAssumption DEF IInv, TypeOK, ReportInv
  <2>2. /\ IsFiniteSet(P) /\ Cardinality(P) = Len(report.compared[c])
        /\ IsFiniteSet(C) /\ Cardinality(C) = Len(network[c])
    BY <2>1, KeysCounted, ChangesAssumption
  <2>3. report.diff.summary[c] = Summary(ItemMap(report.compared[c]), ItemMap(network[c]))
    BY DEF IInv, ReportInv, Diff
  <2>4. DOMAIN ItemMap(report.compared[c]) = P /\ DOMAIN ItemMap(network[c]) = C
    BY DEF ItemMap
  <2>5. /\ report.diff.summary[c].removed = Cardinality(P \ C)
        /\ report.diff.summary[c].added = Cardinality(C \ P)
    BY <2>3, <2>4 DEF Summary, Added, Removed
  <2> QED BY <2>2, <2>5, Balance
<1> QED BY <1>1, Invariant, PTL

=============================================================================
