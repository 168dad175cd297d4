---------------------------- MODULE CacheQuotaProofs ----------------------------
(***************************************************************************)
(* Proofs about CacheQuota, for any number of downloads, users and passes: *)
(* one evictor per download, oldest first, a remover for every row whose   *)
(* file is missing, and passes that stop within their quota.               *)
(***************************************************************************)
EXTENDS CacheQuota, FiniteSetTheorems, WellFoundedInduction, TLAPS

(* The bytes of a set of downloads are a fold, of which no prover knows anything.
   What the proofs need of it is derived here from its definition: the smallest
   set on which a fact about sums would fail has a smaller one it fails on.

   The sets within a finite one have a smallest. *)
LEMMA MinimalSet ==
  ASSUME NEW S, IsFiniteSet(S), NEW B \in SUBSET SUBSET S, B # {}
  PROVE  \E T \in B : \A U \in B : U \subseteq T => U = T
<1>1. IsWellFoundedOn(StrictSubsetOrdering(S), SUBSET S)
  BY FS_StrictSubsetOrderingWellFounded, FS_FiniteSubsetsOfFinite
<1>2. \E T \in B : \A U \in B : <<U, T>> \notin StrictSubsetOrdering(S)
  BY <1>1, WFMin

<1>3. QED BY <1>2 DEF StrictSubsetOrdering

(* The fold takes a set apart by a choice; a tally is a function that does. *)
Picked(S) == CHOOSE d \in S : TRUE

IsTally(g, S) ==
  \A T \in SUBSET S :
    g[T] = IF T = {} THEN 0 ELSE Size[Picked(T)] + g[T \ {Picked(T)}]

Tallies(S) == {g \in [SUBSET S -> Nat] : IsTally(g, S)}

(* There is one tally of a set at most. *)
LEMMA OneTally ==
  ASSUME NEW S, IsFiniteSet(S),
         NEW f, NEW g, IsTally(f, S), IsTally(g, S)
  PROVE  \A T \in SUBSET S : f[T] = g[T]
<1> DEFINE B == {T \in SUBSET S : f[T] # g[T]}
<1> SUFFICES ASSUME B # {} PROVE FALSE
  OBVIOUS
<1>1. PICK T \in B : \A U \in B : U \subseteq T => U = T
  <2> HIDE DEF B
  <2>1. B \in SUBSET SUBSET S
    BY DEF B
  <2> QED
    BY <2>1, MinimalSet
<1>2. T # {}
  BY DEF IsTally
<1>3. Picked(T) \in T
  BY <1>2 DEF Picked
<1>4. /\ T \ {Picked(T)} \in SUBSET S
      /\ T \ {Picked(T)} # T /\ T \ {Picked(T)} \subseteq T
  BY <1>3
<1>5. f[T \ {Picked(T)}] = g[T \ {Picked(T)}]
  BY <1>1, <1>4
<1> QED
  BY <1>1, <1>2, <1>5 DEF IsTally

(* The fold is a recursive function, which is determined by its equation. *)
LEMMA BytesIsTally ==
  ASSUME NEW S \in SUBSET Downloads, NEW g \in Tallies(S)
  PROVE  Bytes(S) = g[S]
<1> DEFINE E(h) == h = [T \in SUBSET S |->
                          IF T = {} THEN 0 ELSE Size[Picked(T)] + h[T \ {Picked(T)}]]
           iter == CHOOSE h : E(h)
<1>1. Bytes(S) = iter[S]
  BY DEF Bytes, MapThenSumSet, MapThenFoldSet, Picked
<1>2. E(g)
  BY DEF Tallies, IsTally
<1>3. E(iter)
  <2> HIDE DEF E
  <2> QED
    BY <1>2
<1> HIDE DEF iter
<1>4. IsTally(iter, S)
  BY <1>3 DEF IsTally
<1>5. IsTally(g, S)
  BY DEF Tallies
<1>6. IsFiniteSet(S)
  BY DownloadsAssumption, FS_Subset
<1>7. \A T \in SUBSET S : iter[T] = g[T]
  BY <1>4, <1>5, <1>6, OneTally
<1> QED
  BY <1>1, <1>7

(* Hence its equation holds of every set that has a tally, *)
LEMMA BytesOfTallied ==
  ASSUME NEW S \in SUBSET Downloads, Tallies(S) # {}
  PROVE  /\ Bytes(S) \in Nat
         /\ Bytes(S) = IF S = {} THEN 0 ELSE Size[Picked(S)] + Bytes(S \ {Picked(S)})
<1>1. PICK g \in Tallies(S) : TRUE
  OBVIOUS
<1>2. Bytes(S) = g[S] /\ g[S] \in Nat
  BY BytesIsTally DEF Tallies, IsTally
<1>3. CASE S = {}
  BY <1>2, <1>3 DEF Tallies, IsTally
<1>4. CASE S # {}
  <2> DEFINE R == S \ {Picked(S)}
             h == [T \in SUBSET R |-> g[T]]
  <2>1. R \subseteq S /\ \A T \in SUBSET R : T \ {Picked(T)} \in SUBSET R
    OBVIOUS
  <2>2. h \in Tallies(R)
    BY <2>1 DEF Tallies, IsTally
  <2>3. Bytes(R) = g[R]
    BY <2>2, BytesIsTally
  <2> QED
    BY <1>2, <1>4, <2>3 DEF Tallies, IsTally
<1> QED
  BY <1>2, <1>3, <1>4

(* and every set has one, made of those of its subsets. *)
LEMMA Tallied == \A S \in SUBSET Downloads : Tallies(S) # {}
<1> DEFINE B == {S \in SUBSET Downloads : Tallies(S) = {}}
<1> SUFFICES ASSUME B # {} PROVE FALSE
  OBVIOUS
<1>1. PICK S \in B : \A U \in B : U \subseteq S => U = S
  <2> HIDE DEF B
  <2>1. B \in SUBSET SUBSET Downloads
    BY DEF B
  <2> QED
    BY <2>1, MinimalSet, DownloadsAssumption
<1>2. \A U \in SUBSET S : U # S => Tallies(U) # {}
  BY <1>1
<1> DEFINE Total(T) == IF T = {} THEN 0 ELSE Size[Picked(T)] + Bytes(T \ {Picked(T)})
           g == [T \in SUBSET S |-> Total(T)]
<1>3. \A U \in SUBSET S : U # S => Bytes(U) \in Nat /\ Bytes(U) = Total(U)
  BY <1>2, BytesOfTallied
<1>4. ASSUME NEW T \in SUBSET S, T # {}
      PROVE  /\ Picked(T) \in T
             /\ T \ {Picked(T)} \in SUBSET S /\ T \ {Picked(T)} # S
             /\ Size[Picked(T)] \in Nat
  BY <1>4, SizeAssumption DEF Picked
<1>5. ASSUME NEW T \in SUBSET S PROVE Total(T) \in Nat
  <2>1. CASE T = {}
    BY <2>1
  <2>2. CASE T # {}
    <3>1. Bytes(T \ {Picked(T)}) \in Nat /\ Size[Picked(T)] \in Nat
      BY <2>2, <1>3, <1>4
    <3> QED
      BY <2>2, <3>1
  <2> QED
    BY <2>1, <2>2
<1>6. \A T \in SUBSET S : T # {} => g[T \ {Picked(T)}] = Bytes(T \ {Picked(T)})
  BY <1>3, <1>4
<1>7. g \in Tallies(S)
  BY <1>5, <1>6 DEF Tallies, IsTally
<1> QED
  BY <1>1, <1>7

(* What the size of a set is: a number, 0 if it is empty, *)
LEMMA BytesNat == \A S \in SUBSET Downloads : Bytes(S) \in Nat
BY Tallied, BytesOfTallied

LEMMA BytesEmpty == Bytes({}) = 0
BY Tallied, BytesOfTallied

LEMMA BytesPicked ==
  \A S \in SUBSET Downloads : S # {} =>
    Picked(S) \in S /\ Bytes(S) = Size[Picked(S)] + Bytes(S \ {Picked(S)})
BY Tallied, BytesOfTallied DEF Picked

(* the sum of that of any element and of the rest, *)
LEMMA BytesWithout ==
  \A S \in SUBSET Downloads : \A d \in S : Bytes(S) = Size[d] + Bytes(S \ {d})
<1> DEFINE B == {S \in SUBSET Downloads :
                   \E d \in S : Bytes(S) # Size[d] + Bytes(S \ {d})}
<1> SUFFICES ASSUME B # {} PROVE FALSE
  OBVIOUS
<1>1. PICK S \in B : \A U \in B : U \subseteq S => U = S
  <2> HIDE DEF B
  <2>1. B \in SUBSET SUBSET Downloads
    BY DEF B
  <2> QED
    BY <2>1, MinimalSet, DownloadsAssumption
<1>2. PICK d \in S : Bytes(S) # Size[d] + Bytes(S \ {d})
  OBVIOUS
<1> DEFINE p == Picked(S)
<1>3. p \in S /\ Bytes(S) = Size[p] + Bytes(S \ {p}) /\ d # p
  BY <1>2, BytesPicked
<1>4. Bytes(S \ {p}) = Size[d] + Bytes((S \ {p}) \ {d})
  BY <1>1, <1>3
<1>5. Bytes(S \ {d}) = Size[p] + Bytes((S \ {d}) \ {p})
  BY <1>1, <1>2, <1>3
<1>6. (S \ {p}) \ {d} = (S \ {d}) \ {p}
  OBVIOUS
<1>7. Size[p] \in Nat /\ Size[d] \in Nat /\ Bytes((S \ {p}) \ {d}) \in Nat
  BY <1>3, SizeAssumption, BytesNat
<1> HIDE DEF p
<1> QED
  BY <1>2, <1>3, <1>4, <1>5, <1>6, <1>7

(* and never less than that of a part. *)
LEMMA BytesMonotonic ==
  \A S \in SUBSET Downloads : \A T \in SUBSET S : Bytes(T) <= Bytes(S)
<1> DEFINE B == {S \in SUBSET Downloads :
                   \E T \in SUBSET S : ~(Bytes(T) <= Bytes(S))}
<1> SUFFICES ASSUME B # {} PROVE FALSE
  OBVIOUS
<1>1. PICK S \in B : \A U \in B : U \subseteq S => U = S
  <2> HIDE DEF B
  <2>1. B \in SUBSET SUBSET Downloads
    BY DEF B
  <2> QED
    BY <2>1, MinimalSet, DownloadsAssumption
<1>2. PICK T \in SUBSET S : ~(Bytes(T) <= Bytes(S))
  OBVIOUS
<1>3. Bytes(T) \in Nat /\ Bytes(S) \in Nat
  BY BytesNat
<1>4. PICK d \in S : d \notin T
  BY <1>2, <1>3
<1>5. Bytes(S) = Size[d] + Bytes(S \ {d}) /\ Size[d] \in Nat /\ Bytes(S \ {d}) \in Nat
  BY BytesWithout, BytesNat, SizeAssumption
<1>6. Bytes(T) <= Bytes(S \ {d})
  <2>1. S \ {d} \notin B
    BY <1>1
  <2> QED
    BY <2>1, <1>4
<1> QED
  BY <1>2, <1>3, <1>5, <1>6

-----------------------------------------------------------------------------

(* What most of the proofs need of the types. *)
Shape ==
  /\ DOMAIN row = Downloads /\ cached \subseteq Downloads
  /\ DOMAIN pass = Passes
  /\ \A p \in Passes :
       /\ DOMAIN pass[p] = {"stage", "used", "left", "at"}
       /\ pass[p].left \subseteq Downloads

(* Downloads complete in their order, and only those have files or are listed. *)
Completed(d) == row[d] # "none"
InOrder ==
  /\ \A d, e \in Downloads : e < d /\ Completed(d) => Completed(e)
  /\ \A d \in cached : Completed(d)
  /\ \A p \in Passes : \A d \in pass[p].left : Completed(d)

(* The file of a download in hand is gone, and does not come back. *)
InHand(p) == pass[p].stage = "row"
TakenIsGone ==
  \A p \in Passes :
    InHand(p) => /\ pass[p].at \in Downloads \ cached
                 /\ Completed(pass[p].at)

(* What a pass has not on its list any more, but is there, is younger than
   everything on it. *)
RestIsOlder ==
  \A p \in Passes : pass[p].stage \in {"next", "row"} /\ p[1] # "clear" =>
    \A e \in CacheRows(Scope(p)) : e \in cached /\ e \notin pass[p].left =>
      \A d \in pass[p].left : d < e

Inv == Shape /\ InOrder /\ TakenIsGone /\ RestIsOlder /\ OneEvictor

USE DownloadsAssumption, OwnerAssumption, KindsAssumption

(* A pass is app-wide or its download's owner's: within the downloads. *)
LEMMA ScopeIsDownloads == ASSUME NEW p \in Passes PROVE Scope(p) \subseteq Downloads
BY DEF Scope, OwnedBy

LEMMA InitInv == Init => Inv
<1> SUFFICES ASSUME Init PROVE Inv
  OBVIOUS
<1>1. Shape
  BY DEF Init, Shape, NoPass
<1>2. InOrder /\ TakenIsGone /\ RestIsOlder /\ OneEvictor
  BY DEF Init, InOrder, TakenIsGone, RestIsOlder, OneEvictor, EvictedBy,
       InHand, Completed, NoPass
<1> QED
  BY <1>1, <1>2 DEF Inv

(* Steps of promotions, deletions and the reconciliation: the passes stay, files
   only go, and no row completes or comes back to the cache. *)
LEMMA OthersKeepInv ==
  ASSUME Inv, pass' = pass, cached' \subseteq cached, DOMAIN row' = Downloads,
         \A d \in Downloads : /\ row'[d] = "none" <=> row[d] = "none"
                              /\ row'[d] = "cache" => row[d] = "cache"
  PROVE  Inv'
<1>1. Shape'
  BY DEF Inv, Shape
<1>2. InOrder'
  BY DEF Inv, Shape, InOrder, Completed
<1>3. TakenIsGone'
  BY DEF Inv, Shape, TakenIsGone, InHand, Completed
<1>4. RestIsOlder'
  BY ScopeIsDownloads DEF Inv, RestIsOlder, CacheRows
<1>5. OneEvictor'
  BY DEF Inv, OneEvictor, EvictedBy
<1> QED
  BY <1>1, <1>2, <1>3, <1>4, <1>5 DEF Inv

(* A completion: the newcomer is younger than whatever is listed. *)
LEMMA CompleteKeepsInv ==
  ASSUME Inv, NEW d \in Downloads, Complete(d)
  PROVE  Inv'
<1> USE DEF Inv
<1>0. /\ row' = [row EXCEPT ![d] = "cache"] /\ cached' = cached \cup {d}
      /\ row[d] = "none" /\ \A e \in Downloads : e < d => row[e] # "none"
  BY DEF Complete
<1>p. /\ DOMAIN pass' = Passes
      /\ \A p \in Passes : pass'[p] = Begun \/ pass'[p] = pass[p]
  BY DEF Complete
<1>b. /\ Begun.stage = "sum" /\ Begun.left = {}
      /\ DOMAIN Begun = {"stage", "used", "left", "at"}
  BY DEF Begun, NoPass
<1>1. Shape'
  BY <1>0, <1>p, <1>b DEF Shape
<1>2. InOrder'
  BY <1>0, <1>p, <1>b DEF InOrder, Completed, Shape
<1>3. TakenIsGone'
  <2> SUFFICES ASSUME NEW p \in Passes, InHand(p)'
               PROVE  pass'[p].at \in Downloads \ cached' /\ Completed(pass[p].at)'
    BY DEF TakenIsGone
  <2>1. pass'[p] = pass[p]
    BY <1>p, <1>b DEF InHand
  <2> QED
    BY <2>1, <1>0 DEF TakenIsGone, InHand, Completed
<1>4. RestIsOlder'
  <2> SUFFICES ASSUME NEW p \in Passes, pass'[p].stage \in {"next", "row"},
                      p[1] # "clear", NEW e \in CacheRows(Scope(p))',
                      e \in cached', e \notin pass'[p].left,
                      NEW x \in pass'[p].left
               PROVE  x < e
    BY DEF RestIsOlder
  <2>1. pass'[p] = pass[p]
    BY <1>p, <1>b
  <2>2. x \in Downloads /\ Completed(x) /\ e \in Downloads
    BY <2>1, ScopeIsDownloads DEF Shape, InOrder, CacheRows
  <2>3. CASE e = d
    <3>1. x # d /\ ~(d < x)
      BY <2>2, <1>0 DEF InOrder, Completed
    <3>2. x \in Nat /\ d \in Nat
      BY <2>2
    <3> QED
      BY <2>3, <3>1, <3>2
  <2>4. CASE e # d
    <3>1. e \in CacheRows(Scope(p)) /\ e \in cached
      BY <2>2, <2>4, <1>0 DEF CacheRows
    <3> QED
      BY <3>1, <2>1 DEF RestIsOlder
  <2> QED
    BY <2>3, <2>4
<1>5. OneEvictor'
  <2>1. \A p \in Passes, e \in Downloads : EvictedBy(p, e)' => EvictedBy(p, e)
    BY <1>p, <1>b DEF EvictedBy
  <2> QED
    BY <2>1 DEF OneEvictor
<1> QED
  BY <1>1, <1>2, <1>3, <1>4, <1>5

(* A pass that starts, tallies or lists takes nothing in hand; what it lists it
   lists whole. *)
LEMMA PassKeepsInv ==
  ASSUME Inv, NEW p \in Passes, NEW s, pass' = [pass EXCEPT ![p] = s],
         row' = row, cached' = cached,
         DOMAIN s = {"stage", "used", "left", "at"}, s.stage # "row",
         s.left \subseteq {d \in Downloads : Completed(d)},
         s.stage = "next" /\ p[1] # "clear" =>
           \A e \in CacheRows(Scope(p)) : e \in cached /\ e \notin s.left =>
             \A d \in s.left : d < e
  PROVE  Inv'
<1> USE DEF Inv
<1>p. /\ DOMAIN pass' = Passes /\ pass'[p] = s
      /\ \A q \in Passes : q # p => pass'[q] = pass[q]
  BY DEF Shape
<1>1. Shape'
  BY <1>p DEF Shape
<1>2. InOrder'
  BY <1>p DEF InOrder, Completed
<1>3. TakenIsGone'
  BY <1>p DEF TakenIsGone, InHand, Completed
<1>4. RestIsOlder'
  BY <1>p DEF RestIsOlder, CacheRows
<1>5. OneEvictor'
  <2>1. \A q \in Passes, e \in Downloads : EvictedBy(q, e)' => EvictedBy(q, e)
    BY <1>p DEF EvictedBy
  <2> QED
    BY <2>1 DEF OneEvictor
<1> QED
  BY <1>1, <1>2, <1>3, <1>4, <1>5

(* A pass that ends, starts or has tallied has nothing listed. *)
Quiet(s) ==
  /\ DOMAIN s = {"stage", "used", "left", "at"}
  /\ s.stage \in {"idle", "sum", "list"} /\ s.left = {}

LEMMA QuietKeepsInv ==
  ASSUME Inv, NEW p \in Passes, NEW s, Quiet(s), pass' = [pass EXCEPT ![p] = s],
         row' = row, cached' = cached
  PROVE  Inv'
BY PassKeepsInv DEF Quiet

LEMMA QuietStates ==
  Quiet(NoPass) /\ Quiet(Begun) /\ Quiet([NoPass EXCEPT !.stage = "list"])
BY DEF Quiet, NoPass, Begun

(* The file of the oldest candidate goes, and the pass has it in hand. *)
LEMMA TakeKeepsInv ==
  ASSUME Inv, NEW p \in Passes, NEW d \in Candidates(p, pass[p].left),
         pass[p].stage = "next", d \in cached, row' = row,
         pass' = [pass EXCEPT ![p] = Take(p, d)], cached' = cached \ {d}
  PROVE  Inv'
<1> USE DEF Inv
<1>p. /\ DOMAIN pass' = Passes
      /\ pass'[p].stage = "row" /\ pass'[p].at = d
      /\ pass'[p].left = pass[p].left \ {d}
      /\ DOMAIN pass'[p] = {"stage", "used", "left", "at"}
      /\ \A q \in Passes : q # p => pass'[q] = pass[q]
  BY DEF Shape, Take
<1>d. d \in pass[p].left /\ d \in Downloads
  BY DEF Candidates, Shape
<1>1. Shape'
  BY <1>p DEF Shape
<1>2. InOrder'
  BY <1>p DEF InOrder, Completed
<1>3. TakenIsGone'
  BY <1>p, <1>d DEF TakenIsGone, InHand, Completed, InOrder
<1>4. RestIsOlder'
  BY <1>p DEF RestIsOlder, CacheRows
<1>5. OneEvictor'
  <2>1. \A q \in Passes : q # p => ~EvictedBy(q, d)
    BY DEF TakenIsGone, InHand, EvictedBy
  <2>2. \A q \in Passes, e \in Downloads :
          EvictedBy(q, e)' => EvictedBy(q, e) \/ (q = p /\ e = d)
    BY <1>p DEF EvictedBy
  <2>3. \A q \in Passes : EvictedBy(q, d)' => q = p
    BY <1>d, <2>1, <2>2
  <2>4. \A e \in Downloads : EvictedBy(p, e)' => e = d
    BY <1>p DEF EvictedBy
  <2> QED
    BY <2>2, <2>3, <2>4 DEF OneEvictor
<1> QED
  BY <1>1, <1>2, <1>3, <1>4, <1>5

(* A candidate without a file is passed over. *)
LEMMA SkipKeepsInv ==
  ASSUME Inv, NEW p \in Passes, NEW d \in Candidates(p, pass[p].left),
         pass[p].stage = "next", d \notin cached, row' = row, cached' = cached,
         pass' = [pass EXCEPT ![p] = [pass[p] EXCEPT !.left = @ \ {d}]]
  PROVE  Inv'
<1>1. PICK s : s = [pass[p] EXCEPT !.left = @ \ {d}]
  OBVIOUS
<1>2. /\ DOMAIN s = {"stage", "used", "left", "at"} /\ s.stage = "next"
      /\ s.left = pass[p].left \ {d}
  BY <1>1 DEF Inv, Shape
<1>3. s.left \subseteq {x \in Downloads : Completed(x)}
  BY <1>2 DEF Inv, Shape, InOrder
<1>4. p[1] # "clear" =>
        \A e \in CacheRows(Scope(p)) : e \in cached /\ e \notin s.left =>
          \A x \in s.left : x < e
  BY <1>2 DEF Inv, RestIsOlder
<1> QED
  BY <1>1, <1>2, <1>3, <1>4, PassKeepsInv

(* The row in hand is deleted, or was gone. *)
LEMMA EvictRowKeepsInv ==
  ASSUME Inv, NEW p \in Passes, EvictRow(p)
  PROVE  Inv'
<1> USE DEF Inv
<1>d. pass[p].stage = "row" /\ pass[p].at \in Downloads /\ row[pass[p].at] # "none"
  BY DEF EvictRow, TakenIsGone, InHand, Completed
<1>1. CASE row[pass[p].at] = "gone"
  <2>1. pass' = [pass EXCEPT ![p] = NoPass] /\ row' = row /\ cached' = cached
    BY <1>1 DEF EvictRow, Goto
  <2> QED
    BY <2>1, QuietStates, QuietKeepsInv
<1>2. CASE row[pass[p].at] # "gone"
  <2>r. /\ row' = [row EXCEPT ![pass[p].at] = "gone"] /\ cached' = cached
        /\ \A e \in Downloads : /\ row'[e] = "none" <=> row[e] = "none"
                                /\ row'[e] = "cache" => row[e] = "cache"
    BY <1>1, <1>2, <1>d DEF EvictRow, Shape
  <2>s. PICK u : pass' = [pass EXCEPT ![p] = [pass[p] EXCEPT !.stage = "next",
                                              !.at = 0, !.used = u]]
    BY <1>2 DEF EvictRow, Goto
  <2>p. /\ DOMAIN pass' = Passes
        /\ pass'[p].stage = "next" /\ pass'[p].left = pass[p].left
        /\ DOMAIN pass'[p] = {"stage", "used", "left", "at"}
        /\ \A q \in Passes : q # p => pass'[q] = pass[q]
    BY <2>s DEF Shape
  <2>1. Shape'
    BY <2>r, <2>p DEF Shape
  <2>2. InOrder'
    <3>1. \A e \in Downloads : Completed(e)' <=> Completed(e)
      BY <2>r DEF Completed
    <3>2. \A q \in Passes : pass'[q].left = pass[q].left
      BY <2>p
    <3> QED
      BY <2>r, <3>1, <3>2 DEF InOrder, Shape
  <2>3. TakenIsGone'
    BY <2>r, <2>p DEF TakenIsGone, InHand, Completed
  <2>4. RestIsOlder'
    <3>1. \A q \in Passes : CacheRows(Scope(q))' \subseteq CacheRows(Scope(q))
      BY <2>r DEF CacheRows
    <3> QED
      BY <2>r, <2>p, <3>1, <1>d DEF RestIsOlder
  <2>5. OneEvictor'
    <3>1. \A q \in Passes, e \in Downloads : EvictedBy(q, e)' => EvictedBy(q, e)
      BY <2>p DEF EvictedBy
    <3> QED
      BY <3>1 DEF OneEvictor
  <2> QED
    BY <2>1, <2>2, <2>3, <2>4, <2>5
<1> QED
  BY <1>1, <1>2

LEMMA EvictKeepsInv ==
  ASSUME Inv, NEW p \in Passes, Evict(p)
  PROVE  Inv'
<1>1. CASE pass[p].left = {} \/ Enough(p)
  <2>1. pass' = [pass EXCEPT ![p] = NoPass] /\ row' = row /\ cached' = cached
    BY <1>1 DEF Evict, Goto
  <2> QED
    BY <2>1, QuietStates, QuietKeepsInv
<1>2. CASE ~(pass[p].left = {} \/ Enough(p))
  <2>1. PICK d \in Candidates(p, pass[p].left) :
          /\ Goto(p, IF CanUnlink(d) THEN Take(p, d)
                     ELSE [pass[p] EXCEPT !.left = @ \ {d}])
          /\ cached' = cached \ {d}
    BY <1>2 DEF Evict
  <2>2. pass[p].stage = "next" /\ row' = row
    BY DEF Evict
  <2>3. CASE d \in cached
    BY <2>1, <2>2, <2>3, TakeKeepsInv DEF Goto, CanUnlink
  <2>4. CASE d \notin cached
    <3>1. cached' = cached
      BY <2>1, <2>4
    <3> QED
      BY <2>1, <2>2, <2>4, <3>1, SkipKeepsInv DEF Goto, CanUnlink
  <2> QED
    BY <2>3, <2>4
<1> QED
  BY <1>1, <1>2

LEMMA ListKeepsInv ==
  ASSUME Inv, NEW p \in Passes, List(p)
  PROVE  Inv'
<1>1. PICK s : s = [pass[p] EXCEPT !.stage = "next", !.left = CacheRows(Scope(p))]
  OBVIOUS
<1>2. /\ DOMAIN s = {"stage", "used", "left", "at"} /\ s.stage = "next"
      /\ s.left = CacheRows(Scope(p))
  BY <1>1 DEF Inv, Shape
<1>3. s.left \subseteq {d \in Downloads : Completed(d)}
  BY <1>2, ScopeIsDownloads DEF CacheRows, Completed
<1>4. pass' = [pass EXCEPT ![p] = s] /\ row' = row /\ cached' = cached
  BY <1>1 DEF List, Goto
<1> QED
  BY <1>2, <1>3, <1>4, PassKeepsInv

LEMMA SumKeepsInv ==
  ASSUME Inv, NEW p \in Passes, Sum(p)
  PROVE  Inv'
<1>1. PICK s : /\ s = IF Used(Scope(p)) <= Quota(p) THEN NoPass
                      ELSE [NoPass EXCEPT !.stage = "list", !.used = Used(Scope(p))]
               /\ pass' = [pass EXCEPT ![p] = s]
  BY DEF Sum, Goto
<1>2. Quiet(s)
  BY <1>1 DEF Quiet, NoPass
<1>3. row' = row /\ cached' = cached
  BY DEF Sum
<1> QED
  BY <1>1, <1>2, <1>3, QuietKeepsInv

LEMMA AskKeepsInv ==
  ASSUME Inv, NEW p \in Passes, Ask(p)
  PROVE  Inv'
<1>0. row' = row /\ cached' = cached
  BY DEF Ask
<1>1. CASE p[1] = "job" /\ Goto(p, Begun)
  BY <1>0, <1>1, QuietStates, QuietKeepsInv DEF Goto
<1>2. CASE Goto(p, [NoPass EXCEPT !.stage = "list"])
  BY <1>0, <1>2, QuietStates, QuietKeepsInv DEF Goto
<1>3. CASE /\ p[1] = "clear"
           /\ \E S \in {Downloads} \cup {OwnedBy(u) : u \in Users} :
                Goto(p, [NoPass EXCEPT !.stage = "next", !.left = CacheRows(S)])
  <2>1. PICK S \in SUBSET Downloads :
          Goto(p, [NoPass EXCEPT !.stage = "next", !.left = CacheRows(S)])
    BY <1>3 DEF OwnedBy
  <2>2. PICK s : s = [NoPass EXCEPT !.stage = "next", !.left = CacheRows(S)]
    OBVIOUS
  <2>3. /\ DOMAIN s = {"stage", "used", "left", "at"} /\ s.stage = "next"
        /\ s.left \subseteq {d \in Downloads : Completed(d)}
    BY <2>2 DEF NoPass, CacheRows, Completed
  <2>4. pass' = [pass EXCEPT ![p] = s]
    BY <2>1, <2>2 DEF Goto
  <2> QED
    BY <1>0, <1>3, <2>3, <2>4, PassKeepsInv
<1> QED
  BY <1>1, <1>2, <1>3 DEF Ask

LEMMA RestartKeepsInv ==
  ASSUME Inv, Restart
  PROVE  Inv'
<1> USE DEF Inv
<1>p. /\ DOMAIN pass' = Passes /\ \A p \in Passes : pass'[p] = NoPass
      /\ row' = row /\ cached' = cached
  BY DEF Restart
<1>n. /\ NoPass.stage = "idle" /\ NoPass.left = {}
      /\ DOMAIN NoPass = {"stage", "used", "left", "at"}
  BY DEF NoPass
<1>1. Shape'
  BY <1>p, <1>n DEF Shape
<1>2. InOrder'
  BY <1>p, <1>n DEF InOrder, Completed
<1>3. TakenIsGone' /\ RestIsOlder' /\ OneEvictor'
  BY <1>p, <1>n DEF TakenIsGone, InHand, RestIsOlder, OneEvictor, EvictedBy
<1> QED
  BY <1>1, <1>2, <1>3

(* What is being deleted, or has still a source to unlink, is completed, and the
   latter has left the cache. *)
Leaving ==
  /\ \A d \in deleting : d \in Downloads /\ Completed(d)
  /\ \A d \in moving : d \in Downloads /\ row[d] \in {"library", "gone"}

LEMMA LeavingStep == Inv /\ Leaving /\ [Next]_vars => Leaving'
<1> SUFFICES ASSUME Inv, Leaving, [Next]_vars PROVE Leaving'
  OBVIOUS
<1> USE DEF Leaving, Completed
<1>0. DOMAIN row = Downloads
  BY DEF Inv, Shape
<1>1. ASSUME NEW d \in Downloads, Complete(d) PROVE Leaving'
  BY <1>0, <1>1 DEF Complete
<1>2. ASSUME NEW d \in Downloads, Promote(d) PROVE Leaving'
  BY <1>0, <1>2 DEF Promote, Move, PointRow, UnlinkSource
<1>3. ASSUME NEW d \in Downloads, DeleteFile(d) PROVE Leaving'
  BY <1>0, <1>3 DEF DeleteFile
<1>4. ASSUME NEW d \in Downloads, DeleteRow(d) PROVE Leaving'
  BY <1>0, <1>4 DEF DeleteRow
<1>5. ASSUME NEW d \in Downloads, Reconcile(d) PROVE Leaving'
  BY <1>0, <1>5 DEF Reconcile
<1>6. ASSUME NEW p \in Passes, Ask(p) \/ Sum(p) \/ List(p) \/ Evict(p) PROVE Leaving'
  BY <1>6 DEF Ask, Sum, List, Evict
<1>7. ASSUME NEW p \in Passes, EvictRow(p) PROVE Leaving'
  BY <1>0, <1>7 DEF EvictRow
<1>8. CASE Restart
  BY <1>8 DEF Restart
<1>9. CASE UNCHANGED vars
  BY <1>9 DEF vars
<1> QED
  BY <1>1, <1>2, <1>3, <1>4, <1>5, <1>6, <1>7, <1>8, <1>9 DEF Next, Step

LEMMA InvStep == Inv /\ Leaving /\ [Next]_vars => Inv'
<1> SUFFICES ASSUME Inv, Leaving, [Next]_vars PROVE Inv'
  OBVIOUS
<1>0. DOMAIN row = Downloads
  BY DEF Inv, Shape
<1>1. CASE \E d \in Downloads : Complete(d)
  BY <1>1, CompleteKeepsInv
<1>2. ASSUME NEW d \in Downloads, Promote(d) PROVE Inv'
  <2>1. pass' = pass /\ cached' \subseteq cached
    BY <1>2 DEF Promote, Move, PointRow, UnlinkSource
  <2>2. \/ row' = row
        \/ row[d] = "cache" /\ row' = [row EXCEPT ![d] = "library"]
    BY <1>2 DEF Promote, Move, PointRow, UnlinkSource
  <2> QED
    BY <1>0, <2>1, <2>2, OthersKeepInv
<1>3. ASSUME NEW d \in Downloads, DeleteFile(d) PROVE Inv'
  BY <1>0, <1>3, OthersKeepInv DEF DeleteFile
<1>4. ASSUME NEW d \in Downloads, DeleteRow(d) \/ Reconcile(d) PROVE Inv'
  <2>1. pass' = pass /\ cached' = cached /\ row' = [row EXCEPT ![d] = "gone"]
    BY <1>4 DEF DeleteRow, Reconcile
  <2>2. row[d] # "none"
    BY <1>4 DEF DeleteRow, Reconcile, Leaving, Completed
  <2> QED
    BY <1>0, <2>1, <2>2, OthersKeepInv
<1>5. CASE \E p \in Passes : Ask(p) \/ Step(p)
  BY <1>5, AskKeepsInv, SumKeepsInv, ListKeepsInv, EvictKeepsInv,
       EvictRowKeepsInv DEF Step
<1>6. CASE Restart
  BY <1>6, RestartKeepsInv
<1>7. CASE UNCHANGED vars
  BY <1>0, <1>7, OthersKeepInv DEF vars
<1> QED
  BY <1>1, <1>2, <1>3, <1>4, <1>5, <1>6, <1>7 DEF Next

LEMMA Invariants == Spec => [](Inv /\ Leaving)
<1>1. Init => Leaving
  BY DEF Init, Leaving
<1> QED
  BY <1>1, InitInv, InvStep, LeavingStep, PTL DEF Spec

-----------------------------------------------------------------------------
(* Whatever passes run side by side, a download is evicted by one of them. *)
THEOREM OneEvictorHolds == Spec => []OneEvictor
<1>1. Inv => OneEvictor
  BY DEF Inv
<1> QED
  BY <1>1, Invariants, PTL

(* Only the pass's own unlink puts a download in its hand. *)
LEMMA TakesEvicts ==
  ASSUME Inv, [Next]_vars, NEW p \in Passes, NEW d \in Downloads, Takes(p, d)
  PROVE  d \in Candidates(p, pass[p].left)
<1>0. /\ pass[p].stage = "next" /\ pass'[p].stage = "row" /\ pass'[p].at = d
      /\ DOMAIN pass = Passes
      /\ DOMAIN pass[p] = {"stage", "used", "left", "at"}
  BY DEF Takes, EvictedBy, Inv, Shape
<1>1. ASSUME NEW e \in Downloads, Complete(e) PROVE FALSE
  BY <1>0, <1>1 DEF Complete, Begun
<1>2. ASSUME NEW e \in Downloads,
             Promote(e) \/ DeleteFile(e) \/ DeleteRow(e) \/ Reconcile(e)
      PROVE  FALSE
  BY <1>0, <1>2 DEF Promote, DeleteFile, DeleteRow, Reconcile
<1>3. ASSUME NEW q \in Passes, q # p, Ask(q) \/ Step(q) PROVE FALSE
  <2>1. \E s : pass' = [pass EXCEPT ![q] = s]
    BY <1>3 DEF Ask, Step, Sum, List, Evict, EvictRow, Goto
  <2> QED
    BY <1>0, <1>3, <2>1
<1>4. ~Ask(p) /\ ~Sum(p) /\ ~List(p) /\ ~EvictRow(p)
  <2>1. ~Ask(p)
    <3>1. Ask(p) => pass[p] = NoPass
      BY DEF Ask
    <3>2. NoPass.stage = "idle"
      BY DEF NoPass
    <3> QED
      BY <1>0, <3>1, <3>2
  <2>2. ~Sum(p) /\ ~List(p) /\ ~EvictRow(p)
    BY <1>0 DEF Sum, List, EvictRow
  <2> QED
    BY <2>1, <2>2
<1>5. ~Restart /\ ~UNCHANGED vars
  BY <1>0 DEF Restart, NoPass, vars
<1>6. Evict(p)
  BY <1>1, <1>2, <1>3, <1>4, <1>5 DEF Next, Step
<1>7. ~(pass[p].left = {} \/ Enough(p))
  BY <1>0, <1>6 DEF Evict, Goto, NoPass
<1>8. PICK x \in Candidates(p, pass[p].left) :
        Goto(p, IF CanUnlink(x) THEN Take(p, x)
                ELSE [pass[p] EXCEPT !.left = @ \ {x}])
  BY <1>6, <1>7 DEF Evict
<1>9. CanUnlink(x)
  BY <1>0, <1>8 DEF Goto
<1> QED
  BY <1>0, <1>8, <1>9 DEF Goto, Take

(* A pass takes no file while an older one within its scope is there. *)
THEOREM EvictsOldestFirstHolds == Spec => EvictsOldestFirst
<1>1. Inv /\ [Next]_vars => [OldestFirst]_vars
  <2> SUFFICES ASSUME Inv, [Next]_vars,
                      NEW p \in Passes, NEW d \in Downloads, Takes(p, d), p[1] # "clear",
                      NEW e \in CacheRows(Scope(p)), e < d, e \in cached
               PROVE  FALSE
    BY DEF OldestFirst
  <2>1. d \in pass[p].left /\ \A x \in pass[p].left : d <= x
    BY TakesEvicts DEF Candidates
  <2>2. e \in Downloads
    BY ScopeIsDownloads DEF CacheRows
  <2>3. e \in Nat /\ d \in Nat
    BY <2>2
  <2>4. e \notin pass[p].left
    BY <2>1, <2>3
  <2>5. d < e
    BY <2>1, <2>4 DEF Inv, RestIsOlder, Takes
  <2> QED
    BY <2>3, <2>5
<1> QED
  BY <1>1, Invariants, PTL DEF Spec, EvictsOldestFirst

-----------------------------------------------------------------------------
(* Whoever removed a file has its row still to delete: the remover of a download
   may change, but only a restart makes it forget. *)
Remover(d) == d \in deleting \/ \E p \in Passes : EvictedBy(p, d)
Accounted(d) == HasFile(d) \/ Remover(d)

(* The passes of a download start when it completes. *)
NotBefore ==
  \A p \in Passes : p[1] \in Completion /\ ~Completed(p[2]) => pass[p].stage = "idle"

LEMMA NotBeforeStep == Inv /\ Leaving /\ NotBefore /\ [Next]_vars => NotBefore'
<1> SUFFICES ASSUME Inv, Leaving, NotBefore, [Next]_vars,
                    NEW p \in Passes, p[1] \in Completion, ~Completed(p[2])'
             PROVE  pass'[p].stage = "idle"
  BY DEF NotBefore
<1>0. DOMAIN row = Downloads /\ DOMAIN pass = Passes /\ p[2] \in Downloads
  BY DEF Inv, Shape, Passes, Completion
<1>1. ASSUME NEW d \in Downloads, Complete(d) PROVE pass'[p].stage = "idle"
  <2>1. p[2] # d /\ ~Completed(p[2])
    BY <1>0, <1>1 DEF Complete, Completed
  <2> QED
    BY <1>0, <1>1, <2>1 DEF Complete, NotBefore
<1>2. ~Completed(p[2]) \/ \E d \in Downloads : Complete(d)
  <2>1. ASSUME NEW d \in Downloads,
               Promote(d) \/ DeleteFile(d) \/ DeleteRow(d) \/ Reconcile(d)
        PROVE  ~Completed(p[2])
    BY <1>0, <2>1 DEF Promote, Move, PointRow, UnlinkSource, DeleteFile,
         DeleteRow, Reconcile, Completed
  <2>2. ASSUME NEW q \in Passes, Ask(q) \/ Sum(q) \/ List(q) \/ Evict(q)
        PROVE  ~Completed(p[2])
    BY <2>2 DEF Ask, Sum, List, Evict, Completed
  <2>3. ASSUME NEW q \in Passes, EvictRow(q) PROVE ~Completed(p[2])
    BY <1>0, <2>3 DEF EvictRow, Completed
  <2>4. CASE Restart \/ UNCHANGED vars
    BY <2>4 DEF Restart, vars, Completed
  <2> QED
    BY <2>1, <2>2, <2>3, <2>4 DEF Next, Step
<1>3. CASE ~Completed(p[2])
  <2>1. pass[p].stage = "idle"
    BY <1>3 DEF NotBefore
  <2>2. ~Ask(p)
    BY DEF Ask
  <2>3. ~Step(p)
    BY <2>1 DEF Step, Sum, List, Evict, EvictRow
  <2>4. ASSUME NEW q \in Passes, Ask(q) \/ Step(q) PROVE pass'[p] = pass[p]
    <3>1. \E u : pass' = [pass EXCEPT ![q] = u]
      BY <2>4 DEF Ask, Step, Sum, List, Evict, EvictRow, Goto
    <3> QED
      BY <1>0, <2>2, <2>3, <2>4, <3>1
  <2>5. ASSUME NEW d \in Downloads,
               Promote(d) \/ DeleteFile(d) \/ DeleteRow(d) \/ Reconcile(d)
        PROVE  pass'[p] = pass[p]
    BY <2>5 DEF Promote, DeleteFile, DeleteRow, Reconcile
  <2>6. CASE Restart
    BY <2>6 DEF Restart, NoPass
  <2>7. CASE UNCHANGED vars
    BY <2>1, <2>7 DEF vars
  <2> QED
    BY <1>1, <2>1, <2>4, <2>5, <2>6, <2>7 DEF Next
<1> QED
  BY <1>1, <1>2, <1>3

LEMMA RemoverStep ==
  Inv /\ Leaving /\ NotBefore /\ MissingFilesHaveARemover /\ [Next]_vars
    => MissingFilesHaveARemover'
<1> SUFFICES ASSUME Inv, Leaving, NotBefore, MissingFilesHaveARemover, [Next]_vars,
                    ~restarted', NEW d \in Downloads
             PROVE  Accounted(d)'
  BY DEF MissingFilesHaveARemover, Accounted, Remover
<1>0. DOMAIN row = Downloads /\ DOMAIN pass = Passes
  BY DEF Inv, Shape
<1>1. ~Restart
  BY DEF Restart
<1>2. Accounted(d)
  <2>1. restarted' = restarted
    BY <1>1 DEF Next, Step, Complete, Promote, DeleteFile, DeleteRow,
         Reconcile, Ask, Sum, List, Evict, EvictRow, vars
  <2> QED
    BY <2>1 DEF MissingFilesHaveARemover, Accounted, Remover
<1> USE DEF Accounted, Remover
<1>3. ASSUME NEW e \in Downloads, Complete(e) PROVE Accounted(d)'
  <2>1. CASE d = e
    BY <1>0, <1>3, <2>1 DEF Complete, HasFile
  <2>2. CASE d # e
    <3>1. HasFile(d) => HasFile(d)'
      BY <1>0, <1>3, <2>2 DEF Complete, HasFile
    <3>2. ASSUME NEW p \in Passes, EvictedBy(p, d) PROVE EvictedBy(p, d)'
      <4>1. ~(p[1] \in Completion /\ p[2] = e)
        BY <1>3, <3>2 DEF NotBefore, Completed, Complete, EvictedBy
      <4> QED
        BY <1>3, <3>2, <4>1 DEF Complete, EvictedBy
    <3>3. deleting' = deleting
      BY <1>3 DEF Complete
    <3> QED
      BY <1>2, <3>1, <3>2, <3>3
  <2> QED
    BY <2>1, <2>2
<1>4. ASSUME NEW e \in Downloads, DeleteRow(e) \/ Reconcile(e) PROVE Accounted(d)'
  BY <1>0, <1>2, <1>4 DEF DeleteRow, Reconcile, HasFile, EvictedBy
<1>5. ASSUME NEW e \in Downloads, DeleteFile(e) PROVE Accounted(d)'
  BY <1>0, <1>2, <1>5 DEF DeleteFile, HasFile, EvictedBy
<1>6. ASSUME NEW e \in Downloads, Promote(e) PROVE Accounted(d)'
  <2>1. pass' = pass /\ deleting' = deleting
    BY <1>6 DEF Promote
  <2>2. HasFile(d) => HasFile(d)'
    BY <1>0, <1>6 DEF Promote, Move, PointRow, UnlinkSource, HasFile, Leaving
  <2> QED
    BY <1>2, <2>1, <2>2 DEF EvictedBy
<1>7. ASSUME NEW p \in Passes, Ask(p) \/ Sum(p) \/ List(p) PROVE Accounted(d)'
  <2>1. (HasFile(d) => HasFile(d)') /\ deleting' = deleting
    BY <1>7 DEF Ask, Sum, List, HasFile
  <2>2. ASSUME NEW q \in Passes, EvictedBy(q, d) PROVE EvictedBy(q, d)'
    <3>1. pass[p].stage # "row"
      <4>1. NoPass.stage = "idle"
        BY DEF NoPass
      <4> QED
        BY <1>7, <4>1 DEF Ask, Sum, List
    <3>2. \E u : pass' = [pass EXCEPT ![p] = u]
      BY <1>7 DEF Ask, Sum, List, Goto
    <3> QED
      BY <1>0, <2>2, <3>1, <3>2 DEF EvictedBy
  <2> QED
    BY <1>2, <2>1, <2>2
<1>8. ASSUME NEW p \in Passes, Evict(p) PROVE Accounted(d)'
  <2>1. ASSUME NEW q \in Passes, EvictedBy(q, d) PROVE EvictedBy(q, d)'
    <3>1. p # q /\ \E u : pass' = [pass EXCEPT ![p] = u]
      BY <1>8, <2>1 DEF Evict, Goto, EvictedBy
    <3> QED
      BY <1>0, <2>1, <3>1 DEF EvictedBy
  <2>2. row' = row /\ stored' = stored /\ deleting' = deleting
    BY <1>8 DEF Evict
  <2>3. CASE d \in cached /\ d \notin cached'
    <3>1. pass' = [pass EXCEPT ![p] = Take(p, d)]
      BY <1>8, <2>3 DEF Evict, Goto, CanUnlink
    <3>2. Take(p, d).stage = "row" /\ Take(p, d).at = d
      BY DEF Take
    <3> QED
      BY <1>0, <3>1, <3>2 DEF EvictedBy
  <2>4. CASE ~(d \in cached /\ d \notin cached')
    <3>1. HasFile(d) => HasFile(d)'
      BY <2>2, <2>4 DEF HasFile
    <3> QED
      BY <1>2, <2>1, <2>2, <3>1
  <2> QED
    BY <2>3, <2>4
<1>9. ASSUME NEW p \in Passes, EvictRow(p) PROVE Accounted(d)'
  <2>0. cached' = cached /\ stored' = stored /\ deleting' = deleting
    BY <1>9 DEF EvictRow
  <2>1. CASE d = pass[p].at
    <3>1. row'[d] = "gone"
      BY <1>0, <1>9, <2>1 DEF EvictRow
    <3> QED
      BY <3>1 DEF HasFile
  <2>2. CASE d # pass[p].at
    <3>1. row'[d] = row[d]
      BY <1>0, <1>9, <2>2 DEF EvictRow
    <3>2. \E u : pass' = [pass EXCEPT ![p] = u]
      BY <1>9 DEF EvictRow, Goto
    <3>3. \A q \in Passes : EvictedBy(q, d) => EvictedBy(q, d)'
      BY <1>0, <2>2, <3>2 DEF EvictedBy
    <3>4. HasFile(d) => HasFile(d)'
      BY <2>0, <3>1 DEF HasFile
    <3> QED
      BY <1>2, <2>0, <3>3, <3>4
  <2> QED
    BY <2>1, <2>2
<1>10. CASE UNCHANGED vars
  BY <1>2, <1>10 DEF vars, HasFile, EvictedBy
<1> QED
  BY <1>1, <1>3, <1>4, <1>5, <1>6, <1>7, <1>8, <1>9, <1>10 DEF Next, Step

(* Without a restart no row is left behind without its file: whoever removed the
   file is still there to delete the row. *)
THEOREM MissingFilesHaveARemoverHolds == Spec => []MissingFilesHaveARemover
<1>1. Init => NotBefore /\ MissingFilesHaveARemover
  BY DEF Init, NotBefore, NoPass, MissingFilesHaveARemover, HasFile
<1> QED
  BY <1>1, Invariants, NotBeforeStep, RemoverStep, PTL DEF Spec
-----------------------------------------------------------------------------
(* Whose pass it is. *)
LEMMA SomePass ==
  ASSUME NEW p \in Passes
  PROVE  /\ p[1] \in Completion => p \in Completion \X Downloads /\ p[2] \in Downloads
         /\ PassUser(p) # NoUser => PassUser(p) \in Users
BY OwnerAssumption DEF Passes, Completion, PassUser

(* A pass has a row in hand while it is at it, and never one of its list. *)
PassStates ==
  {s \in [stage : Stages, used : Int, left : SUBSET Downloads,
          at : Downloads \cup {0}] :
     s.at \notin s.left /\ (s.stage # "row" => s.at = 0)}

Sound == pass \in [Passes -> PassStates]

LEMMA StartedStates ==
  /\ NoPass \in PassStates /\ Begun \in PassStates
  /\ [NoPass EXCEPT !.stage = "list"] \in PassStates
  /\ \A S \in SUBSET Downloads :
       [NoPass EXCEPT !.stage = "next", !.left = S] \in PassStates
  /\ \A n \in Int : [NoPass EXCEPT !.stage = "list", !.used = n] \in PassStates
<1>0. 0 \in Int /\ 0 \notin Downloads
  OBVIOUS
<1>1. NoPass \in PassStates /\ Begun \in PassStates
  BY <1>0 DEF NoPass, Begun, PassStates, Stages
<1>2. [NoPass EXCEPT !.stage = "list"] \in PassStates
  BY <1>0 DEF NoPass, PassStates, Stages
<1>3. ASSUME NEW S \in SUBSET Downloads
      PROVE  [NoPass EXCEPT !.stage = "next", !.left = S] \in PassStates
  BY <1>0 DEF NoPass, PassStates, Stages
<1>4. ASSUME NEW n \in Int
      PROVE  [NoPass EXCEPT !.stage = "list", !.used = n] \in PassStates
  BY <1>0 DEF NoPass, PassStates, Stages
<1> QED
  BY <1>1, <1>2, <1>3, <1>4

LEMMA OnePassSound ==
  ASSUME Sound, NEW p \in Passes, NEW s \in PassStates, Goto(p, s) PROVE Sound'
BY DEF Sound, Goto

LEMMA TypeOKStep == Inv /\ Sound /\ TypeOK /\ [Next]_vars => Sound' /\ TypeOK'
<1> SUFFICES ASSUME Inv, Sound, TypeOK, [Next]_vars PROVE Sound' /\ TypeOK'
  OBVIOUS
<1> DEFINE Rest == /\ row \in [Downloads -> {"none", "cache", "library", "gone"}]
                   /\ cached \subseteq Downloads /\ stored \subseteq Downloads
                   /\ moving \subseteq Downloads /\ deleting \subseteq Downloads
                   /\ disturbed \in BOOLEAN /\ restarted \in BOOLEAN
                   /\ mishaps \in Nat
<1>0. Rest
  BY DEF TypeOK
<1>1. ASSUME NEW d \in Downloads, Complete(d) PROVE Sound' /\ Rest'
  BY <1>0, <1>1, StartedStates DEF Complete, Sound
<1>2. ASSUME NEW d \in Downloads, Promote(d) PROVE Sound' /\ Rest'
  <2>1. Sound'
    BY <1>2 DEF Promote, Sound
  <2>2. mishaps' \in Nat /\ disturbed' = disturbed /\ restarted' = restarted
    BY <1>0, <1>2 DEF Promote, Mishap
  <2>3. CASE PointRow(d)
    BY <1>0, <2>1, <1>2, <2>2, <2>3 DEF Promote, PointRow
  <2>4. CASE UnlinkSource(d)
    BY <1>0, <2>1, <1>2, <2>2, <2>4 DEF Promote, UnlinkSource
  <2> QED
    BY <1>2, <2>1, <2>3, <2>4 DEF Promote, Move
<1>3. ASSUME NEW d \in Downloads, DeleteFile(d) \/ DeleteRow(d) \/ Reconcile(d)
      PROVE  Sound' /\ Rest'
  <2>1. Sound'
    BY <1>3 DEF DeleteFile, DeleteRow, Reconcile, Sound
  <2>2. CASE DeleteFile(d)
    <3>1. cached' \subseteq cached /\ stored' \subseteq stored /\ mishaps' = mishaps + 1
      BY <2>2 DEF DeleteFile, Mishap
    <3> QED
      BY <1>0, <2>1, <2>2, <3>1 DEF DeleteFile
  <2>3. CASE DeleteRow(d)
    BY <1>0, <2>1, <2>3 DEF DeleteRow
  <2>4. CASE Reconcile(d)
    BY <1>0, <2>1, <2>4 DEF Reconcile
  <2> QED
    BY <1>3, <2>1, <2>2, <2>3, <2>4
<1>4. ASSUME NEW p \in Passes, Ask(p) PROVE Sound' /\ Rest'
  <2>1. Rest'
    BY <1>0, <1>4 DEF Ask
  <2>2. ASSUME NEW S \in SUBSET Downloads,
               Goto(p, [NoPass EXCEPT !.stage = "next", !.left = CacheRows(S)])
        PROVE  Sound'
    <3>1. CacheRows(S) \in SUBSET Downloads
      BY DEF CacheRows
    <3> QED
      BY <2>2, <3>1, StartedStates, OnePassSound
  <2>3. \A S \in {Downloads} \cup {OwnedBy(u) : u \in Users} : S \in SUBSET Downloads
    BY DEF OwnedBy
  <2> QED
    BY <1>4, <2>1, <2>2, <2>3, StartedStates, OnePassSound DEF Ask
<1>5. ASSUME NEW p \in Passes, Sum(p) PROVE Sound' /\ Rest'
  <2>1. Rest'
    BY <1>0, <1>5 DEF Sum
  <2>2. CacheRows(Scope(p)) \in SUBSET Downloads
    BY ScopeIsDownloads DEF CacheRows
  <2>3. Used(Scope(p)) \in Int
    BY <2>2, BytesNat DEF Used
  <2> QED
    BY <1>5, <2>1, <2>3, StartedStates, OnePassSound DEF Sum
<1>6. ASSUME NEW p \in Passes, List(p) PROVE Sound' /\ Rest'
  <2>1. Rest'
    BY <1>0, <1>6 DEF List
  <2>2. CacheRows(Scope(p)) \in SUBSET Downloads
    BY ScopeIsDownloads DEF CacheRows
  <2>3. pass[p] \in PassStates /\ pass[p].stage = "list"
    BY <1>6 DEF List, Sound
  <2>4. [pass[p] EXCEPT !.stage = "next", !.left = CacheRows(Scope(p))] \in PassStates
    BY <2>2, <2>3 DEF PassStates, Stages
  <2> QED
    BY <1>6, <2>1, <2>4, OnePassSound DEF List
<1>7. ASSUME NEW p \in Passes, Evict(p) PROVE Sound' /\ Rest'
  <2>1. Rest'
    BY <1>0, <1>7 DEF Evict
  <2>2. pass[p] \in PassStates /\ pass[p].stage = "next"
    BY <1>7 DEF Evict, Sound
  <2>3. ASSUME NEW d \in Candidates(p, pass[p].left)
        PROVE  /\ Take(p, d) \in PassStates
               /\ [pass[p] EXCEPT !.left = @ \ {d}] \in PassStates
    <3>1. d \in Downloads /\ pass[p].left \subseteq Downloads
      BY <2>2 DEF Candidates, PassStates
    <3> QED
      BY <2>2, <3>1 DEF Take, PassStates, Stages
  <2> QED
    BY <1>7, <2>1, <2>3, StartedStates, OnePassSound DEF Evict
<1>8. ASSUME NEW p \in Passes, EvictRow(p) PROVE Sound' /\ Rest'
  <2>0. pass[p] \in PassStates /\ pass[p].stage = "row" /\ pass[p].at \in Downloads
    BY <1>8 DEF EvictRow, Sound, Inv, TakenIsGone, InHand
  <2>1. Rest'
    BY <1>0, <1>8, <2>0 DEF EvictRow
  <2>2. pass[p].used \in Int /\ Size[pass[p].at] \in Nat
    BY <2>0, SizeAssumption DEF PassStates
  <2>3. ASSUME NEW n \in Int
        PROVE  [pass[p] EXCEPT !.stage = "next", !.at = 0, !.used = n] \in PassStates
    BY <2>0 DEF PassStates, Stages
  <2>4. CASE row[pass[p].at] = "gone"
    BY <1>8, <2>1, <2>4, StartedStates, OnePassSound DEF EvictRow
  <2>5. CASE row[pass[p].at] # "gone"
    <3> DEFINE n == IF p[1] \in {"disk", "clear"} THEN 0
                    ELSE pass[p].used - Size[pass[p].at]
    <3>1. n \in Int
      BY <2>2
    <3>2. Goto(p, [pass[p] EXCEPT !.stage = "next", !.at = 0, !.used = n])
      BY <1>8, <2>5 DEF EvictRow
    <3> HIDE DEF n
    <3> QED
      BY <2>1, <2>3, <3>1, <3>2, OnePassSound
  <2> QED
    BY <2>4, <2>5
<1>9. ASSUME Restart PROVE Sound' /\ Rest'
  <2>1. Sound'
    BY <1>9, StartedStates DEF Restart, Sound
  <2>2. Rest'
    BY <1>0, <1>9 DEF Restart, Mishap
  <2> QED
    BY <2>1, <2>2
<1>10. ASSUME UNCHANGED vars PROVE Sound' /\ Rest'
  BY <1>0, <1>10 DEF vars, Sound
<1>11. Sound' /\ Rest'
  BY <1>1, <1>2, <1>3, <1>4, <1>5, <1>6, <1>7, <1>8, <1>9, <1>10 DEF Next, Step
<1> QED
  BY <1>11 DEF TypeOK, Sound, PassStates

LEMMA InitSound == Init => Sound /\ TypeOK
<1> SUFFICES ASSUME Init PROVE Sound /\ TypeOK
  OBVIOUS
<1>1. Sound
  BY StartedStates DEF Init, Sound
<1>2. Sound => /\ pass \in [Passes -> [stage : Stages, used : Int,
                            left : SUBSET Downloads, at : Downloads \cup {0}]]
               /\ \A p \in Passes : pass[p].at \notin pass[p].left
  BY DEF Sound, PassStates
<1> QED
  BY <1>1, <1>2 DEF Init, TypeOK

(* The variables stay within their types; a tally is an integer, as it is a sum
   of sizes less sizes. *)
THEOREM TypeOKHolds == Spec => []TypeOK
BY InitSound, Invariants, TypeOKStep, PTL DEF Spec

-----------------------------------------------------------------------------
(* What a pass begun by a completion still holds on its list or in hand, of what
   was there when it summed: its tally covers that, until there is none left. *)
Counted(p) ==
  {d \in Downloads : d <= p[2] /\
     IF pass[p].stage = "list" THEN d \in CacheRows(Scope(p))
     ELSE d \in pass[p].left \/ (pass[p].stage = "row" /\ d = pass[p].at)}

Covered(p) ==
  /\ pass[p].stage # "idle" => Completed(p[2])
  /\ pass[p].stage \in {"next", "row"} => Leaves(p) \subseteq pass[p].left
  /\ pass[p].stage \in {"list", "next", "row"} =>
       Counted(p) = {} \/ Bytes(Counted(p)) <= pass[p].used
  /\ pass[p].stage = "row" => \A d \in pass[p].left : pass[p].at < d

AllCovered == \A p \in Completion \X Downloads : Covered(p)

LEMMA CoveredSets ==
  ASSUME NEW p \in Completion \X Downloads
  PROVE  /\ p \in Passes /\ p[2] \in Downloads /\ p[1] # "clear"
         /\ Counted(p) \subseteq Downloads /\ Leaves(p) \subseteq Downloads
BY ScopeIsDownloads DEF Passes, Completion, Counted, Leaves, CacheRows

(* A pass at rest stays covered when rows and files only go. *)
LEMMA RestingStaysCovered ==
  ASSUME Inv, NEW p \in Completion \X Downloads, Covered(p), pass'[p] = pass[p],
         pass[p].used \in Int, cached' \subseteq cached,
         \A d \in Downloads : /\ row'[d] = "cache" => row[d] = "cache"
                              /\ row'[d] = "none" => row[d] = "none"
  PROVE  Covered(p)'
<1>0. /\ p[2] \in Downloads /\ Counted(p) \subseteq Downloads
      /\ Scope(p) \subseteq Downloads
  BY CoveredSets, ScopeIsDownloads
<1>1. Counted(p)' \subseteq Counted(p) /\ Leaves(p)' \subseteq Leaves(p)
  BY <1>0 DEF Counted, Leaves, CacheRows
<1>2. Bytes(Counted(p)') <= Bytes(Counted(p)) /\ Bytes(Counted(p)') \in Nat
      /\ Bytes(Counted(p)) \in Nat
  BY <1>0, <1>1, BytesMonotonic, BytesNat
<1>3. Completed(p[2]) => Completed(p[2])'
  BY <1>0 DEF Completed
<1> QED
  BY <1>1, <1>2, <1>3 DEF Covered

(* A completion is later than whatever the passes already running count. *)
LEMMA CompleteKeepsCovered ==
  ASSUME Inv, Sound, AllCovered, NEW d \in Downloads, Complete(d)
  PROVE  AllCovered'
<1> SUFFICES ASSUME NEW p \in Completion \X Downloads PROVE Covered(p)'
  BY DEF AllCovered
<1>0. /\ row[d] = "none" /\ row' = [row EXCEPT ![d] = "cache"]
      /\ cached' = cached \cup {d} /\ DOMAIN row = Downloads
      /\ pass' = [q \in Passes |-> IF q[1] \in Completion \cap Kinds /\ q[2] = d
                                   THEN Begun ELSE pass[q]]
      /\ Covered(p)
  BY DEF Complete, Inv, Shape, AllCovered
<1>p. /\ p \in Passes /\ p[2] \in Downloads
      /\ Scope(p) \subseteq Downloads
  BY CoveredSets, ScopeIsDownloads
<1>1. CASE pass'[p] = Begun /\ p[2] = d
  <2>1. Begun.stage = "sum"
    BY DEF Begun
  <2> QED
    BY <1>0, <1>1, <1>p, <2>1 DEF Covered, Completed
<1>2. CASE pass'[p] = pass[p]
  <2>1. CASE pass[p].stage = "idle"
    BY <1>2, <2>1 DEF Covered
  <2>2. CASE pass[p].stage # "idle"
    <3>1. Completed(p[2]) /\ ~Completed(d)
      BY <1>0, <2>2 DEF Covered, Completed
    <3>2. d # p[2] /\ ~(d < p[2])
      BY <1>p, <3>1 DEF Inv, InOrder
    <3>3. ~(d <= p[2])
      <4>1. d \in Nat /\ p[2] \in Nat
        BY <1>p, DownloadsAssumption
      <4> QED
        BY <3>2, <4>1
    <3>4. \A e \in Downloads :
            e <= p[2] => row'[e] = row[e] /\ (e \in cached' <=> e \in cached)
      BY <1>0, <3>3
    <3>5. Counted(p)' = Counted(p)
      BY <1>2, <1>p, <3>4 DEF Counted, CacheRows
    <3>6. Leaves(p)' = Leaves(p)
      BY <1>p, <3>4 DEF Leaves, CacheRows
    <3>7. Completed(p[2])'
      BY <1>0, <1>p, <3>1 DEF Completed
    <3> QED
      BY <1>0, <1>2, <3>5, <3>6, <3>7 DEF Covered
  <2> QED
    BY <2>1, <2>2
<1> QED
  BY <1>0, <1>1, <1>2, <1>p

(* What the pass that steps does to its own tally. *)
LEMMA SumCovers ==
  ASSUME Inv, NEW p \in Completion \X Downloads, Covered(p), Sum(p)
  PROVE  Covered(p)'
<1>0. /\ p \in Passes /\ DOMAIN pass = Passes /\ row' = row /\ cached' = cached
      /\ pass[p].stage = "sum"
  BY CoveredSets DEF Inv, Shape, Sum
<1> DEFINE s == IF Used(Scope(p)) <= Quota(p) THEN NoPass
                ELSE [NoPass EXCEPT !.stage = "list", !.used = Used(Scope(p))]
<1>1. pass'[p] = s
  BY <1>0 DEF Sum, Goto
<1>2. Completed(p[2])'
  BY <1>0 DEF Covered, Completed
<1>3. CASE Used(Scope(p)) <= Quota(p)
  <2>1. pass'[p].stage = "idle"
    BY <1>1, <1>3 DEF NoPass
  <2> QED
    BY <2>1 DEF Covered
<1>4. CASE ~(Used(Scope(p)) <= Quota(p))
  <2>1. pass'[p].stage = "list" /\ pass'[p].used = Used(Scope(p))
    BY <1>1, <1>4
  <2>2. /\ Counted(p)' \subseteq CacheRows(Scope(p))
        /\ CacheRows(Scope(p)) \subseteq Downloads
    BY <1>0, <2>1, ScopeIsDownloads DEF Counted, CacheRows
  <2>3. Bytes(Counted(p)') <= pass'[p].used
    BY <2>1, <2>2, BytesMonotonic DEF Used
  <2> QED
    BY <1>2, <2>1, <2>3 DEF Covered
<1> QED
  BY <1>3, <1>4

LEMMA ListCovers ==
  ASSUME Inv, NEW p \in Completion \X Downloads, Covered(p), List(p)
  PROVE  Covered(p)'
<1>0. /\ p \in Passes /\ DOMAIN pass = Passes /\ row' = row /\ cached' = cached
      /\ pass[p].stage = "list"
      /\ DOMAIN pass[p] = {"stage", "used", "left", "at"}
  BY CoveredSets DEF Inv, Shape, List
<1>1. /\ pass'[p].stage = "next" /\ pass'[p].left = CacheRows(Scope(p))
      /\ pass'[p].used = pass[p].used
  BY <1>0 DEF List, Goto
<1>2. Counted(p)' = Counted(p)
  BY <1>0, <1>1 DEF Counted
<1>3. Leaves(p)' \subseteq CacheRows(Scope(p))
  BY <1>0 DEF Leaves, CacheRows
<1>4. Completed(p[2])'
  BY <1>0 DEF Covered, Completed
<1> QED
  BY <1>0, <1>1, <1>2, <1>3, <1>4 DEF Covered

LEMMA EvictCovers ==
  ASSUME Inv, Sound, NEW p \in Completion \X Downloads, Covered(p), Evict(p)
  PROVE  Covered(p)'
<1>0. /\ p \in Passes /\ DOMAIN pass = Passes /\ row' = row
      /\ pass[p].stage = "next"
      /\ DOMAIN pass[p] = {"stage", "used", "left", "at"}
      /\ pass[p].left \subseteq Downloads /\ pass[p].used \in Int
      /\ p[1] # "clear"
  BY CoveredSets DEF Evict, Sound, PassStates
<1>1. Completed(p[2])'
  BY <1>0 DEF Covered, Completed
<1>2. CASE pass'[p] = NoPass
  <2>1. pass'[p].stage = "idle"
    BY <1>2 DEF NoPass
  <2> QED
    BY <2>1 DEF Covered
<1>3. CASE pass'[p] # NoPass
  <2>1. PICK d \in Candidates(p, pass[p].left) :
          /\ Goto(p, IF CanUnlink(d) THEN Take(p, d)
                     ELSE [pass[p] EXCEPT !.left = @ \ {d}])
          /\ cached' = cached \ {d}
    BY <1>0, <1>3 DEF Evict, Goto
  <2>2. d \in pass[p].left /\ \A e \in pass[p].left : d <= e
    BY <1>0 DEF Candidates
  <2>3. /\ pass'[p].left = pass[p].left \ {d} /\ pass'[p].used = pass[p].used
        /\ \/ pass'[p].stage = "row" /\ pass'[p].at = d
           \/ pass'[p].stage = "next"
    BY <1>0, <2>1 DEF Goto, Take
  <2>4. Leaves(p)' \subseteq Leaves(p) \ {d}
    BY <1>0, <2>1 DEF Leaves, CacheRows
  <2>5. Leaves(p)' \subseteq pass'[p].left
    BY <1>0, <2>3, <2>4 DEF Covered
  <2>6. Counted(p)' \subseteq Counted(p) /\ Counted(p) \subseteq Downloads
    BY <1>0, <2>2, <2>3 DEF Counted
  <2>7. /\ Bytes(Counted(p)') <= Bytes(Counted(p))
        /\ Bytes(Counted(p)') \in Nat /\ Bytes(Counted(p)) \in Nat
    BY <2>6, BytesMonotonic, BytesNat
  <2>8. Counted(p)' = {} \/ Bytes(Counted(p)') <= pass'[p].used
    BY <1>0, <2>3, <2>6, <2>7 DEF Covered
  <2>9. pass'[p].stage = "row" => \A e \in pass'[p].left : pass'[p].at < e
    <3> SUFFICES ASSUME pass'[p].stage = "row", NEW e \in pass'[p].left
                 PROVE  d < e
      BY <2>3
    <3>1. d <= e /\ d # e /\ d \in Nat /\ e \in Nat
      BY <1>0, <2>2, <2>3, DownloadsAssumption
    <3> QED
      BY <3>1
  <2> QED
    BY <1>1, <2>3, <2>5, <2>8, <2>9 DEF Covered
<1> QED
  BY <1>2, <1>3

(* The row in hand: what its tally loses it no longer counts, and a row younger
   than the pass is only in hand when the pass counts nothing any more. *)
LEMMA EvictRowCovers ==
  ASSUME Inv, Sound, NEW p \in Completion \X Downloads, Covered(p), EvictRow(p)
  PROVE  Covered(p)'
<1>0. /\ p \in Passes /\ DOMAIN pass = Passes /\ cached' = cached
      /\ pass[p].stage = "row" /\ DOMAIN row = Downloads
      /\ DOMAIN pass[p] = {"stage", "used", "left", "at"}
      /\ pass[p].left \subseteq Downloads /\ pass[p].used \in Int
      /\ pass[p].at \notin pass[p].left
      /\ p[1] \notin {"disk", "clear"} /\ p[2] \in Downloads
  BY CoveredSets DEF Inv, Shape, EvictRow, Sound, PassStates, Completion
<1> DEFINE d == pass[p].at
<1>d. d \in Downloads /\ row[d] # "none"
  BY <1>0 DEF Inv, TakenIsGone, InHand, Completed
<1>1. Completed(p[2])'
  BY <1>0 DEF Covered, Completed, EvictRow
<1>2. CASE row[d] = "gone"
  <2>1. pass'[p].stage = "idle"
    BY <1>0, <1>2 DEF EvictRow, Goto, NoPass
  <2> QED
    BY <2>1 DEF Covered
<1>3. CASE row[d] # "gone"
  <2>1. /\ row' = [row EXCEPT ![d] = "gone"]
        /\ pass'[p].stage = "next" /\ pass'[p].left = pass[p].left
        /\ pass'[p].used = pass[p].used - Size[d]
    <3> DEFINE s == [pass[p] EXCEPT !.stage = "next", !.at = 0,
                                    !.used = pass[p].used - Size[d]]
    <3>1. row' = [row EXCEPT ![d] = "gone"] /\ pass' = [pass EXCEPT ![p] = s]
      BY <1>0, <1>3 DEF EvictRow, Goto
    <3> QED
      BY <1>0, <3>1
  <2>2. Leaves(p)' \subseteq Leaves(p)
    BY <1>0, <1>d, <2>1 DEF Leaves, CacheRows
  <2>3. Leaves(p)' \subseteq pass'[p].left
    BY <1>0, <2>1, <2>2 DEF Covered
  <2>4. Counted(p)' = Counted(p) \ {d} /\ Counted(p) \subseteq Downloads
    BY <1>0, <2>1 DEF Counted
  <2>5. CASE d <= p[2]
    <3>1. d \in Counted(p)
      BY <1>0, <1>d, <2>5 DEF Counted
    <3>2. Bytes(Counted(p)) = Size[d] + Bytes(Counted(p)')
      BY <2>4, <3>1, BytesWithout
    <3>3. Size[d] \in Nat /\ Bytes(Counted(p)') \in Nat
      BY <1>d, <2>4, SizeAssumption, BytesNat
    <3>4. Bytes(Counted(p)) <= pass[p].used
      BY <1>0, <3>1 DEF Covered
    <3>5. Bytes(Counted(p)') <= pass'[p].used
      <4> HIDE DEF d
      <4> QED
        BY <1>0, <2>1, <3>2, <3>3, <3>4
    <3> QED
      BY <1>1, <2>1, <2>3, <3>5 DEF Covered
  <2>6. CASE ~(d <= p[2])
    <3>1. \A e \in pass[p].left : ~(e <= p[2])
      <4> SUFFICES ASSUME NEW e \in pass[p].left PROVE ~(e <= p[2])
        OBVIOUS
      <4>1. d < e
        BY <1>0 DEF Covered
      <4>2. d \in Nat /\ e \in Nat /\ p[2] \in Nat
        BY <1>0, <1>d, DownloadsAssumption
      <4> HIDE DEF d
      <4> QED
        BY <2>6, <4>1, <4>2
    <3>2. Counted(p)' = {}
      BY <1>0, <2>1, <3>1 DEF Counted
    <3> QED
      BY <1>1, <2>1, <2>3, <3>2 DEF Covered
  <2> QED
    BY <2>5, <2>6
<1> QED
  BY <1>2, <1>3

LEMMA CoveredStep ==
  Inv /\ Leaving /\ Sound /\ AllCovered /\ [Next]_vars => AllCovered'
<1> SUFFICES ASSUME Inv, Leaving, Sound, AllCovered, [Next]_vars PROVE AllCovered'
  OBVIOUS
<1>0. DOMAIN row = Downloads /\ DOMAIN pass = Passes
  BY DEF Inv, Shape
<1>a. ASSUME NEW p \in Completion \X Downloads PROVE Covered(p) /\ pass[p].used \in Int
  BY CoveredSets DEF AllCovered, Sound, PassStates
<1>r. ASSUME NEW p \in Completion \X Downloads, pass'[p] = pass[p],
             cached' \subseteq cached,
             \A d \in Downloads : /\ row'[d] = "cache" => row[d] = "cache"
                                  /\ row'[d] = "none" => row[d] = "none"
      PROVE  Covered(p)'
  BY <1>a, <1>r, RestingStaysCovered
<1>1. ASSUME NEW d \in Downloads, Complete(d) PROVE AllCovered'
  BY <1>1, CompleteKeepsCovered
<1>2. ASSUME NEW d \in Downloads,
             Promote(d) \/ DeleteFile(d) \/ DeleteRow(d) \/ Reconcile(d)
      PROVE  AllCovered'
  <2>1. pass' = pass
    BY <1>2 DEF Promote, DeleteFile, DeleteRow, Reconcile
  <2>2. cached' \subseteq cached
    BY <1>2 DEF Promote, Move, PointRow, UnlinkSource, DeleteFile, DeleteRow,
         Reconcile
  <2>3. row' = row \/ \E v \in {"library", "gone"} : row' = [row EXCEPT ![d] = v]
    BY <1>2 DEF Promote, Move, PointRow, UnlinkSource, DeleteFile, DeleteRow,
         Reconcile
  <2> QED
    BY <1>0, <1>r, <2>1, <2>2, <2>3 DEF AllCovered
<1>3. ASSUME NEW q \in Passes, Ask(q) \/ Step(q) PROVE AllCovered'
  <2> SUFFICES ASSUME NEW p \in Completion \X Downloads PROVE Covered(p)'
    BY DEF AllCovered
  <2>0. p \in Passes /\ p[1] \in Completion
    BY CoveredSets
  <2>1. CASE p = q
    <3>1. ~Ask(p)
      BY <2>0 DEF Ask
    <3> QED
      BY <1>3, <1>a, <2>1, <3>1, SumCovers, ListCovers, EvictCovers,
           EvictRowCovers DEF Step
  <2>2. CASE p # q
    <3>1. \E s : pass' = [pass EXCEPT ![q] = s]
      BY <1>3 DEF Ask, Step, Sum, List, Evict, EvictRow, Goto
    <3>2. pass'[p] = pass[p]
      BY <1>0, <2>0, <2>2, <3>1
    <3>3. cached' \subseteq cached
      BY <1>3 DEF Ask, Step, Sum, List, Evict, EvictRow
    <3>4. \A d \in Downloads : row'[d] = row[d] \/ row'[d] = "gone"
      BY <1>0, <1>3 DEF Ask, Step, Sum, List, Evict, EvictRow
    <3> QED
      BY <1>r, <3>2, <3>3, <3>4
  <2> QED
    BY <2>1, <2>2
<1>4. ASSUME Restart PROVE AllCovered'
  <2> SUFFICES ASSUME NEW p \in Completion \X Downloads PROVE Covered(p)'
    BY DEF AllCovered
  <2>1. pass'[p].stage = "idle"
    BY <1>4, CoveredSets DEF Restart, NoPass
  <2> QED
    BY <2>1 DEF Covered
<1>5. ASSUME UNCHANGED vars PROVE AllCovered'
  BY <1>r, <1>5 DEF vars, AllCovered
<1> QED
  BY <1>1, <1>2, <1>3, <1>4, <1>5 DEF Next

(* A pass begun by a completion stops within its quota, counting the files that
   were in the cache when it began and still are, whatever else has evicted,
   promoted, deleted or completed since its sum. *)
THEOREM StopsWithinQuotaHolds == Spec => []StopsWithinQuota
<1>1. Init => AllCovered
  <2>1. NoPass.stage = "idle"
    BY DEF NoPass
  <2> QED
    BY <2>1, CoveredSets DEF Init, AllCovered, Covered
<1>2. Sound /\ AllCovered => StopsWithinQuota
  <2> SUFFICES ASSUME Sound, AllCovered, NEW p \in Completion \X Downloads, Stops(p)
               PROVE  Bytes(Leaves(p)) <= Quota(p)
    BY DEF StopsWithinQuota
  <2>0. /\ Covered(p) /\ pass[p].stage = "next" /\ pass[p].used \in Int
        /\ Leaves(p) \subseteq pass[p].left /\ Leaves(p) \subseteq Downloads
    BY CoveredSets DEF AllCovered, Covered, Stops, Sound, PassStates
  <2>q. Quota(p) \in Nat
    BY SomePass, CoveredSets, QuotaAssumption DEF Quota, EffectiveCacheQuota
  <2>1. CASE Leaves(p) = {}
    BY <2>1, <2>q, BytesEmpty
  <2>2. CASE Leaves(p) # {}
    <3>1. Enough(p)
      BY <2>0, <2>2 DEF Stops
    <3>2. pass[p].used <= Quota(p)
      BY <3>1 DEF Enough, Completion
    <3>3. Leaves(p) \subseteq Counted(p) /\ Counted(p) \subseteq Downloads
      BY <2>0 DEF Counted, Leaves
    <3>4. Bytes(Counted(p)) <= pass[p].used
      BY <2>0, <2>2, <3>3 DEF Covered
    <3>5. /\ Bytes(Leaves(p)) <= Bytes(Counted(p))
          /\ Bytes(Leaves(p)) \in Nat /\ Bytes(Counted(p)) \in Nat
      BY <3>3, BytesMonotonic, BytesNat
    <3> QED
      BY <2>0, <2>q, <3>2, <3>4, <3>5
  <2> QED
    BY <2>1, <2>2
<1>3. Init => Sound /\ TypeOK
  BY InitSound
<1> QED
  BY <1>1, <1>2, <1>3, Invariants, TypeOKStep, CoveredStep, PTL DEF Spec
=============================================================================
