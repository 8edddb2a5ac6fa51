------------------------- MODULE ObservationProofs -------------------------
(* What following links may lead to, for any worktrees, scopes and edits;    *)
(* what a comparison reports, of any two states; and what absence means.     *)
(*                                                                           *)
(* The editor keeps a worktree well-formed; what is listed in a frame is     *)
(* there until somebody edits; and what a visit has found out holds, or      *)
(* enough edits have been made since.  Of resolving a path with links, a     *)
(* recursion, nothing is used but that a path without links is its own.      *)
(*                                                                           *)
(* The merge has reported what it passed, in order; a tracker has dropped    *)
(* only what can reach no path to come, since what a prefix of a path sorts  *)
(* before lies between; and changes with places of their own can be sorted.  *)
(*                                                                           *)
(* A walk through real directories has met whatever stays where it is, or a  *)
(* frame still lists the way there; so nothing of it is called absent.       *)
EXTENDS Observation, FiniteSetTheorems, SequenceTheorems, TLAPS

(* The names in a worktree, and with the ones the model gives to its roots.  *)
Strings == STRING
Names == Strings \cup {"p", "o"}
Path == Seq(Names)

-----------------------------------------------------------------------------
(* Paths.                                                                    *)
LEMMA SeqGrows ==
    ASSUME NEW S, NEW T, S \subseteq T
    PROVE  Seq(S) \subseteq Seq(T)
<1> SUFFICES ASSUME NEW s \in Seq(S) PROVE s \in Seq(T)
  OBVIOUS
<1>1. Len(s) \in Nat /\ s \in [1..Len(s) -> S]
  BY LenProperties
<1>2. s \in [1..Len(s) -> T]
  BY <1>1
<1> QED
  BY <1>1, <1>2, SeqDef

LEMMA PartOfPath ==
    ASSUME NEW p \in Path, NEW i \in 0..Len(p)
    PROVE  /\ SubSeq(p, 1, i) \in Path /\ Len(SubSeq(p, 1, i)) = i
           /\ \A k \in 1..i : SubSeq(p, 1, i)[k] = p[k]
<1>1. \A k \in 1..i : p[k] \in Names
  BY DEF Path
<1> QED
  BY <1>1, SubSeqProperties DEF Path

LEMMA PrefixIs ==
    ASSUME NEW p \in Path, NEW s \in Path
    PROVE  Walk!IsPrefix(p, s) <=> Len(p) <= Len(s) /\ \A k \in 1..Len(p) : p[k] = s[k]
<1>1. CASE Len(p) <= Len(s)
  <2>1. Len(p) \in 0..Len(p) /\ Len(p) \in 0..Len(s)
    BY <1>1 DEF Path
  <2>2. /\ SubSeq(p, 1, Len(p)) \in Path /\ Len(SubSeq(p, 1, Len(p))) = Len(p)
        /\ \A k \in 1..Len(p) : SubSeq(p, 1, Len(p))[k] = p[k]
    BY <2>1, PartOfPath
  <2>3. /\ SubSeq(s, 1, Len(p)) \in Path /\ Len(SubSeq(s, 1, Len(p))) = Len(p)
        /\ \A k \in 1..Len(p) : SubSeq(s, 1, Len(p))[k] = s[k]
    BY <2>1, PartOfPath
  <2>4. ASSUME \A k \in 1..Len(p) : p[k] = s[k] PROVE SubSeq(p, 1, Len(p)) = SubSeq(s, 1, Len(p))
    BY <2>2, <2>3, <2>4, SeqEqual DEF Path
  <2>5. ASSUME SubSeq(p, 1, Len(p)) = SubSeq(s, 1, Len(p)) PROVE \A k \in 1..Len(p) : p[k] = s[k]
    BY <2>2, <2>3, <2>5
  <2> QED
    BY <1>1, <2>4, <2>5 DEF Walk!IsPrefix
<1>2. CASE ~(Len(p) <= Len(s))
  BY <1>2 DEF Walk!IsPrefix
<1> QED
  BY <1>1, <1>2

LEMMA FrontIs ==
    ASSUME NEW p \in Path, p # <<>>
    PROVE  /\ Walk!Front(p) \in Path /\ Len(Walk!Front(p)) = Len(p) - 1 /\ Len(p) >= 1
           /\ \A k \in 1..(Len(p) - 1) : Walk!Front(p)[k] = p[k]
           /\ Walk!Last(p) \in Names /\ Walk!Last(p) = p[Len(p)]
           /\ Append(Walk!Front(p), Walk!Last(p)) = p
<1>1. Len(p) \in Nat \ {0} /\ Len(p) - 1 \in 0..Len(p)
  BY EmptySeq DEF Path
<1>2. /\ Walk!Front(p) \in Path /\ Len(Walk!Front(p)) = Len(p) - 1
      /\ \A k \in 1..(Len(p) - 1) : Walk!Front(p)[k] = p[k]
  BY <1>1, PartOfPath DEF Walk!Front
<1>3. Walk!Last(p) \in Names /\ Walk!Last(p) = p[Len(p)]
  BY <1>1 DEF Walk!Last, Path
<1>4. Append(Walk!Front(p), Walk!Last(p)) = p
  <2> DEFINE f == Walk!Front(p)  l == Walk!Last(p)
  <2>1. f \in Seq(Names) /\ l \in Names /\ Len(f) = Len(p) - 1 /\ \A k \in 1..Len(f) : f[k] = p[k]
    BY <1>1, <1>2, <1>3 DEF Path
  <2>2. l = p[Len(f) + 1]
    BY <1>1, <1>2, <1>3
  <2> HIDE DEF f, l
  <2>3. /\ Append(f, l) \in Seq(Names) /\ Len(Append(f, l)) = Len(f) + 1
        /\ \A k \in 1..Len(f) : Append(f, l)[k] = f[k]
        /\ Append(f, l)[Len(f) + 1] = l
    BY <2>1, AppendProperties
  <2>4. Len(Append(f, l)) = Len(p) /\ \A k \in 1..Len(Append(f, l)) : Append(f, l)[k] = p[k]
    BY <1>1, <2>1, <2>2, <2>3
  <2>5. Append(f, l) = p
    BY <2>3, <2>4, SeqEqual DEF Path
  <2> QED
    BY <2>5 DEF f, l
<1> QED
  BY <1>1, <1>2, <1>3, <1>4

LEMMA Longer ==
    ASSUME NEW p \in Path, NEW n \in Names
    PROVE  /\ Append(p, n) \in Path /\ Append(p, n) # <<>> /\ Len(Append(p, n)) = Len(p) + 1
           /\ \A k \in 1..Len(p) : Append(p, n)[k] = p[k]
           /\ Walk!Front(Append(p, n)) = p /\ Walk!Last(Append(p, n)) = n
<1> DEFINE q == Append(p, n)
<1>1. /\ q \in Path /\ q # <<>> /\ Len(q) = Len(p) + 1
      /\ \A k \in 1..Len(p) : q[k] = p[k]
      /\ q[Len(p) + 1] = n /\ Len(p) \in Nat
  BY AppendProperties DEF Path
<1> HIDE DEF q
<1>2. Walk!Last(q) = n
  BY <1>1 DEF Walk!Last
<1>3. Walk!Front(q) = p
  <2>1. /\ Walk!Front(q) \in Path /\ Len(Walk!Front(q)) = Len(p)
        /\ \A k \in 1..Len(p) : Walk!Front(q)[k] = p[k]
    BY <1>1, FrontIs
  <2> QED
    BY <2>1, SeqEqual DEF Path
<1> QED
  BY <1>1, <1>2, <1>3 DEF q

LEMMA RootIs ==
    /\ Walk!Root \in Path /\ Len(Walk!Root) = 1 /\ Walk!Root # <<>> /\ <<"o">> \in Path
    /\ \A p \in Path : Walk!WithinRoot(p) <=> Len(p) >= 1 /\ p[1] = Walk!Root[1]
<1>1. Walk!Root \in Path /\ Len(Walk!Root) = 1 /\ Walk!Root # <<>> /\ <<"o">> \in Path
  <2>1. "p" \in Names /\ "o" \in Names
    BY Zenon DEF Names
  <2> QED
    BY <2>1 DEF Walk!Root, Path
<1>2. ASSUME NEW p \in Path PROVE Walk!WithinRoot(p) <=> Len(p) >= 1 /\ p[1] = Walk!Root[1]
  <2>1. Walk!WithinRoot(p) <=> 1 <= Len(p) /\ \A k \in 1..1 : Walk!Root[k] = p[k]
    BY <1>1, PrefixIs DEF Walk!WithinRoot
  <2> HIDE DEF Walk!Root
  <2>2. (\A k \in 1..1 : Walk!Root[k] = p[k]) <=> p[1] = Walk!Root[1]
    OBVIOUS
  <2>3. Len(p) \in Nat
    BY DEF Path
  <2> QED
    BY <2>1, <2>2, <2>3
<1> QED
  BY <1>1, <1>2

LEMMA WithinGoesDown ==
    ASSUME NEW p \in Path, Walk!WithinRoot(p), NEW n \in Names
    PROVE  Walk!WithinRoot(Append(p, n))
<1>1. Append(p, n) \in Path /\ Len(Append(p, n)) = Len(p) + 1 /\ \A k \in 1..Len(p) : Append(p, n)[k] = p[k]
  BY Longer
<1>2. Len(p) \in Nat /\ Len(p) >= 1 /\ p[1] = Walk!Root[1]
  BY RootIs DEF Path
<1>3. Len(Append(p, n)) >= 1 /\ Append(p, n)[1] = p[1]
  BY <1>1, <1>2
<1> QED
  BY <1>1, <1>2, <1>3, RootIs

(* A worktree: what is on the way to something is a directory.               *)
LEMMA TreeIs ==
    ASSUME NEW t, Walk!WellFormed(t)
    PROVE  /\ DOMAIN t \subseteq Path /\ <<>> \notin DOMAIN t /\ t = [p \in DOMAIN t |-> t[p]]
           /\ DOMAIN t \subseteq Seq(Strings)
           /\ Walk!Root \in DOMAIN t /\ t[Walk!Root].kind = "dir"
           /\ \A p \in DOMAIN t : \A i \in 1..(Len(p) - 1) :
                SubSeq(p, 1, i) \in DOMAIN t /\ t[SubSeq(p, 1, i)].kind = "dir"
<1>1. DOMAIN t \subseteq Seq(Strings)
  BY Zenon DEF Walk!WellFormed, Strings
<1>2. Strings \subseteq Names
  BY Zenon DEF Names
<1>3. DOMAIN t \subseteq Path
  BY <1>1, <1>2, SeqGrows DEF Path
<1> QED
  BY <1>1, <1>3, Zenon DEF Walk!WellFormed

LEMMA ThereIsItself ==
    ASSUME NEW t, Walk!WellFormed(t), NEW p \in DOMAIN t
    PROVE  /\ Walk!Linkless(t, Walk!Front(p)) /\ Walk!InParent(t, p) = p
           /\ t[p].kind # "link" => Walk!Linkless(t, p) /\ \A n : Walk!Real(t, p, n) = p
<1>1. p \in Path /\ p # <<>>
  BY TreeIs
<1>2. \A i \in 1..(Len(p) - 1) : Walk!KindAt(t, SubSeq(p, 1, i)) = "dir"
  BY TreeIs DEF Walk!KindAt
<1> DEFINE f == Walk!Front(p)
<1>3. /\ f \in Path /\ Len(f) = Len(p) - 1 /\ Len(p) \in Nat \ {0}
      /\ \A k \in 1..(Len(p) - 1) : f[k] = p[k]
      /\ Append(f, Walk!Last(p)) = p
  BY <1>1, FrontIs, LenProperties DEF Path
<1>4. ASSUME NEW i \in 1..(Len(p) - 1) PROVE SubSeq(f, 1, i) = SubSeq(p, 1, i)
  <2>1. i \in 0..Len(f) /\ i \in 0..Len(p) /\ i \in Nat
    BY <1>3
  <2>2. /\ SubSeq(f, 1, i) \in Path /\ Len(SubSeq(f, 1, i)) = i
        /\ \A k \in 1..i : SubSeq(f, 1, i)[k] = f[k]
    BY <1>3, <2>1, PartOfPath
  <2>3. /\ SubSeq(p, 1, i) \in Path /\ Len(SubSeq(p, 1, i)) = i
        /\ \A k \in 1..i : SubSeq(p, 1, i)[k] = p[k]
    BY <1>1, <2>1, PartOfPath
  <2>4. \A k \in 1..i : SubSeq(f, 1, i)[k] = SubSeq(p, 1, i)[k]
    BY <1>3, <2>1, <2>2, <2>3
  <2> QED
    BY <2>2, <2>3, <2>4, SeqEqual DEF Path
<1>5. Walk!Linkless(t, f)
  BY <1>2, <1>3, <1>4 DEF Walk!Linkless
<1>6. Walk!InParent(t, p) = p
  BY <1>3, <1>5 DEF Walk!InParent, Walk!Real
<1>7. ASSUME t[p].kind # "link" PROVE Walk!Linkless(t, p) /\ \A n : Walk!Real(t, p, n) = p
  <2>1. SubSeq(p, 1, Len(p)) = p
    BY <1>1, SubSeqFull DEF Path
  <2>2. Walk!KindAt(t, p) # "link"
    BY <1>7 DEF Walk!KindAt
  <2>3. Walk!Linkless(t, p)
    <3> SUFFICES ASSUME NEW i \in 1..Len(p) PROVE Walk!KindAt(t, SubSeq(p, 1, i)) # "link"
      BY DEF Walk!Linkless
    <3>1. CASE i = Len(p)
      BY <2>1, <2>2, <3>1
    <3>2. CASE i # Len(p)
      BY <1>2, <1>3, <3>2
    <3> QED
      BY <3>1, <3>2
  <2> QED
    BY <2>3 DEF Walk!Real
<1> QED
  BY <1>5, <1>6, <1>7

(* Whoever shares the directory of something within the root is within it.   *)
LEMMA SameParentWithin ==
    ASSUME NEW p \in Path, Walk!WithinRoot(p), p # Walk!Root, NEW q \in Path, q # <<>>,
           Walk!Front(q) = Walk!Front(p)
    PROVE  Walk!WithinRoot(q)
<1>1. Len(p) \in Nat /\ Len(p) >= 1 /\ p[1] = Walk!Root[1] /\ p # <<>>
  BY RootIs DEF Path
<1>2. Len(p) # 1
  <2> SUFFICES ASSUME Len(p) = 1 PROVE FALSE
    OBVIOUS
  <2>1. \A k \in 1..Len(p) : p[k] = Walk!Root[k]
    BY <1>1
  <2> QED
    BY <1>1, <2>1, RootIs, SeqEqual DEF Path
<1>3. Walk!Front(p)[1] = p[1] /\ Len(Walk!Front(p)) = Len(p) - 1
  <2>1. Len(Walk!Front(p)) = Len(p) - 1 /\ \A k \in 1..(Len(p) - 1) : Walk!Front(p)[k] = p[k]
    BY <1>1, FrontIs
  <2>2. 1 \in 1..(Len(p) - 1)
    BY <1>1, <1>2
  <2> QED
    BY <2>1, <2>2
<1>4. Len(q) >= 1 /\ Len(Walk!Front(q)) = Len(q) - 1 /\ \A k \in 1..(Len(q) - 1) : Walk!Front(q)[k] = q[k]
  BY FrontIs
<1>5. Len(q) \in Nat /\ Len(q) = Len(p)
  BY <1>1, <1>3, <1>4 DEF Path
<1>6. q[1] = p[1]
  BY <1>1, <1>2, <1>3, <1>4, <1>5
<1> QED
  BY <1>1, <1>5, <1>6, RootIs

LEMMA PrefixOfPart ==
    ASSUME NEW p \in Path, NEW q \in Path, NEW i \in 0..Len(q), Walk!IsPrefix(p, SubSeq(q, 1, i))
    PROVE  Walk!IsPrefix(p, q) /\ Len(p) <= i
<1> DEFINE part == SubSeq(q, 1, i)
<1>1. part \in Path /\ Len(part) = i /\ \A k \in 1..i : part[k] = q[k]
  BY PartOfPath
<1>2. Len(p) \in Nat /\ Len(q) \in Nat
  BY DEF Path
<1> HIDE DEF part
<1>3. Len(p) <= i /\ \A k \in 1..Len(p) : p[k] = part[k]
  BY <1>1, PrefixIs DEF part
<1>4. Len(p) <= Len(q) /\ \A k \in 1..Len(p) : p[k] = q[k]
  BY <1>1, <1>2, <1>3
<1> QED
  BY <1>3, <1>4, PrefixIs

LEMMA PrefixIsPart ==
    ASSUME NEW p \in Path, NEW q \in Path, Walk!IsPrefix(p, q)
    PROVE  SubSeq(q, 1, Len(p)) = p /\ Len(p) <= Len(q) /\ Len(p) \in Nat /\ Len(q) \in Nat
<1>1. Len(p) <= Len(q) /\ Len(p) \in Nat /\ Len(q) \in Nat
  BY PrefixIs DEF Path
<1>2. SubSeq(p, 1, Len(p)) = p
  BY SubSeqFull DEF Path
<1> QED
  BY <1>1, <1>2 DEF Walk!IsPrefix

(* A path of the tree that begins like another path below the root.          *)
LEMMA PartsAreDirs ==
    ASSUME NEW t, Walk!WellFormed(t), NEW q \in DOMAIN t, NEW i \in 1..(Len(q) - 1)
    PROVE  SubSeq(q, 1, i) \in DOMAIN t /\ t[SubSeq(q, 1, i)].kind = "dir"
BY TreeIs

LEMMA RootIsShort ==
    ASSUME NEW t, Walk!WellFormed(t), NEW p \in DOMAIN t, p # Walk!Root
    PROVE  ~Walk!IsPrefix(p, Walk!Root)
<1> SUFFICES ASSUME Walk!IsPrefix(p, Walk!Root) PROVE FALSE
  OBVIOUS
<1>1. p \in Path /\ p # <<>>
  BY TreeIs
<1>2. Walk!Root \in Path /\ Len(Walk!Root) = 1
  BY RootIs
<1>3. SubSeq(Walk!Root, 1, Len(p)) = p /\ Len(p) <= 1 /\ Len(p) \in Nat
  BY <1>1, <1>2, PrefixIsPart
<1>4. Len(p) # 0
  BY <1>1, EmptySeq DEF Path
<1>5. SubSeq(Walk!Root, 1, 1) = Walk!Root
  BY <1>2, SubSeqFull DEF Path
<1> QED
  BY <1>3, <1>4, <1>5

(* Something new at a name keeps a worktree one.                             *)
LEMMA PutKeeps ==
    ASSUME NEW t, Walk!WellFormed(t), NEW p \in DOMAIN t \ {Walk!Root}, NEW node
    PROVE  Walk!WellFormed(Walk!With(Walk!Without(t, p), p, node))
<1> DEFINE u == Walk!With(Walk!Without(t, p), p, node)
           rest0 == {r \in DOMAIN t : ~Walk!IsPrefix(p, r)}
<1>1. /\ DOMAIN u = rest0 \cup {p}
      /\ \A r \in rest0 : r # p => u[r] = t[r]
      /\ u = [r \in DOMAIN u |-> u[r]]
  BY DEF Walk!With, Walk!Without
<1>2. p \in Path /\ p # <<>> /\ p \in DOMAIN t
  BY TreeIs
<1>3. p \notin rest0
  <2>1. Walk!IsPrefix(p, p)
    BY <1>2, PrefixIs DEF Path
  <2> QED
    BY <2>1
<1>4. Walk!Root \in rest0 /\ t[Walk!Root].kind = "dir"
  BY <1>2, RootIsShort, TreeIs
<1>5. ASSUME NEW q \in DOMAIN u, NEW i \in 1..(Len(q) - 1)
      PROVE  SubSeq(q, 1, i) \in rest0 /\ t[SubSeq(q, 1, i)].kind = "dir"
  <2>1. q \in DOMAIN t /\ q \in Path /\ Len(q) \in Nat
    BY <1>1, <1>2, TreeIs DEF Path
  <2>2. SubSeq(q, 1, i) \in DOMAIN t /\ t[SubSeq(q, 1, i)].kind = "dir"
    BY <2>1, PartsAreDirs
  <2>3. ASSUME Walk!IsPrefix(p, SubSeq(q, 1, i)) PROVE FALSE
    <3>1. i \in 0..Len(q)
      BY <2>1
    <3>2. Walk!IsPrefix(p, q) /\ Len(p) <= i
      BY <1>2, <2>1, <2>3, <3>1, PrefixOfPart
    <3>3. q = p
      BY <1>1, <3>2
    <3> QED
      BY <2>1, <3>2, <3>3
  <2> QED
    BY <2>2, <2>3
<1>6. DOMAIN u \subseteq DOMAIN t
  BY <1>1, <1>2
<1> HIDE DEF u, rest0
<1>7. DOMAIN u \subseteq Seq(Strings) /\ <<>> \notin DOMAIN u
  BY <1>6, TreeIs
<1>8. \A q \in DOMAIN u : \A i \in 1..(Len(q) - 1) :
          SubSeq(q, 1, i) \in DOMAIN u /\ u[SubSeq(q, 1, i)].kind = "dir"
  BY <1>1, <1>3, <1>5
<1>9. Walk!Root \in DOMAIN u /\ u[Walk!Root].kind = "dir"
  BY <1>1, <1>3, <1>4
<1>10. Walk!WellFormed(u)
  BY <1>1, <1>7, <1>8, <1>9, Zenon DEF Walk!WellFormed, Strings
<1> QED
  BY <1>10 DEF u

(* What lies below p, below q instead.                                       *)
LEMMA RebasedIsPath ==
    ASSUME NEW S, NEW p \in Seq(S), NEW q \in Seq(S), NEW r \in Seq(S), Len(p) <= Len(r)
    PROVE  /\ Walk!Rebased(r, p, q) \in Seq(S)
           /\ Len(Walk!Rebased(r, p, q)) = Len(q) + Len(r) - Len(p)
           /\ \A k \in 1..Len(q) : Walk!Rebased(r, p, q)[k] = q[k]
           /\ \A k \in (Len(q) + 1)..(Len(q) + Len(r) - Len(p)) :
                 Walk!Rebased(r, p, q)[k] = r[k - Len(q) + Len(p)]
<1> DEFINE tail == SubSeq(r, Len(p) + 1, Len(r))
<1>1. Len(p) \in Nat /\ Len(q) \in Nat /\ Len(r) \in Nat
  OBVIOUS
<1>2. \A k \in (Len(p) + 1)..Len(r) : r[k] \in S
  BY <1>1
<1>3. /\ tail \in Seq(S) /\ Len(tail) = Len(r) - Len(p)
      /\ \A k \in 1..(Len(r) - Len(p)) : tail[k] = r[Len(p) + k]
  BY <1>1, <1>2, SubSeqProperties
<1> HIDE DEF tail
<1>4. /\ q \o tail \in Seq(S) /\ Len(q \o tail) = Len(q) + Len(tail)
      /\ \A k \in 1..Len(q) : (q \o tail)[k] = q[k]
      /\ \A k \in (Len(q) + 1)..(Len(q) + Len(tail)) : (q \o tail)[k] = tail[k - Len(q)]
  <2>1. /\ q \o tail \in Seq(S) /\ Len(q \o tail) = Len(q) + Len(tail)
        /\ \A k \in 1..(Len(q) + Len(tail)) :
              (q \o tail)[k] = IF k <= Len(q) THEN q[k] ELSE tail[k - Len(q)]
    BY <1>3, ConcatProperties
  <2>2. Len(tail) \in Nat
    BY <1>1, <1>3
  <2> QED
    BY <1>1, <2>1, <2>2
<1>5. Walk!Rebased(r, p, q) = q \o tail
  BY DEF Walk!Rebased, tail
<1>6. ASSUME NEW k \in (Len(q) + 1)..(Len(q) + Len(r) - Len(p))
      PROVE  (q \o tail)[k] = r[k - Len(q) + Len(p)]
  <2>1. k - Len(q) \in 1..(Len(r) - Len(p)) /\ k \in (Len(q) + 1)..(Len(q) + Len(tail))
    BY <1>1, <1>3
  <2>2. Len(p) + (k - Len(q)) = k - Len(q) + Len(p)
    BY <1>1
  <2> QED
    BY <1>3, <1>4, <2>1, <2>2
<1> QED
  BY <1>1, <1>3, <1>4, <1>5, <1>6

LEMMA RebasedPath ==
    ASSUME NEW p \in Path, NEW q \in Path, NEW r \in Path, Len(p) <= Len(r)
    PROVE  /\ Walk!Rebased(r, p, q) \in Path
           /\ Len(Walk!Rebased(r, p, q)) = Len(q) + Len(r) - Len(p)
           /\ \A k \in 1..Len(q) : Walk!Rebased(r, p, q)[k] = q[k]
           /\ \A k \in (Len(q) + 1)..(Len(q) + Len(r) - Len(p)) :
                 Walk!Rebased(r, p, q)[k] = r[k - Len(q) + Len(p)]
BY RebasedIsPath, Zenon DEF Path

LEMMA RebasedBack ==
    ASSUME NEW p \in Path, NEW q \in Path, NEW r \in Path, Walk!IsPrefix(p, r)
    PROVE  /\ Walk!IsPrefix(q, Walk!Rebased(r, p, q))
           /\ Walk!Rebased(Walk!Rebased(r, p, q), q, p) = r
<1> DEFINE g == Walk!Rebased(r, p, q)  h == Walk!Rebased(g, q, p)
<1>1. /\ Len(p) <= Len(r) /\ \A k \in 1..Len(p) : p[k] = r[k]
      /\ Len(p) \in Nat /\ Len(q) \in Nat /\ Len(r) \in Nat
  BY PrefixIs DEF Path
<1>2. /\ g \in Path /\ Len(g) = Len(q) + Len(r) - Len(p)
      /\ \A k \in 1..Len(q) : g[k] = q[k]
      /\ \A k \in (Len(q) + 1)..(Len(q) + Len(r) - Len(p)) : g[k] = r[k - Len(q) + Len(p)]
  BY <1>1, RebasedPath
<1> HIDE DEF g
<1>3. Len(q) <= Len(g)
  BY <1>1, <1>2
<1>4. /\ h \in Path /\ Len(h) = Len(p) + Len(g) - Len(q)
      /\ \A k \in 1..Len(p) : h[k] = p[k]
      /\ \A k \in (Len(p) + 1)..(Len(p) + Len(g) - Len(q)) : h[k] = g[k - Len(p) + Len(q)]
  BY <1>2, <1>3, RebasedPath
<1> HIDE DEF h
<1>5. Len(h) = Len(r)
  BY <1>1, <1>2, <1>4
<1>6. ASSUME NEW k \in 1..Len(r) PROVE h[k] = r[k]
  <2>1. CASE k <= Len(p)
    BY <1>1, <1>4, <2>1
  <2>2. CASE ~(k <= Len(p))
    <3>1. /\ k \in (Len(p) + 1)..(Len(p) + Len(g) - Len(q))
          /\ k - Len(p) + Len(q) \in (Len(q) + 1)..(Len(q) + Len(r) - Len(p))
          /\ (k - Len(p) + Len(q)) - Len(q) + Len(p) = k
      BY <1>1, <1>2, <2>2
    <3> QED
      BY <1>2, <1>4, <3>1
  <2> QED
    BY <2>1, <2>2
<1>7. h = r
  BY <1>4, <1>5, <1>6, SeqEqual DEF Path
<1>8. Walk!IsPrefix(q, g)
  BY <1>1, <1>2, <1>3, PrefixIs
<1> QED
  BY <1>7, <1>8 DEF g, h

LEMMA RebasedPart ==
    ASSUME NEW p \in Path, NEW q \in Path, NEW r \in Path, Walk!IsPrefix(p, r),
           NEW i \in Nat, Len(q) <= i, i <= Len(q) + Len(r) - Len(p)
    PROVE  /\ SubSeq(Walk!Rebased(r, p, q), 1, i)
                 = Walk!Rebased(SubSeq(r, 1, i - Len(q) + Len(p)), p, q)
           /\ Walk!IsPrefix(p, SubSeq(r, 1, i - Len(q) + Len(p)))
<1> DEFINE g == Walk!Rebased(r, p, q)  j == i - Len(q) + Len(p)  part == SubSeq(r, 1, j)
           h == Walk!Rebased(part, p, q)  left == SubSeq(g, 1, i)
<1>1. /\ Len(p) <= Len(r) /\ \A k \in 1..Len(p) : p[k] = r[k]
      /\ Len(p) \in Nat /\ Len(q) \in Nat /\ Len(r) \in Nat
  BY PrefixIs DEF Path
<1>2. /\ g \in Path /\ Len(g) = Len(q) + Len(r) - Len(p)
      /\ \A k \in 1..Len(q) : g[k] = q[k]
      /\ \A k \in (Len(q) + 1)..(Len(q) + Len(r) - Len(p)) : g[k] = r[k - Len(q) + Len(p)]
  BY <1>1, RebasedPath
<1>3. j \in 0..Len(r) /\ Len(p) <= j
  BY <1>1
<1>4. part \in Path /\ Len(part) = j /\ \A k \in 1..j : part[k] = r[k]
  BY <1>3, PartOfPath
<1> HIDE DEF g, part
<1>5. /\ h \in Path /\ Len(h) = Len(q) + j - Len(p)
      /\ \A k \in 1..Len(q) : h[k] = q[k]
      /\ \A k \in (Len(q) + 1)..(Len(q) + j - Len(p)) : h[k] = part[k - Len(q) + Len(p)]
  <2> HIDE DEF j
  <2>1. Len(p) <= Len(part)
    BY <1>3, <1>4
  <2>2. /\ h \in Path /\ Len(h) = Len(q) + Len(part) - Len(p)
        /\ \A k \in 1..Len(q) : h[k] = q[k]
        /\ \A k \in (Len(q) + 1)..(Len(q) + Len(part) - Len(p)) : h[k] = part[k - Len(q) + Len(p)]
    BY <1>4, <2>1, RebasedPath
  <2> QED
    BY <1>4, <2>2
<1>6. i \in 0..Len(g)
  BY <1>2
<1>7. left \in Path /\ Len(left) = i /\ \A k \in 1..i : left[k] = g[k]
  BY <1>2, <1>6, PartOfPath
<1> HIDE DEF h, left
<1>8. Len(h) = i
  BY <1>1, <1>5
<1>9. ASSUME NEW k \in 1..i PROVE left[k] = h[k]
  <2>1. CASE k <= Len(q)
    BY <1>1, <1>2, <1>5, <1>7, <2>1
  <2>2. CASE ~(k <= Len(q))
    <3>1. /\ k \in (Len(q) + 1)..(Len(q) + Len(r) - Len(p))
          /\ k \in (Len(q) + 1)..(Len(q) + j - Len(p))
          /\ k - Len(q) + Len(p) \in 1..j
      BY <1>1, <2>2
    <3> QED
      BY <1>2, <1>4, <1>5, <1>7, <3>1
  <2> QED
    BY <2>1, <2>2
<1>10. left = h
  BY <1>5, <1>7, <1>8, <1>9, SeqEqual DEF Path
<1>11. Walk!IsPrefix(p, part)
  <2>1. \A k \in 1..Len(p) : p[k] = part[k]
    BY <1>1, <1>3, <1>4
  <2> QED
    BY <1>3, <1>4, <2>1, PrefixIs
<1> QED
  BY <1>10, <1>11 DEF left, h, g, part

LEMMA PartOfFront ==
    ASSUME NEW p \in Path, p # <<>>, NEW i \in 1..(Len(p) - 1)
    PROVE  SubSeq(Walk!Front(p), 1, i) = SubSeq(p, 1, i)
<1> DEFINE f == Walk!Front(p)
<1>1. f \in Path /\ Len(f) = Len(p) - 1 /\ Len(p) \in Nat /\ \A k \in 1..(Len(p) - 1) : f[k] = p[k]
  BY FrontIs DEF Path
<1> HIDE DEF f
<1>2. i \in 0..Len(f) /\ i \in 0..Len(p) /\ i \in Nat
  BY <1>1
<1>3. SubSeq(f, 1, i) \in Path /\ Len(SubSeq(f, 1, i)) = i /\ \A k \in 1..i : SubSeq(f, 1, i)[k] = f[k]
  BY <1>1, <1>2, PartOfPath
<1>4. SubSeq(p, 1, i) \in Path /\ Len(SubSeq(p, 1, i)) = i /\ \A k \in 1..i : SubSeq(p, 1, i)[k] = p[k]
  BY <1>2, PartOfPath
<1>5. \A k \in 1..i : SubSeq(f, 1, i)[k] = SubSeq(p, 1, i)[k]
  BY <1>1, <1>2, <1>3, <1>4
<1>6. SubSeq(f, 1, i) = SubSeq(p, 1, i)
  BY <1>3, <1>4, <1>5, SeqEqual DEF Path
<1> QED
  BY <1>6 DEF f

(* What moves to a free name keeps a worktree one.                           *)
LEMMA MoveKeeps ==
    ASSUME NEW t, Walk!WellFormed(t), NEW p \in DOMAIN t \ {Walk!Root},
           NEW q \in Path, q \in Seq(Strings), q # <<>>, q \notin DOMAIN t,
           Walk!Front(q) \in DOMAIN t, t[Walk!Front(q)].kind = "dir", ~Walk!IsPrefix(p, q)
    PROVE  Walk!WellFormed(Walk!Moved(t, p, q))
<1> DEFINE u == Walk!Moved(t, p, q)
           moved == {r \in DOMAIN t : Walk!IsPrefix(p, r)}
           stay == DOMAIN t \ moved
           gone == {Walk!Rebased(r, p, q) : r \in moved}
<1>1. /\ DOMAIN u = stay \cup gone
      /\ \A s \in DOMAIN u : u[s] = IF Walk!IsPrefix(q, s) THEN t[Walk!Rebased(s, q, p)] ELSE t[s]
      /\ u = [s \in DOMAIN u |-> u[s]]
  BY DEF Walk!Moved
<1>2. p \in Path /\ p # <<>> /\ p \in DOMAIN t /\ Len(p) \in Nat \ {0} /\ Len(q) \in Nat \ {0}
  BY TreeIs, EmptySeq DEF Path
<1>3. ASSUME NEW s \in DOMAIN t PROVE ~Walk!IsPrefix(q, s)
  <2> SUFFICES ASSUME Walk!IsPrefix(q, s) PROVE FALSE
    OBVIOUS
  <2>1. s \in Path
    BY TreeIs
  <2>2. SubSeq(s, 1, Len(q)) = q /\ Len(q) <= Len(s) /\ Len(s) \in Nat
    BY <2>1, PrefixIsPart
  <2>3. CASE Len(q) = Len(s)
    BY <2>1, <2>2, <2>3, SubSeqFull DEF Path
  <2>4. CASE Len(q) # Len(s)
    <3>1. Len(q) \in 1..(Len(s) - 1)
      BY <1>2, <2>2, <2>4
    <3> QED
      BY <2>2, <3>1, PartsAreDirs
  <2> QED
    BY <2>3, <2>4
<1> HIDE DEF u
<1>4. \A s \in stay : u[s] = t[s] /\ s \in DOMAIN u
  BY <1>1, <1>3
<1>5. ASSUME NEW r \in moved
      PROVE  Walk!Rebased(r, p, q) \in DOMAIN u /\ u[Walk!Rebased(r, p, q)] = t[r]
  <2>1. r \in Path /\ Walk!IsPrefix(p, r)
    BY TreeIs
  <2>2. /\ Walk!IsPrefix(q, Walk!Rebased(r, p, q))
        /\ Walk!Rebased(Walk!Rebased(r, p, q), q, p) = r
    BY <1>2, <2>1, RebasedBack
  <2>3. Walk!Rebased(r, p, q) \in DOMAIN u
    BY <1>1
  <2> QED
    BY <1>1, <2>2, <2>3
<1>6. ASSUME NEW s \in stay, NEW i \in 1..(Len(s) - 1)
      PROVE  SubSeq(s, 1, i) \in DOMAIN u /\ u[SubSeq(s, 1, i)].kind = "dir"
  <2>1. s \in Path /\ ~Walk!IsPrefix(p, s) /\ s \in DOMAIN t
    BY TreeIs
  <2>2. Len(s) \in Nat
    BY <2>1 DEF Path
  <2>3. SubSeq(s, 1, i) \in DOMAIN t /\ t[SubSeq(s, 1, i)].kind = "dir"
    BY PartsAreDirs
  <2>4. i \in 0..Len(s)
    BY <2>2
  <2>5. ~Walk!IsPrefix(p, SubSeq(s, 1, i))
    BY <1>2, <2>1, <2>4, PrefixOfPart
  <2> QED
    BY <1>4, <2>3, <2>5
<1>7. ASSUME NEW i \in 1..(Len(q) - 1)
      PROVE  SubSeq(q, 1, i) \in DOMAIN u /\ u[SubSeq(q, 1, i)].kind = "dir"
  <2>1. SubSeq(q, 1, i) \in DOMAIN t /\ t[SubSeq(q, 1, i)].kind = "dir"
    <3>1. CASE i = Len(q) - 1
      BY <3>1 DEF Walk!Front
    <3>2. CASE i # Len(q) - 1
      <4>1. Len(Walk!Front(q)) = Len(q) - 1
        BY FrontIs
      <4>2. i \in 1..(Len(Walk!Front(q)) - 1)
        BY <1>2, <3>2, <4>1
      <4>3. SubSeq(Walk!Front(q), 1, i) = SubSeq(q, 1, i)
        BY PartOfFront
      <4> QED
        BY <4>2, <4>3, PartsAreDirs
    <3> QED
      BY <3>1, <3>2
  <2>2. i \in 0..Len(q)
    BY <1>2
  <2>3. ~Walk!IsPrefix(p, SubSeq(q, 1, i))
    BY <1>2, <2>2, PrefixOfPart
  <2> QED
    BY <1>4, <2>1, <2>3
<1>8. ASSUME NEW r \in moved, NEW i \in 1..(Len(Walk!Rebased(r, p, q)) - 1)
      PROVE  /\ SubSeq(Walk!Rebased(r, p, q), 1, i) \in DOMAIN u
             /\ u[SubSeq(Walk!Rebased(r, p, q), 1, i)].kind = "dir"
  <2> DEFINE g == Walk!Rebased(r, p, q)
  <2>1. r \in Path /\ r \in DOMAIN t /\ Walk!IsPrefix(p, r) /\ Len(r) \in Nat /\ Len(p) <= Len(r)
    <3>1. r \in Path /\ r \in DOMAIN t /\ Walk!IsPrefix(p, r)
      BY TreeIs
    <3> QED
      BY <1>2, <3>1, PrefixIsPart
  <2>2. /\ g \in Path /\ Len(g) = Len(q) + Len(r) - Len(p) /\ \A k \in 1..Len(q) : g[k] = q[k]
    BY <1>2, <2>1, RebasedPath
  <2> HIDE DEF g
  <2>3. i \in Nat /\ i \in 0..Len(g) /\ i <= Len(q) + Len(r) - Len(p)
    BY <1>2, <2>1, <2>2 DEF g
  <2>4. CASE i < Len(q)
    <3>1. i \in 1..(Len(q) - 1) /\ i \in 0..Len(q)
      BY <1>2, <2>3, <2>4
    <3>2. SubSeq(g, 1, i) \in Path /\ Len(SubSeq(g, 1, i)) = i /\ \A k \in 1..i : SubSeq(g, 1, i)[k] = g[k]
      BY <2>2, <2>3, PartOfPath
    <3>3. SubSeq(q, 1, i) \in Path /\ Len(SubSeq(q, 1, i)) = i /\ \A k \in 1..i : SubSeq(q, 1, i)[k] = q[k]
      BY <3>1, PartOfPath
    <3>4. \A k \in 1..i : SubSeq(g, 1, i)[k] = SubSeq(q, 1, i)[k]
      BY <1>2, <2>2, <2>3, <2>4, <3>2, <3>3
    <3>5. SubSeq(g, 1, i) = SubSeq(q, 1, i)
      BY <3>2, <3>3, <3>4, SeqEqual DEF Path
    <3> QED
      BY <1>7, <3>1, <3>5 DEF g
  <2>5. CASE ~(i < Len(q))
    <3> DEFINE j == i - Len(q) + Len(p)
    <3>1. /\ SubSeq(g, 1, i) = Walk!Rebased(SubSeq(r, 1, j), p, q)
          /\ Walk!IsPrefix(p, SubSeq(r, 1, j))
      <4>1. Len(q) <= i
        BY <1>2, <2>3, <2>5
      <4> QED
        BY <1>2, <2>1, <2>3, <4>1, RebasedPart DEF g
    <3>2. j \in 1..(Len(r) - 1)
      BY <1>2, <2>1, <2>2, <2>3, <2>5 DEF g
    <3>3. SubSeq(r, 1, j) \in DOMAIN t /\ t[SubSeq(r, 1, j)].kind = "dir"
      BY <2>1, <3>2, PartsAreDirs
    <3>4. SubSeq(r, 1, j) \in moved
      BY <3>1, <3>3
    <3> QED
      BY <1>5, <3>1, <3>3, <3>4 DEF g
  <2> QED
    BY <2>4, <2>5
<1>9. Walk!Root \in stay /\ t[Walk!Root].kind = "dir"
  BY <1>2, RootIsShort, TreeIs
<1>10. \A s \in DOMAIN u : \A i \in 1..(Len(s) - 1) :
          SubSeq(s, 1, i) \in DOMAIN u /\ u[SubSeq(s, 1, i)].kind = "dir"
  <2> SUFFICES ASSUME NEW s \in DOMAIN u, NEW i \in 1..(Len(s) - 1)
               PROVE  SubSeq(s, 1, i) \in DOMAIN u /\ u[SubSeq(s, 1, i)].kind = "dir"
    OBVIOUS
  <2>1. CASE s \in stay
    BY <1>6, <2>1
  <2>2. CASE s \in gone
    <3>1. PICK r \in moved : s = Walk!Rebased(r, p, q)
      BY <2>2
    <3> QED
      BY <1>8, <3>1
  <2> QED
    BY <1>1, <2>1, <2>2
<1>11. ASSUME NEW s \in DOMAIN u PROVE s \in Seq(Strings) /\ s # <<>>
  <2>1. CASE s \in stay
    BY <2>1, TreeIs
  <2>2. CASE s \in gone
    <3>1. PICK r \in moved : s = Walk!Rebased(r, p, q)
      BY <2>2
    <3>2. p \in Seq(Strings) /\ r \in Seq(Strings) /\ r \in Path /\ Walk!IsPrefix(p, r)
      BY <1>2, TreeIs
    <3>3. Len(p) <= Len(r) /\ Len(r) \in Nat
      BY <1>2, <3>2, PrefixIsPart
    <3>4. s \in Seq(Strings) /\ Len(s) = Len(q) + Len(r) - Len(p)
      BY <3>1, <3>2, <3>3, RebasedIsPath
    <3>5. Len(s) # 0
      BY <1>2, <3>3, <3>4
    <3> QED
      BY <3>4, <3>5, EmptySeq
  <2> QED
    BY <1>1, <2>1, <2>2
<1>12. DOMAIN u \subseteq Seq(Strings) \ {<<>>}
  BY <1>11
<1>13. Walk!Root \in DOMAIN u /\ u[Walk!Root].kind = "dir"
  BY <1>4, <1>9
<1>14. Walk!WellFormed(u)
  BY <1>1, <1>10, <1>12, <1>13, Zenon DEF Walk!WellFormed, Strings
<1> QED
  BY <1>14 DEF u

LEMMA CountedAlike == ASSUME NEW S PROVE Walk!Cardinality(S) = Cardinality(S)
BY Zenon DEF Walk!Cardinality, Cardinality

(* A listing names what is in the directory.                                 *)
LEMMA ChildrenAre ==
    ASSUME NEW t, NEW d
    PROVE  /\ Walk!Children(t, d) \in Seq(Strings)
           /\ \A k \in 1..Len(Walk!Children(t, d)) : Append(d, Walk!Children(t, d)[k]) \in DOMAIN t
           /\ \A n \in Walk!Range(Order) : Append(d, n) \in DOMAIN t =>
                 \E k \in 1..Len(Walk!Children(t, d)) : Walk!Children(t, d)[k] = n
<1> DEFINE places == Walk!Places(t, d)
           Rank(i) == Cardinality({j \in places : j <= i})
           N == Cardinality(places)
           at == [i \in places |-> Rank(i)]
<1>1. Order \in Seq(Strings) /\ Len(Order) \in Nat /\ DOMAIN Order = 1..Len(Order)
  <2>1. Order \in Seq(Strings)
    BY ObservationAssumption, Zenon DEF Strings
  <2> QED
    BY <2>1, LenProperties
<1>2. places \subseteq 1..Len(Order) /\ \A i \in places : Order[i] \in Strings /\ i \in Nat
  BY <1>1, ElementOfSeq DEF Walk!Places
<1>3. IsFiniteSet(places) /\ N \in Nat
  <2>1. IsFiniteSet(1..Len(Order))
    BY <1>1, FS_Interval
  <2>2. IsFiniteSet(places)
    BY <1>2, <2>1, FS_Subset
  <2> QED
    BY <2>2, FS_CardinalityType
<1>4. \A i \in places : Append(d, Order[i]) \in DOMAIN t
  BY DEF Walk!Places
<1>5. Walk!Children(t, d) = [k \in 1..N |-> Order[Walk!Nth(places, k)]]
  BY CountedAlike DEF Walk!Children
<1> HIDE DEF places, N
<1>6. ASSUME NEW i \in places PROVE Rank(i) \in 1..N
  <2> DEFINE upTo == {j \in places : j <= i}
  <2>1. upTo \in SUBSET places /\ i \in upTo
    BY <1>2
  <2>2. IsFiniteSet(upTo) /\ Cardinality(upTo) <= N /\ Cardinality(upTo) \in Nat
    BY <1>3, <2>1, FS_Subset, FS_CardinalityType DEF N
  <2>3. Cardinality(upTo) # 0
    <3> HIDE DEF upTo
    <3> QED
      BY <2>1, <2>2, FS_EmptySet
  <2> QED
    BY <1>3, <2>2, <2>3
<1>7. ASSUME NEW i \in places, NEW j \in places, i < j PROVE Rank(i) # Rank(j)
  <2> DEFINE upToI == {k \in places : k <= i}  upToJ == {k \in places : k <= j}
  <2>1. upToI \in SUBSET upToJ /\ j \in upToJ /\ j \notin upToI /\ upToJ \in SUBSET places
    <3>1. i < j /\ i \in Nat /\ j \in Nat /\ \A k \in places : k \in Nat
      BY <1>2, <1>7
    <3>2. \A k \in places : k <= i => k <= j
      BY <3>1
    <3>3. j <= j /\ ~(j <= i)
      BY <3>1
    <3> QED
      BY <3>2, <3>3
  <2> HIDE DEF upToI, upToJ
  <2>2. IsFiniteSet(upToJ)
    BY <1>3, <2>1, FS_Subset
  <2>3. Cardinality(upToI) # Cardinality(upToJ)
    BY <2>1, <2>2, FS_Subset
  <2> QED
    BY <2>3 DEF upToI, upToJ
<1> HIDE DEF Rank
<1>8. at \in Injection(places, 1..N)
  <2>1. at \in [places -> 1..N]
    BY <1>6
  <2>2. ASSUME NEW i \in places, NEW j \in places, at[i] = at[j] PROVE i = j
    <3>1. i \in Nat /\ j \in Nat /\ Rank(i) = Rank(j)
      BY <1>2, <2>2
    <3> QED
      BY <1>7, <3>1
  <2> QED
    BY <2>1, <2>2 DEF Injection, IsInjective
<1>9. IsFiniteSet(1..N) /\ Cardinality(1..N) = N
  BY <1>3, FS_Interval
<1>10. at \in Surjection(places, 1..N)
  BY <1>8, <1>9, FS_Injection DEF N
<1>11. \A k \in 1..N : \E i \in places : Rank(i) = k
  BY <1>10 DEF Surjection
<1>12. \A k \in 1..N : Walk!Nth(places, k) \in places
  BY <1>11, CountedAlike DEF Walk!Nth, Rank
<1>13. Walk!Children(t, d) \in [1..N -> Strings]
  BY <1>2, <1>5, <1>12
<1>14. Walk!Children(t, d) \in Seq(Strings)
  BY <1>3, <1>13, SeqDef
<1>15. Len(Walk!Children(t, d)) = N
  BY <1>3, <1>13, <1>14, LenProperties
<1>16. \A k \in 1..N : Append(d, Walk!Children(t, d)[k]) \in DOMAIN t
  BY <1>4, <1>5, <1>12
<1>17. ASSUME NEW n \in Walk!Range(Order), Append(d, n) \in DOMAIN t
       PROVE  \E k \in 1..N : Walk!Children(t, d)[k] = n
  <2>1. PICK i \in DOMAIN Order : Order[i] = n
    BY DEF Walk!Range
  <2>2. i \in places
    BY <1>17, <2>1 DEF places, Walk!Places
  <2>3. Rank(i) \in 1..N /\ \A j \in places : Rank(j) = Rank(i) => j = i
    <3>1. \A j \in places : j \in Nat
      BY <1>2
    <3> QED
      BY <1>6, <1>7, <2>2, <3>1
  <2>4. Walk!Nth(places, Rank(i)) = i
    BY <2>2, <2>3, CountedAlike DEF Walk!Nth, Rank
  <2> QED
    BY <1>5, <2>1, <2>3, <2>4
<1> QED
  BY <1>14, <1>15, <1>16, <1>17

(* The editor leaves a worktree one, and everything else alone.              *)
LEMMA EditKeeps ==
    ASSUME Walk!WellFormed(tree), Walk!Edit
    PROVE  /\ Walk!WellFormed(tree') /\ Walk!Walking /\ edits' = edits + 1
           /\ inside \subseteq inside' /\ Walk!FilesInside(tree') \subseteq inside'
           /\ UNCHANGED <<scope, frames, visit, loaded, compiled, manifest, frontier, progress>>
<1>1. PICK p \in DOMAIN tree \ {Walk!Root, <<"o">>} :
         \/ \E node \in NewNodes : Walk!Put(p, node)
         \/ \E d \in {Walk!Root, <<"o">>}, n \in Walk!Range(Order) : Walk!Move(p, Append(d, n))
  BY DEF Walk!Edit
<1>2. ASSUME NEW t, Walk!WellFormed(t), Walk!Edited(t)
      PROVE  /\ Walk!WellFormed(tree') /\ Walk!Walking /\ edits' = edits + 1
             /\ inside \subseteq inside' /\ Walk!FilesInside(tree') \subseteq inside'
             /\ UNCHANGED <<scope, frames, visit, loaded, compiled, manifest, frontier, progress>>
  <2>1. tree' = t /\ Walk!Walking /\ edits' = edits + 1 /\ inside' = inside \cup Walk!FilesInside(t)
        /\ UNCHANGED <<scope, frames, visit, loaded, compiled, manifest, frontier, progress>>
    BY <1>2 DEF Walk!Edited, Walk!rules, Walk!found
  <2> QED
    BY <1>2, <2>1
<1>3. CASE \E node \in NewNodes : Walk!Put(p, node)
  <2>1. PICK node \in NewNodes : Walk!Put(p, node)
    BY <1>3
  <2>2. Walk!Edited(Walk!With(Walk!Without(tree, p), p, node))
    BY <2>1 DEF Walk!Put
  <2>3. Walk!WellFormed(Walk!With(Walk!Without(tree, p), p, node))
    BY <1>1, PutKeeps
  <2> QED
    BY <1>2, <2>2, <2>3
<1>4. CASE \E d \in {Walk!Root, <<"o">>}, n \in Walk!Range(Order) : Walk!Move(p, Append(d, n))
  <2>1. PICK d \in {Walk!Root, <<"o">>}, n \in Walk!Range(Order) : Walk!Move(p, Append(d, n))
    BY <1>4
  <2> DEFINE q == Append(d, n)
  <2>2. n \in Strings /\ n \in Names
    <3>1. Order \in Seq(Strings)
      BY ObservationAssumption, Zenon DEF Strings
    <3>2. n \in Strings
      BY <3>1, ElementOfSeq, LenProperties DEF Walk!Range
    <3> QED
      BY <3>2 DEF Names
  <2>3. d \in Path
    BY RootIs
  <2>4. q \in Path /\ q # <<>> /\ Walk!Front(q) = d
    BY <2>2, <2>3, Longer
  <2>5. /\ q \notin DOMAIN tree /\ Walk!Front(q) \in DOMAIN tree /\ tree[Walk!Front(q)].kind = "dir"
        /\ ~Walk!IsPrefix(p, q) /\ Walk!Edited(Walk!Moved(tree, p, q))
    BY <2>1 DEF Walk!Move
  <2>6. q \in Seq(Strings)
    <3>1. d \in Seq(Strings)
      BY <2>4, <2>5, TreeIs
    <3> QED
      BY <2>2, <3>1, AppendProperties
  <2>7. Walk!WellFormed(Walk!Moved(tree, p, q))
    <3> HIDE DEF q
    <3> QED
      BY <1>1, <2>4, <2>5, <2>6, MoveKeeps
  <2> QED
    BY <1>2, <2>5, <2>7
<1> QED
  BY <1>1, <1>3, <1>4

-----------------------------------------------------------------------------
(* The directories being walked.                                             *)
FrameOk(f, t, e, escape) ==
    /\ f = [real |-> f.real, virt |-> f.virt, depth |-> f.depth, chain |-> f.chain,
            source |-> f.source, hops |-> f.hops, followed |-> f.followed, step |-> f.step,
            left |-> f.left]
    /\ f.real \in Path /\ f.virt \in Path /\ f.followed \in BOOLEAN
    /\ ~escape => Walk!WithinRoot(f.real)
    /\ e = 0 => f.real \in DOMAIN t /\ t[f.real].kind = "dir"
    /\ \E S : f.left \in Seq(S)
    /\ \A k \in 1..Len(f.left) :
          /\ f.left[k].name \in Names
          /\ e = 0 => /\ Append(f.real, f.left[k].name) \in DOMAIN t
                      /\ t[Append(f.real, f.left[k].name)].kind = f.left[k].kind
    /\ f.followed => f.source \in Path \ {<<>>} /\ Len(f.source) <= Len(f.virt) /\ f.real \in f.chain

(* What a followed directory is entered from is on its chain.                *)
Chained(fs) ==
    \A i, j \in 1..Len(fs) :
        i < j /\ fs[i].followed => fs[j].followed /\ fs[i].real \in fs[j].chain

Apart(fs) ==
    \A i, j \in 1..Len(fs) :
        i < j /\ fs[i].followed /\ fs[j].followed /\ fs[j].virt = fs[j].source
            => fs[i].real # fs[j].real

Nested(fs, t, e, escape) ==
    /\ \E S : fs \in Seq(S)
    /\ \A i \in 1..Len(fs) : FrameOk(fs[i], t, e, escape)
    /\ Chained(fs)

LEMMA Reframed ==
    ASSUME NEW fs, NEW t, NEW e, NEW escape, Nested(fs, t, e, escape), Apart(fs), fs # <<>>,
           NEW g, FrameOk(g, t, e, escape),
           g.real = fs[Len(fs)].real, g.virt = fs[Len(fs)].virt, g.chain = fs[Len(fs)].chain,
           g.source = fs[Len(fs)].source, g.followed = fs[Len(fs)].followed
    PROVE  /\ Nested([fs EXCEPT ![Len(fs)] = g], t, e, escape) /\ Apart([fs EXCEPT ![Len(fs)] = g])
           /\ Len([fs EXCEPT ![Len(fs)] = g]) = Len(fs) /\ [fs EXCEPT ![Len(fs)] = g] # <<>>
           /\ [fs EXCEPT ![Len(fs)] = g][Len(fs)] = g
           /\ Len(fs) \in Nat \ {0}
<1> DEFINE h == [fs EXCEPT ![Len(fs)] = g]
<1>1. PICK S : fs \in Seq(S)
  BY DEF Nested
<1>2. Len(fs) \in Nat \ {0} /\ DOMAIN fs = 1..Len(fs)
  BY <1>1, EmptySeq, LenProperties
<1>3. h \in Seq(S \cup {g}) /\ Len(h) = Len(fs)
  <2>1. fs \in Seq(S \cup {g})
    BY <1>1, SeqGrows
  <2> QED
    BY <1>2, <2>1, ExceptSeq
<1>4. h[Len(fs)] = g /\ \A i \in 1..Len(fs) : i # Len(fs) => h[i] = fs[i]
  BY <1>2
<1> HIDE DEF h
<1>5. \A i \in 1..Len(h) : FrameOk(h[i], t, e, escape)
  BY <1>3, <1>4 DEF Nested
<1>6. \A i \in 1..Len(fs) : /\ h[i].real = fs[i].real /\ h[i].virt = fs[i].virt
                             /\ h[i].chain = fs[i].chain /\ h[i].source = fs[i].source
                             /\ h[i].followed = fs[i].followed
  BY <1>4
<1>7. Chained(h) /\ Apart(h)
  BY <1>3, <1>6 DEF Nested, Chained, Apart
<1>8. Nested(h, t, e, escape)
  BY <1>3, <1>5, <1>7 DEF Nested
<1>9. h # <<>>
  BY <1>2, <1>3, EmptySeq
<1> QED
  BY <1>2, <1>3, <1>4, <1>7, <1>8, <1>9 DEF h

LEMMA Pushed ==
    ASSUME NEW fs, NEW t, NEW e, NEW escape, Nested(fs, t, e, escape), Apart(fs),
           NEW g, FrameOk(g, t, e, escape),
           \A i \in 1..Len(fs) : fs[i].followed =>
               /\ g.followed /\ fs[i].real \in g.chain
               /\ g.virt = g.source => fs[i].real # g.real
    PROVE  Nested(Append(fs, g), t, e, escape) /\ Apart(Append(fs, g)) /\ Append(fs, g) # <<>>
<1> DEFINE h == Append(fs, g)
<1>1. PICK S : fs \in Seq(S)
  BY DEF Nested
<1>2. fs \in Seq(S \cup {g}) /\ Len(fs) \in Nat
  <2>1. fs \in Seq(S \cup {g})
    BY <1>1, SeqGrows
  <2> QED
    BY <1>1, <2>1
<1>3. /\ h \in Seq(S \cup {g}) /\ Len(h) = Len(fs) + 1 /\ h[Len(fs) + 1] = g
      /\ \A i \in 1..Len(fs) : h[i] = fs[i]
  <2> DEFINE T == S \cup {g}
  <2>1. fs \in Seq(T) /\ g \in T
    BY <1>2
  <2> HIDE DEF T
  <2>2. /\ h \in Seq(T) /\ Len(h) = Len(fs) + 1 /\ h[Len(fs) + 1] = g
        /\ \A i \in 1..Len(fs) : h[i] = fs[i]
    BY <2>1, AppendProperties
  <2> QED
    BY <2>2 DEF T
<1> HIDE DEF h
<1>4. \A i \in 1..Len(h) : FrameOk(h[i], t, e, escape)
  BY <1>2, <1>3 DEF Nested
<1>5. ASSUME NEW i \in 1..Len(h), NEW j \in 1..Len(h), i < j, h[i].followed
      PROVE  /\ h[j].followed /\ h[i].real \in h[j].chain
             /\ h[j].virt = h[j].source => h[i].real # h[j].real
  <2>1. i \in 1..Len(fs) /\ h[i] = fs[i] /\ (j \in 1..Len(fs) \/ j = Len(fs) + 1)
    BY <1>2, <1>3, <1>5
  <2>2. CASE j \in 1..Len(fs)
    BY <1>3, <1>5, <2>1, <2>2 DEF Nested, Chained, Apart
  <2>3. CASE j = Len(fs) + 1
    BY <1>3, <1>5, <2>1, <2>3
  <2> QED
    BY <2>1, <2>2, <2>3
<1>6. Chained(h) /\ Apart(h)
  BY <1>5 DEF Chained, Apart
<1>7. h # <<>>
  BY <1>2, <1>3, EmptySeq
<1>8. Nested(h, t, e, escape)
  BY <1>3, <1>4, <1>6 DEF Nested
<1> QED
  BY <1>6, <1>7, <1>8 DEF h

LEMMA Popped ==
    ASSUME NEW fs, NEW t, NEW e, NEW escape, Nested(fs, t, e, escape), Apart(fs), fs # <<>>
    PROVE  Nested(Walk!Front(fs), t, e, escape) /\ Apart(Walk!Front(fs))
<1> DEFINE h == Walk!Front(fs)
<1>1. PICK S : fs \in Seq(S)
  BY DEF Nested
<1>2. Len(fs) \in Nat \ {0} /\ \A i \in 1..(Len(fs) - 1) : fs[i] \in S
  BY <1>1, EmptySeq
<1>3. h \in Seq(S) /\ Len(h) = Len(fs) - 1 /\ \A i \in 1..(Len(fs) - 1) : h[i] = fs[i]
  <2> DEFINE n == Len(fs) - 1
  <2>1. n \in Nat /\ n \in Int /\ 1 \in Int /\ \A i \in 1..n : fs[i] \in S
    BY <1>2
  <2> HIDE DEF n
  <2>2. /\ SubSeq(fs, 1, n) \in Seq(S) /\ Len(SubSeq(fs, 1, n)) = IF 1 <= n THEN n - 1 + 1 ELSE 0
        /\ \A i \in 1..(n - 1 + 1) : SubSeq(fs, 1, n)[i] = fs[1 + i - 1]
    BY <2>1, SubSeqProperties
  <2>3. SubSeq(fs, 1, n) \in Seq(S) /\ Len(SubSeq(fs, 1, n)) = n /\ \A i \in 1..n : SubSeq(fs, 1, n)[i] = fs[i]
    BY <2>1, <2>2
  <2> QED
    BY <2>3 DEF n, Walk!Front
<1> HIDE DEF h
<1>4. \A i \in 1..Len(h) : i \in 1..Len(fs) /\ h[i] = fs[i]
  BY <1>2, <1>3
<1>5. \A i \in 1..Len(h) : FrameOk(h[i], t, e, escape)
  BY <1>4 DEF Nested
<1>6. Chained(h) /\ Apart(h)
  BY <1>4 DEF Nested, Chained, Apart
<1>7. Nested(h, t, e, escape)
  BY <1>3, <1>5, <1>6 DEF Nested
<1> QED
  BY <1>6, <1>7 DEF h

-----------------------------------------------------------------------------
(* The invariant.  A file reached through links that is not one of the       *)
(* root's took an edit before it was met and another before it was verified. *)
Linked(v) == v.via.source # <<>>

(* A link is on the way to a path, or at its end. *)
Crosses(t, p) == ~Walk!Linkless(t, Walk!Front(p)) \/ ~Walk!Linkless(t, p)

(* What a visit is while a link is followed.                                 *)
Following(v, step, cur, next, real, hop, seen, hops) ==
    [step |-> step, virt |-> v.virt, link |-> v.link, via |-> v.via,
     target |-> v.target, cur |-> cur, dir |-> v.dir, next |-> next, real |-> real,
     hop |-> hop, seen |-> seen, hops |-> hops, chain |-> v.chain]

Follows(v) == v = Following(v, v.step, v.cur, v.next, v.real, v.hop, v.seen, v.hops)

FollowSteps == {"hop", "arrive", "resolved", "stat"}

FollowOk ==
    visit.step \in FollowSteps =>
        /\ Follows(visit)
        /\ visit.virt \in Path \ {<<>>} /\ frames # <<>> /\ visit.chain = Walk!Top.chain
        /\ visit.step = "arrive" =>
              visit.next \in Path \ {<<>>} /\ (~scope.escape => Walk!WithinRoot(visit.next))
        /\ visit.step \in {"resolved", "stat"} =>
              /\ visit.real \in Path \ {<<>>} /\ (~scope.escape => Walk!WithinRoot(visit.real))
              /\ edits = 0 => Walk!Resolvable(tree, visit.real)

OpenOk ==
    visit.step \in {"open", "verified"} =>
        /\ visit = [step |-> visit.step, virt |-> visit.virt, real |-> visit.real, id |-> visit.id,
                    hops |-> visit.hops, followed |-> visit.followed, via |-> visit.via]
        /\ visit.real \in Path \ {<<>>} /\ (~scope.escape => Walk!WithinRoot(visit.real))
        /\ visit.step = "open" /\ visit.followed /\ ~scope.escape =>
              \/ visit.id \in inside
              \/ Linked(visit) /\ edits >= 2
              \/ Linked(visit) /\ edits = 1 /\ Crosses(tree, visit.real)
        /\ visit.step = "verified" => visit.followed
        /\ visit.step = "verified" /\ ~scope.escape =>
              visit.id \in inside \/ (Linked(visit) /\ edits >= 2)

World == Walk!WellFormed(tree) /\ edits \in Nat /\ Walk!FilesInside(tree) \subseteq inside

WalkOk == World /\ Nested(frames, tree, edits, scope.escape) /\ FollowOk /\ OpenOk

IInv ==
    /\ Walk!NothingFromOutside /\ Apart(frames)
    /\ Walk!Walking => WalkOk

(* Steps that leave the world alone.                                         *)
Still == UNCHANGED <<tree, edits, steady, inside, scope>>

LEMMA NoVisitIsOk == ASSUME visit.step = "none" PROVE FollowOk /\ OpenOk
BY DEF FollowOk, FollowSteps, OpenOk

LEMMA NoVisitIsOkNext == ASSUME visit'.step = "none" PROVE FollowOk' /\ OpenOk'
BY DEF FollowOk, FollowSteps, OpenOk

LEMMA SameManifest ==
    ASSUME Walk!NothingFromOutside, Still, UNCHANGED manifest
    PROVE  Walk!NothingFromOutside'
BY DEF Walk!NothingFromOutside, Still

LEMMA OneMore ==
    ASSUME Walk!NothingFromOutside, Still, NEW v, NEW r, Walk!Recorded(v, r),
           ~scope.escape /\ r.kind = "file" /\ ~r.skipped =>
               r.content \in inside \/ (r.via.source # <<>> /\ edits > 1)
    PROVE  Walk!NothingFromOutside'
<1>1. manifest' = [i \in DOMAIN manifest \cup {v} |-> IF i = v THEN r ELSE manifest[i]]
  BY DEF Walk!Recorded, Walk!With
<1>2. scope' = scope /\ inside' = inside /\ edits' = edits
  BY DEF Still
<1> SUFFICES ASSUME ~scope.escape, NEW w \in DOMAIN manifest',
                    manifest'[w].kind = "file", ~manifest'[w].skipped
             PROVE  \/ manifest'[w].content \in inside
                    \/ manifest'[w].via.source # <<>> /\ edits > 1
  BY <1>2 DEF Walk!NothingFromOutside
<1>3. CASE w = v
  BY <1>1, <1>3
<1>4. CASE w # v
  BY <1>1, <1>4 DEF Walk!NothingFromOutside
<1> QED
  BY <1>3, <1>4

LEMMA SameWorld == ASSUME World, Still PROVE World'
BY DEF World, Still, Walk!WellFormed, Walk!FilesInside

LEMMA Aborts == ASSUME IInv, Walk!Abort PROVE IInv'
<1>1. progress' = "failed" /\ Still /\ UNCHANGED <<frames, manifest>>
  BY DEF Walk!Abort, Walk!world, Walk!found, Still
<1>2. Walk!NothingFromOutside'
  BY <1>1, SameManifest DEF IInv
<1>3. Apart(frames)'
  BY <1>1 DEF IInv, Apart
<1> QED
  BY <1>1, <1>2, <1>3 DEF IInv, Walk!Walking

(* The record of a link or of something special is never a file's.           *)
LEMMA Settles ==
    ASSUME IInv, Walk!Walking, NEW r, r.kind # "file", Walk!Settle(r), Still, UNCHANGED <<frames, progress>>
    PROVE  IInv'
<1>1. Walk!NothingFromOutside'
  <2>1. CASE Walk!Recorded(visit.virt, r)
    BY <2>1, OneMore DEF IInv
  <2>2. CASE UNCHANGED manifest
    BY <2>2, SameManifest DEF IInv
  <2> QED
    BY <2>1, <2>2 DEF Walk!Settle, Walk!Omitted
<1>2. FollowOk' /\ OpenOk'
  BY NoVisitIsOkNext DEF Walk!Settle, Walk!NoVisit
<1>3. World'
  BY SameWorld DEF IInv, WalkOk
<1>4. Nested(frames, tree, edits, scope.escape)' /\ Apart(frames)'
  BY DEF IInv, WalkOk, Still
<1> QED
  BY <1>1, <1>2, <1>3, <1>4 DEF IInv, WalkOk

LEMMA Breaks == ASSUME IInv, Walk!Walking, Walk!Broken PROVE IInv'
<1>1. CASE Walk!Abort
  BY <1>1, Aborts
<1>2. CASE ~Walk!Abort
  <2> DEFINE r == Walk!Record("symlink", FALSE,
                       IF Walk!LeafInScope THEN tree[Walk!InParent(tree, visit.link)].to ELSE <<>>, visit.via)
  <2>1. Walk!Settle(r) /\ Still /\ UNCHANGED <<frames, progress>>
    BY <1>2 DEF Walk!Broken, Walk!world, Still
  <2>2. r.kind # "file"
    BY DEF Walk!Record
  <2> QED
    BY <2>1, <2>2, Settles
<1> QED
  BY <1>1, <1>2

-----------------------------------------------------------------------------
(* Entering directories.                                                     *)
LEMMA LastLeads ==
    ASSUME NEW fs, NEW t, NEW e, NEW escape, Nested(fs, t, e, escape), fs # <<>>
    PROVE  /\ FrameOk(fs[Len(fs)], t, e, escape) /\ Len(fs) \in Nat \ {0}
           /\ \A i \in 1..Len(fs) : fs[i].followed =>
                 fs[Len(fs)].followed /\ fs[i].real \in fs[Len(fs)].chain
<1>1. PICK S : fs \in Seq(S)
  BY DEF Nested
<1>2. Len(fs) \in Nat \ {0}
  BY <1>1, EmptySeq
<1>3. FrameOk(fs[Len(fs)], t, e, escape)
  BY <1>2 DEF Nested
<1>4. ASSUME NEW i \in 1..Len(fs), fs[i].followed
      PROVE  fs[Len(fs)].followed /\ fs[i].real \in fs[Len(fs)].chain
  <2>1. CASE i = Len(fs)
    BY <1>3, <1>4, <2>1 DEF FrameOk
  <2>2. CASE i # Len(fs)
    <3>1. i < Len(fs) /\ Len(fs) \in 1..Len(fs)
      BY <1>2, <2>2
    <3> QED
      BY <1>4, <3>1 DEF Nested, Chained
  <2> QED
    BY <2>1, <2>2
<1> QED
  BY <1>2, <1>3, <1>4

LEMMA TopIs ==
    ASSUME WalkOk, frames # <<>>
    PROVE  FrameOk(Walk!Top, tree, edits, scope.escape)
BY LastLeads DEF WalkOk, Walk!Top

(* The top in another form.                                                  *)
LEMMA TopChanges ==
    ASSUME IInv, Walk!Walking, frames # <<>>, NEW g, FrameOk(g, tree, edits, scope.escape),
           g.real = Walk!Top.real, g.virt = Walk!Top.virt, g.chain = Walk!Top.chain,
           g.source = Walk!Top.source, g.followed = Walk!Top.followed
    PROVE  /\ Nested(Walk!WithTop(g), tree, edits, scope.escape) /\ Apart(Walk!WithTop(g))
           /\ Len(Walk!WithTop(g)) = Len(frames) /\ Walk!WithTop(g) # <<>>
           /\ Walk!WithTop(g)[Len(Walk!WithTop(g))] = g /\ Len(frames) \in Nat \ {0}
<1>1. Nested(frames, tree, edits, scope.escape) /\ Apart(frames)
  BY DEF IInv, WalkOk
<1>2. /\ g.real = frames[Len(frames)].real /\ g.virt = frames[Len(frames)].virt
      /\ g.chain = frames[Len(frames)].chain /\ g.source = frames[Len(frames)].source
      /\ g.followed = frames[Len(frames)].followed
  BY DEF Walk!Top
<1> QED
  BY <1>1, <1>2, Reframed DEF Walk!WithTop

LEMMA TopMoves ==
    ASSUME IInv, Walk!Walking, visit.step = "none", frames # <<>>,
           NEW g, FrameOk(g, tree, edits, scope.escape),
           g.real = Walk!Top.real, g.virt = Walk!Top.virt, g.chain = Walk!Top.chain,
           g.source = Walk!Top.source, g.followed = Walk!Top.followed,
           frames' = Walk!WithTop(g), Still, visit' = visit, Walk!NothingFromOutside'
    PROVE  IInv'
<1>1. Nested(frames', tree, edits, scope.escape) /\ Apart(frames')
  BY TopChanges
<1>2. Nested(frames, tree, edits, scope.escape)' /\ Apart(frames)'
  BY <1>1 DEF Still
<1>3. World'
  BY SameWorld DEF IInv, WalkOk
<1>4. FollowOk' /\ OpenOk'
  BY NoVisitIsOkNext
<1> QED
  BY <1>2, <1>3, <1>4 DEF IInv, WalkOk

LEMMA LoadDirKeeps == ASSUME IInv, Walk!LoadDir PROVE IInv'
<1>1. Walk!Walking /\ visit.step = "none" /\ frames # <<>> /\ Still /\ visit' = visit /\ UNCHANGED manifest
  BY DEF Walk!LoadDir, Walk!world, Walk!found, Still
<1> DEFINE f == Walk!Top  g == [f EXCEPT !.step = "list"]
<1>2. frames' = Walk!WithTop(g)
  BY DEF Walk!LoadDir
<1>3. FrameOk(f, tree, edits, scope.escape)
  BY <1>1, TopIs DEF IInv
<1> HIDE DEF f
<1>4. g = [real |-> f.real, virt |-> f.virt, depth |-> f.depth, chain |-> f.chain,
           source |-> f.source, hops |-> f.hops, followed |-> f.followed, step |-> "list",
           left |-> f.left]
  BY <1>3 DEF FrameOk
<1>5. /\ g.real = f.real /\ g.virt = f.virt /\ g.chain = f.chain /\ g.source = f.source
      /\ g.followed = f.followed /\ g.left = f.left
      /\ g = [real |-> g.real, virt |-> g.virt, depth |-> g.depth, chain |-> g.chain,
              source |-> g.source, hops |-> g.hops, followed |-> g.followed, step |-> g.step,
              left |-> g.left]
  BY <1>4
<1> HIDE DEF g
<1>6. FrameOk(g, tree, edits, scope.escape)
  BY <1>3, <1>5 DEF FrameOk
<1>7. Walk!NothingFromOutside'
  BY <1>1, SameManifest DEF IInv
<1> QED
  BY <1>1, <1>2, <1>5, <1>6, <1>7, TopMoves DEF f

LEMMA Twice ==
    ASSUME NEW f, NEW s, NEW l
    PROVE  [f EXCEPT !.step = s, !.left = l] = [[f EXCEPT !.step = s] EXCEPT !.left = l]
  OBVIOUS

LEMMA ListDirKeeps == ASSUME IInv, Walk!ListDir PROVE IInv'
<1>1. Walk!Walking /\ visit.step = "none" /\ frames # <<>> /\ Still /\ visit' = visit /\ UNCHANGED manifest
  BY DEF Walk!ListDir, Walk!world, Walk!found, Still
<1> DEFINE f == Walk!Top
           d == Walk!Real(tree, f.real, LinkBudget)
           names == Walk!Children(tree, d)
           left == [i \in 1..Len(names) |->
                       [name |-> names[i], kind |-> tree[Append(d, names[i])].kind]]
           g == [f EXCEPT !.step = "entries", !.left = left]
<1>2. frames' = Walk!WithTop(g)
  BY DEF Walk!ListDir
<1>3. FrameOk(f, tree, edits, scope.escape) /\ Walk!WellFormed(tree)
  BY <1>1, TopIs DEF IInv, WalkOk, World
<1>4. edits = 0 => d = f.real
  BY <1>3, ThereIsItself DEF FrameOk
<1>5. names \in Seq(Strings) /\ \A k \in 1..Len(names) : Append(d, names[k]) \in DOMAIN tree
  BY ChildrenAre
<1> HIDE DEF f, d, names
<1>6. Len(names) \in Nat /\ \A k \in 1..Len(names) : names[k] \in Names
  <2>1. \A k \in 1..Len(names) : names[k] \in Strings
    BY <1>5, ElementOfSeq
  <2> QED
    BY <1>5, <2>1 DEF Names
<1>7. left \in Seq({left[i] : i \in 1..Len(names)}) /\ Len(left) = Len(names)
  <2> DEFINE T == {left[i] : i \in 1..Len(names)}
  <2>1. left \in [1..Len(names) -> T]
    OBVIOUS
  <2> HIDE DEF T, left
  <2>2. left \in Seq(T)
    BY <1>6, <2>1, SeqDef
  <2>3. Len(left) = Len(names)
    BY <1>6, <2>1, <2>2, LenProperties
  <2> QED
    BY <2>2, <2>3 DEF T
<1>8. \A k \in 1..Len(left) : /\ left[k].name = names[k]
                               /\ left[k].kind = tree[Append(d, names[k])].kind
  BY <1>7
<1> HIDE DEF left
<1>9. g = [real |-> f.real, virt |-> f.virt, depth |-> f.depth, chain |-> f.chain,
           source |-> f.source, hops |-> f.hops, followed |-> f.followed, step |-> "entries",
           left |-> left]
  <2> DEFINE h == [f EXCEPT !.step = "entries"]
  <2>1. h = [real |-> f.real, virt |-> f.virt, depth |-> f.depth, chain |-> f.chain,
             source |-> f.source, hops |-> f.hops, followed |-> f.followed, step |-> "entries",
             left |-> f.left]
    BY <1>3 DEF FrameOk
  <2>2. g = [h EXCEPT !.left = left]
    BY Twice
  <2> HIDE DEF h
  <2>3. [h EXCEPT !.left = left]
          = [real |-> f.real, virt |-> f.virt, depth |-> f.depth, chain |-> f.chain,
             source |-> f.source, hops |-> f.hops, followed |-> f.followed, step |-> "entries",
             left |-> left]
    BY <2>1
  <2> QED
    BY <2>2, <2>3
<1>10. /\ g.real = f.real /\ g.virt = f.virt /\ g.chain = f.chain /\ g.source = f.source
       /\ g.followed = f.followed /\ g.left = left
       /\ g = [real |-> g.real, virt |-> g.virt, depth |-> g.depth, chain |-> g.chain,
               source |-> g.source, hops |-> g.hops, followed |-> g.followed, step |-> g.step,
               left |-> g.left]
  BY <1>9
<1> HIDE DEF g
<1>11. \E S : g.left \in Seq(S)
  BY <1>7, <1>10
<1>12. \A k \in 1..Len(g.left) :
          /\ g.left[k].name \in Names
          /\ edits = 0 => /\ Append(g.real, g.left[k].name) \in DOMAIN tree
                          /\ tree[Append(g.real, g.left[k].name)].kind = g.left[k].kind
  BY <1>4, <1>5, <1>6, <1>7, <1>8, <1>10
<1>13. FrameOk(g, tree, edits, scope.escape)
  BY <1>3, <1>10, <1>11, <1>12 DEF FrameOk
<1>14. Walk!NothingFromOutside'
  BY <1>1, SameManifest DEF IInv
<1> QED
  BY <1>1, <1>2, <1>10, <1>13, <1>14, TopMoves DEF f

LEMMA LeaveDirKeeps == ASSUME IInv, Walk!LeaveDir PROVE IInv'
<1>1. /\ Walk!Walking /\ visit.step = "none" /\ frames # <<>> /\ Still /\ visit' = visit
      /\ UNCHANGED manifest /\ frames' = Walk!Front(frames)
  BY DEF Walk!LeaveDir, Walk!world, Walk!found, Still
<1>2. Nested(frames', tree, edits, scope.escape) /\ Apart(frames')
  BY <1>1, Popped DEF IInv, WalkOk
<1>3. Nested(frames, tree, edits, scope.escape)' /\ Apart(frames)'
  BY <1>1, <1>2 DEF Still
<1>4. World' /\ Walk!NothingFromOutside'
  BY <1>1, SameWorld, SameManifest DEF IInv, WalkOk
<1>5. FollowOk' /\ OpenOk'
  BY <1>1, NoVisitIsOkNext
<1> QED
  BY <1>3, <1>4, <1>5 DEF IInv, WalkOk

-----------------------------------------------------------------------------
(* One entry.                                                                *)
LEMMA EntryIs ==
    ASSUME IInv, Walk!AtEntry
    PROVE  /\ Walk!Walking /\ visit.step = "none" /\ frames # <<>> /\ Walk!WellFormed(tree)
           /\ FrameOk(Walk!Top, tree, edits, scope.escape)
           /\ Walk!There \in Path \ {<<>>} /\ Walk!Front(Walk!There) = Walk!Top.real
           /\ Walk!Last(Walk!There) = Walk!Entry.name
           /\ Walk!Here \in Path \ {<<>>} /\ Len(Walk!Here) = Len(Walk!Top.virt) + 1
           /\ ~scope.escape => Walk!WithinRoot(Walk!There)
           /\ edits = 0 => Walk!There \in DOMAIN tree /\ tree[Walk!There].kind = Walk!Entry.kind
<1>1. Walk!Walking /\ visit.step = "none" /\ frames # <<>> /\ Walk!Top.left # <<>>
  BY DEF Walk!AtEntry
<1>2. FrameOk(Walk!Top, tree, edits, scope.escape) /\ Walk!WellFormed(tree)
  BY <1>1, TopIs DEF IInv, WalkOk, World
<1>3. 1 \in 1..Len(Walk!Top.left)
  <2>1. PICK S : Walk!Top.left \in Seq(S)
    BY <1>2 DEF FrameOk
  <2>2. Len(Walk!Top.left) \in Nat \ {0}
    BY <1>1, <2>1, EmptySeq
  <2> QED
    BY <2>2
<1>4. /\ Walk!Entry.name \in Names /\ Walk!Top.real \in Path /\ Walk!Top.virt \in Path
      /\ edits = 0 => Walk!There \in DOMAIN tree /\ tree[Walk!There].kind = Walk!Entry.kind
      /\ ~scope.escape => Walk!WithinRoot(Walk!Top.real)
  BY <1>2, <1>3 DEF FrameOk, Walk!Entry, Walk!There
<1>5. /\ Walk!There \in Path \ {<<>>} /\ Walk!Front(Walk!There) = Walk!Top.real
      /\ Walk!Last(Walk!There) = Walk!Entry.name
      /\ Walk!Here \in Path \ {<<>>} /\ Len(Walk!Here) = Len(Walk!Top.virt) + 1
  BY <1>4, Longer DEF Walk!There, Walk!Here
<1>6. ~scope.escape => Walk!WithinRoot(Walk!There)
  BY <1>4, WithinGoesDown DEF Walk!There
<1> QED
  BY <1>1, <1>2, <1>4, <1>5, <1>6

LEMMA Rest ==
    ASSUME NEW S, NEW s \in Seq(S), s # <<>>
    PROVE  /\ Tail(s) \in Seq(S) /\ Len(s) \in Nat \ {0} /\ Len(Tail(s)) = Len(s) - 1
           /\ \A k \in 1..(Len(s) - 1) : Tail(s)[k] = s[k + 1]
<1>1. Len(s) \in Nat \ {0}
  BY EmptySeq
<1>2. /\ Tail(s) \in Seq(S) /\ Len(Tail(s)) = Len(s) - 1
      /\ \A k \in 1..Len(Tail(s)) : Tail(s)[k] = s[k + 1]
  BY HeadTailProperties
<1> QED
  BY <1>1, <1>2

LEMMA Relisted ==
    ASSUME NEW f, NEW t, NEW e, NEW escape, FrameOk(f, t, e, escape), NEW l
    PROVE  [f EXCEPT !.left = l]
           = [real |-> f.real, virt |-> f.virt, depth |-> f.depth, chain |-> f.chain,
              source |-> f.source, hops |-> f.hops, followed |-> f.followed, step |-> f.step,
              left |-> l]
BY DEF FrameOk

LEMMA PassedIs ==
    ASSUME IInv, Walk!AtEntry
    PROVE  /\ FrameOk(Walk!Passed, tree, edits, scope.escape)
           /\ Walk!Passed.real = Walk!Top.real /\ Walk!Passed.virt = Walk!Top.virt
           /\ Walk!Passed.chain = Walk!Top.chain /\ Walk!Passed.source = Walk!Top.source
           /\ Walk!Passed.followed = Walk!Top.followed
<1> DEFINE f == Walk!Top  g == [f EXCEPT !.left = Tail(f.left)]
<1>1. FrameOk(f, tree, edits, scope.escape) /\ f.left # <<>>
  BY EntryIs DEF Walk!AtEntry
<1>2. Walk!Passed = g
  BY DEF Walk!Passed
<1> HIDE DEF f
<1>3. PICK S : f.left \in Seq(S)
  BY <1>1 DEF FrameOk
<1> DEFINE tail == Tail(f.left)
<1>4. /\ tail \in Seq(S) /\ Len(f.left) \in Nat \ {0} /\ Len(tail) = Len(f.left) - 1
      /\ \A k \in 1..(Len(f.left) - 1) : tail[k] = f.left[k + 1]
  BY <1>1, <1>3, Rest
<1>5. g = [real |-> f.real, virt |-> f.virt, depth |-> f.depth, chain |-> f.chain,
           source |-> f.source, hops |-> f.hops, followed |-> f.followed, step |-> f.step,
           left |-> tail]
  BY <1>1, Relisted
<1> HIDE DEF tail
<1>6. /\ g.real = f.real /\ g.virt = f.virt /\ g.chain = f.chain /\ g.source = f.source
      /\ g.followed = f.followed /\ g.left = tail
      /\ g = [real |-> g.real, virt |-> g.virt, depth |-> g.depth, chain |-> g.chain,
              source |-> g.source, hops |-> g.hops, followed |-> g.followed, step |-> g.step,
              left |-> g.left]
  BY <1>5
<1> HIDE DEF g
<1>7. ASSUME NEW k \in 1..Len(g.left)
      PROVE  /\ g.left[k].name \in Names
             /\ edits = 0 => /\ Append(g.real, g.left[k].name) \in DOMAIN tree
                             /\ tree[Append(g.real, g.left[k].name)].kind = g.left[k].kind
  <2>1. k + 1 \in 1..Len(f.left) /\ g.left[k] = f.left[k + 1]
    BY <1>4, <1>6
  <2> QED
    BY <1>1, <1>6, <2>1 DEF FrameOk
<1>8. FrameOk(g, tree, edits, scope.escape)
  BY <1>1, <1>4, <1>6, <1>7 DEF FrameOk
<1> QED
  BY <1>2, <1>6, <1>8 DEF f

(* An entry that is recorded as anything but a file that was read.           *)
LEMMA PassKeeps ==
    ASSUME IInv, Walk!AtEntry, Still, frames' = Walk!WithTop(Walk!Passed), visit' = visit,
           \/ UNCHANGED manifest
           \/ \E v, r : Walk!Recorded(v, r) /\ r.kind # "file"
    PROVE  IInv'
<1>1. Walk!NothingFromOutside'
  <2>1. CASE UNCHANGED manifest
    BY <2>1, SameManifest DEF IInv
  <2>2. CASE \E v, r : Walk!Recorded(v, r) /\ r.kind # "file"
    BY <2>2, OneMore DEF IInv
  <2> QED
    BY <2>1, <2>2
<1> QED
  BY <1>1, EntryIs, PassedIs, TopMoves

LEMMA BarKeeps == ASSUME IInv, Walk!Bar PROVE IInv'
<1>1. Walk!AtEntry /\ Still /\ frames' = Walk!WithTop(Walk!Passed) /\ visit' = visit /\ UNCHANGED manifest
  BY DEF Walk!Bar, Walk!Omitted, Walk!world, Still
<1> QED
  BY <1>1, PassKeeps

LEMMA IgnoreKeeps == ASSUME IInv, Walk!Ignore PROVE IInv'
<1>1. Walk!AtEntry /\ Still /\ frames' = Walk!WithTop(Walk!Passed) /\ visit' = visit /\ UNCHANGED manifest
  BY DEF Walk!Ignore, Walk!Unbarred, Walk!Omitted, Walk!world, Still
<1> QED
  BY <1>1, PassKeeps

LEMMA RecordLinkKeeps == ASSUME IInv, Walk!RecordLink PROVE IInv'
<1> DEFINE r == Walk!Record("symlink", FALSE, tree[Walk!InParent(tree, Walk!There)].to, Walk!ViaTop)
<1>1. /\ Walk!AtEntry /\ Still /\ frames' = Walk!WithTop(Walk!Passed) /\ visit' = visit
      /\ Walk!Recorded(Walk!Here, r)
  BY DEF Walk!RecordLink, Walk!Unbarred, Walk!world, Still
<1>2. r.kind # "file"
  BY DEF Walk!Record
<1> QED
  BY <1>1, <1>2, PassKeeps

LEMMA Enters ==
    ASSUME IInv, Walk!Walking, Still, \E v, r : Walk!Recorded(v, r) /\ r.kind # "file",
           visit'.step = "none", Nested(frames', tree, edits, scope.escape), Apart(frames')
    PROVE  IInv'
<1>1. Walk!NothingFromOutside'
  BY OneMore DEF IInv
<1>2. Nested(frames, tree, edits, scope.escape)' /\ Apart(frames)'
  BY DEF Still
<1>3. World'
  BY SameWorld DEF IInv, WalkOk
<1> QED
  BY <1>1, <1>2, <1>3, NoVisitIsOkNext DEF IInv, WalkOk

(* A directory, real or followed, is entered as what its listing named.      *)
LEMMA EnterDirKeeps == ASSUME IInv, Walk!EnterDir PROVE IInv'
<1> DEFINE fs == Walk!WithTop(Walk!Passed)
           direct == Walk!Frame(Walk!There, Walk!Here, 0, {}, <<>>, <<>>, FALSE)
           below == Walk!Frame(Walk!There, Walk!Here, Walk!Top.depth,
                               Walk!ChainWith(Walk!Top.chain, Walk!There),
                               Walk!Top.source, Walk!Top.hops, TRUE)
           g == IF Walk!Top.followed THEN below ELSE direct
           r == Walk!Record("dir", FALSE, "", Walk!ViaTop)
<1>1. /\ Walk!AtEntry /\ Still /\ visit' = visit /\ Walk!Recorded(Walk!Here, r)
      /\ frames' = Append(fs, g) /\ Walk!Entry.kind = "dir"
  BY DEF Walk!EnterDir, Walk!Unbarred, Walk!world, Still
<1>2. /\ Walk!Walking /\ visit.step = "none" /\ frames # <<>>
      /\ FrameOk(Walk!Top, tree, edits, scope.escape)
      /\ Walk!There \in Path /\ Walk!Here \in Path /\ Len(Walk!Here) = Len(Walk!Top.virt) + 1
      /\ ~scope.escape => Walk!WithinRoot(Walk!There)
      /\ edits = 0 => Walk!There \in DOMAIN tree /\ tree[Walk!There].kind = "dir"
  BY <1>1, EntryIs
<1>3. /\ Nested(fs, tree, edits, scope.escape) /\ Apart(fs) /\ fs # <<>>
      /\ fs[Len(fs)] = Walk!Passed
  BY <1>1, <1>2, PassedIs, TopChanges
<1>4. \A i \in 1..Len(fs) : fs[i].followed => Walk!Top.followed /\ fs[i].real \in Walk!Top.chain
  <2> HIDE DEF fs
  <2> QED
    BY <1>1, <1>3, LastLeads, PassedIs
<1> HIDE DEF fs
<1>5. /\ <<>> \in Seq({}) /\ Len(<<>>) = 0
  BY EmptySeq
<1>8. /\ visit'.step = "none" /\ Walk!Walking /\ Still
      /\ \E v, s : Walk!Recorded(v, s) /\ s.kind # "file"
  <2>1. r.kind # "file"
    BY DEF Walk!Record
  <2> HIDE DEF r
  <2> QED
    BY <1>1, <1>2, <2>1
<1>6. CASE Walk!Top.followed
  <2>1. g = below
    BY <1>6
  <2>2. below = [real |-> Walk!There, virt |-> Walk!Here, depth |-> Walk!Top.depth,
                 chain |-> Walk!Top.chain \cup {Walk!There}, source |-> Walk!Top.source,
                 hops |-> Walk!Top.hops, followed |-> TRUE, step |-> "load", left |-> <<>>]
    BY DEF Walk!Frame, Walk!ChainWith
  <2> HIDE DEF below
  <2>3. /\ below.real = Walk!There /\ below.virt = Walk!Here /\ below.source = Walk!Top.source
        /\ below.chain = Walk!Top.chain \cup {Walk!There} /\ below.followed = TRUE /\ below.left = <<>>
        /\ below = [real |-> below.real, virt |-> below.virt, depth |-> below.depth,
                    chain |-> below.chain, source |-> below.source, hops |-> below.hops,
                    followed |-> below.followed, step |-> below.step, left |-> below.left]
    BY <2>2
  <2>4. /\ Walk!Top.source \in Path \ {<<>>} /\ Len(Walk!Top.source) <= Len(Walk!Top.virt)
        /\ Len(Walk!Top.source) \in Nat /\ Len(Walk!Top.virt) \in Nat
    BY <1>2, <1>6 DEF FrameOk, Path
  <2>5. Len(Walk!Top.source) <= Len(Walk!Here) /\ Walk!Here # Walk!Top.source
    BY <1>2, <2>4
  <2>6. \E S : below.left \in Seq(S)
    BY <1>5, <2>3
  <2>7. \A k \in 1..Len(below.left) : FALSE
    BY <1>5, <2>3
  <2>8. FrameOk(below, tree, edits, scope.escape)
    BY <1>2, <2>3, <2>4, <2>5, <2>6, <2>7 DEF FrameOk
  <2>9. Nested(frames', tree, edits, scope.escape) /\ Apart(frames')
    <3>1. \A i \in 1..Len(fs) : fs[i].followed =>
              /\ below.followed /\ fs[i].real \in below.chain
              /\ below.virt = below.source => fs[i].real # below.real
      BY <1>4, <2>3, <2>5
    <3> QED
      BY <1>1, <1>3, <2>1, <2>8, <3>1, Pushed
  <2> QED
    BY <1>8, <2>9, Enters
<1>7. CASE ~Walk!Top.followed
  <2>1. g = direct
    BY <1>7
  <2>2. direct = [real |-> Walk!There, virt |-> Walk!Here, depth |-> 0, chain |-> {}, source |-> <<>>,
                  hops |-> <<>>, followed |-> FALSE, step |-> "load", left |-> <<>>]
    BY DEF Walk!Frame
  <2> HIDE DEF direct
  <2>3. /\ direct.real = Walk!There /\ direct.virt = Walk!Here
        /\ direct.followed = FALSE /\ direct.left = <<>>
        /\ direct = [real |-> direct.real, virt |-> direct.virt, depth |-> direct.depth,
                    chain |-> direct.chain, source |-> direct.source, hops |-> direct.hops,
                    followed |-> direct.followed, step |-> direct.step, left |-> direct.left]
    BY <2>2
  <2>4. \E S : direct.left \in Seq(S)
    BY <1>5, <2>3
  <2>5. \A k \in 1..Len(direct.left) : FALSE
    BY <1>5, <2>3
  <2>6. FrameOk(direct, tree, edits, scope.escape)
    BY <1>2, <2>3, <2>4, <2>5 DEF FrameOk
  <2>7. Nested(frames', tree, edits, scope.escape) /\ Apart(frames')
    BY <1>1, <1>3, <1>4, <1>7, <2>1, <2>6, Pushed
  <2> QED
    BY <1>8, <2>7, Enters
<1> QED
  BY <1>6, <1>7

LEMMA StartFollowKeeps == ASSUME IInv, Walk!StartFollow PROVE IInv'
<1> DEFINE fs == Walk!WithTop(Walk!Passed)
<1>1. /\ Walk!AtEntry /\ Still /\ frames' = fs /\ UNCHANGED manifest
      /\ visit' = [step |-> "hop", virt |-> Walk!Here, link |-> Walk!There, via |-> Walk!ViaTop,
                   target |-> tree[Walk!InParent(tree, Walk!There)].to,
                   cur |-> Walk!InParent(tree, Walk!There),
                   dir |-> Walk!Front(Walk!InParent(tree, Walk!There)),
                   next |-> <<>>, real |-> <<>>, hop |-> Walk!Top.depth + 1, seen |-> {},
                   hops |-> Walk!Top.hops, chain |-> Walk!Top.chain]
  BY DEF Walk!StartFollow, Walk!Unbarred, Walk!world, Walk!found, Still
<1>2. Walk!Walking /\ visit.step = "none" /\ frames # <<>> /\ Walk!Here \in Path \ {<<>>}
  BY <1>1, EntryIs
<1>3. /\ Nested(fs, tree, edits, scope.escape) /\ Apart(fs) /\ fs # <<>> /\ fs[Len(fs)] = Walk!Passed
      /\ Walk!Passed.chain = Walk!Top.chain
  BY <1>1, <1>2, PassedIs, TopChanges
<1> HIDE DEF fs
<1>4. Walk!Top'.chain = Walk!Top.chain
  BY <1>1, <1>3 DEF Walk!Top
<1>5. /\ visit'.step = "hop" /\ visit'.virt = Walk!Here /\ visit'.chain = Walk!Top.chain
      /\ Follows(visit')
  BY <1>1 DEF Follows, Following
<1>6. FollowOk' /\ OpenOk'
  BY <1>1, <1>2, <1>3, <1>4, <1>5 DEF FollowOk, FollowSteps, OpenOk
<1> QED
  BY <1>1, <1>2, <1>3, <1>6, SameManifest, SameWorld DEF IInv, WalkOk, Still

LEMMA GoneKeeps == ASSUME IInv, Walk!DirGone \/ Walk!EntryGone PROVE IInv'
BY Aborts DEF Walk!DirGone, Walk!EntryGone

(* What is in the worktree within the root is inside.                        *)
LEMMA WithinIsInside ==
    ASSUME World, NEW p \in DOMAIN tree, Walk!WithinRoot(p), tree[p].kind = "file"
    PROVE  tree[p].id \in inside
BY DEF World, Walk!FilesInside

LEMMA MetThere ==
    ASSUME IInv, Walk!AtEntry, ~scope.escape, Walk!Lstat(tree, Walk!There) # "none",
           tree[Walk!InParent(tree, Walk!There)].kind = "file"
    PROVE  \/ tree[Walk!InParent(tree, Walk!There)].id \in inside
           \/ edits >= 2
           \/ edits = 1 /\ ~Walk!Linkless(tree, Walk!Front(Walk!There))
<1> DEFINE dir == Walk!Top.real
<1>1. /\ Walk!Walking /\ Walk!WellFormed(tree) /\ Walk!Front(Walk!There) = dir
      /\ Walk!There = Append(dir, Walk!Last(Walk!There))
      /\ Walk!WithinRoot(Walk!There) /\ Walk!There \in Path
      /\ edits = 0 => dir \in DOMAIN tree /\ tree[dir].kind = "dir"
  BY EntryIs DEF FrameOk, Walk!There
<1>2. World /\ edits \in Nat
  BY <1>1 DEF IInv, WalkOk, World
<1>3. CASE Walk!Linkless(tree, dir)
  <2>1. Walk!InParent(tree, Walk!There) = Walk!There
    BY <1>1, <1>3 DEF Walk!InParent, Walk!Real
  <2>2. Walk!There \in DOMAIN tree
    BY <2>1 DEF Walk!Lstat, Walk!KindAt
  <2> QED
    BY <1>1, <1>2, <2>1, <2>2, WithinIsInside
<1>4. CASE ~Walk!Linkless(tree, dir)
  <2>1. edits # 0
    <3> SUFFICES ASSUME edits = 0 PROVE FALSE
      OBVIOUS
    <3>1. dir \in DOMAIN tree /\ tree[dir].kind # "link"
      BY <1>1
    <3> HIDE DEF dir
    <3> QED
      BY <1>1, <1>4, <3>1, ThereIsItself
  <2> QED
    BY <1>1, <1>2, <1>4, <2>1
<1> QED
  BY <1>3, <1>4

LEMMA MeetFileKeeps == ASSUME IInv, Walk!MeetFile PROVE IInv'
<1> DEFINE fs == Walk!WithTop(Walk!Passed)
           node == tree[Walk!InParent(tree, Walk!There)]
           r == Walk!Record("special", TRUE, "", Walk!ViaTop)
<1>1. /\ Walk!AtEntry /\ Still /\ frames' = fs /\ Walk!Lstat(tree, Walk!There) # "none"
      /\ UNCHANGED progress
  BY DEF Walk!MeetFile, Walk!Unbarred, Walk!world, Still
<1>2. CASE node.kind = "file"
  <2>1. /\ UNCHANGED manifest
        /\ visit' = [step |-> "open", virt |-> Walk!Here, real |-> Walk!There, id |-> node.id,
                     hops |-> Walk!Top.hops, followed |-> Walk!Top.followed, via |-> Walk!ViaTop]
    BY <1>2 DEF Walk!MeetFile, Walk!found
  <2>2. /\ Walk!Walking /\ visit.step = "none" /\ frames # <<>> /\ Walk!Here \in Path \ {<<>>}
        /\ FrameOk(Walk!Top, tree, edits, scope.escape)
        /\ Walk!There \in Path \ {<<>>} /\ Len(Walk!Here) = Len(Walk!Top.virt) + 1
        /\ ~scope.escape => Walk!WithinRoot(Walk!There)
    BY <1>1, EntryIs
  <2>3. Nested(fs, tree, edits, scope.escape) /\ Apart(fs)
    BY <1>1, <2>2, PassedIs, TopChanges
  <2>4. ~scope.escape =>
          \/ node.id \in inside
          \/ edits >= 2
          \/ edits = 1 /\ ~Walk!Linkless(tree, Walk!Front(Walk!There))
    BY <1>1, <1>2, MetThere
  <2>5. Walk!Top.followed => Walk!ViaTop.source # <<>>
    BY <2>2 DEF FrameOk, Walk!ViaTop
  <2> HIDE DEF fs, node
  <2>6. /\ visit'.step = "open" /\ visit'.virt = Walk!Here /\ visit'.real = Walk!There
        /\ visit'.id = node.id /\ visit'.followed = Walk!Top.followed /\ visit'.via = Walk!ViaTop
        /\ visit' = [step |-> visit'.step, virt |-> visit'.virt, real |-> visit'.real, id |-> visit'.id,
                     hops |-> visit'.hops, followed |-> visit'.followed, via |-> visit'.via]
    BY <2>1
  <2>7. visit'.followed => Linked(visit')
    BY <2>5, <2>6 DEF Linked
  <2>8. Still /\ scope' = scope /\ tree' = tree /\ edits' = edits /\ inside' = inside
    BY <1>1 DEF Still
  <2>9. ~scope.escape =>
          \/ visit'.id \in inside
          \/ edits >= 2
          \/ edits = 1 /\ Crosses(tree, visit'.real)
    BY <2>4, <2>6 DEF Crosses
  <2>10. FollowOk'
    BY <2>6 DEF FollowOk, FollowSteps
  <2>11. OpenOk'
    <3>1. visit'.real \in Path \ {<<>>} /\ (~scope.escape => Walk!WithinRoot(visit'.real))
      BY <2>2, <2>6
    <3> QED
      BY <2>6, <2>7, <2>8, <2>9, <3>1 DEF OpenOk
  <2>12. Nested(frames, tree, edits, scope.escape)' /\ Apart(frames)'
    BY <1>1, <2>3, <2>8
  <2>13. Walk!NothingFromOutside' /\ World'
    BY <2>1, <2>2, <2>8, SameManifest, SameWorld DEF IInv, WalkOk
  <2> QED
    BY <2>10, <2>11, <2>12, <2>13 DEF IInv, WalkOk
<1>3. CASE node.kind # "file"
  <2>1. Walk!Recorded(Walk!Here, r) /\ visit' = visit
    BY <1>3 DEF Walk!MeetFile
  <2>2. r.kind # "file"
    BY DEF Walk!Record
  <2> QED
    BY <1>1, <2>1, <2>2, PassKeeps
<1> QED
  BY <1>2, <1>3

-----------------------------------------------------------------------------
(* One hop after another.                                                    *)
LEMMA SkipKeeps ==
    ASSUME IInv, Walk!Walking, Walk!SkipLink, UNCHANGED <<Walk!world, scope, frames, progress>>
    PROVE  IInv'
<1> DEFINE r == Walk!Record("symlink", TRUE, visit.target, visit.via)
<1>1. Walk!Settle(r) /\ Still /\ UNCHANGED <<frames, progress>>
  BY DEF Walk!SkipLink, Walk!world, Still
<1>2. r.kind # "file"
  BY DEF Walk!Record
<1> QED
  BY <1>1, <1>2, Settles

LEMMA RefuseHopKeeps == ASSUME IInv, Walk!RefuseHop PROVE IInv'
BY SkipKeeps DEF Walk!RefuseHop, Walk!Hopping

LEMMA CutCycleKeeps == ASSUME IInv, Walk!CutCycle PROVE IInv'
BY SkipKeeps DEF Walk!CutCycle, Walk!At

LEMMA ReachSpecialKeeps == ASSUME IInv, Walk!ReachSpecial PROVE IInv'
<1> DEFINE r == Walk!Record("special", TRUE, "", Walk!Via)
<1>1. Walk!Walking /\ Walk!Settle(r) /\ Still /\ UNCHANGED <<frames, progress>>
  BY DEF Walk!ReachSpecial, Walk!At, Walk!world, Still
<1>2. r.kind # "file"
  BY DEF Walk!Record
<1> QED
  BY <1>1, <1>2, Settles

LEMMA BrokenHopKeeps == ASSUME IInv, Walk!BrokenHop PROVE IInv'
BY Breaks DEF Walk!BrokenHop, Walk!Hopping

(* A visit that goes on following, from the same directory.                  *)
LEMMA FollowsOn ==
    ASSUME IInv, Walk!Walking, visit.step \in FollowSteps, visit'.step \in FollowSteps,
           Follows(visit'),
           visit'.virt = visit.virt, visit'.chain = visit.chain,
           visit'.step = "arrive" =>
               visit'.next \in Path \ {<<>>} /\ (~scope.escape => Walk!WithinRoot(visit'.next)),
           visit'.step \in {"resolved", "stat"} =>
               /\ visit'.real \in Path \ {<<>>} /\ (~scope.escape => Walk!WithinRoot(visit'.real))
               /\ edits = 0 => Walk!Resolvable(tree, visit'.real),
           Still, UNCHANGED <<frames, manifest, progress>>
    PROVE  IInv'
<1>1. /\ Walk!Top' = Walk!Top /\ scope' = scope /\ edits' = edits
      /\ Walk!Resolvable(tree, visit'.real) => Walk!Resolvable(tree, visit.real)'
  BY DEF Walk!Top, Still, Walk!Resolvable
<1>2. visit.virt \in Path \ {<<>>} /\ frames # <<>> /\ visit.chain = Walk!Top.chain
  BY DEF IInv, WalkOk, FollowOk
<1>3. FollowOk'
  BY <1>1, <1>2 DEF FollowOk
<1>4. OpenOk'
  BY DEF OpenOk, FollowSteps
<1>5. Nested(frames, tree, edits, scope.escape)' /\ Apart(frames)'
  BY DEF IInv, WalkOk, Still
<1>6. Walk!NothingFromOutside' /\ World'
  BY SameManifest, SameWorld DEF IInv, WalkOk
<1> QED
  BY <1>3, <1>4, <1>5, <1>6 DEF IInv, WalkOk

(* What the updates of a visit come to.                                      *)
LEMMA HoppedOn ==
    ASSUME NEW v, Follows(v), NEW cur, NEW hops
    PROVE  [v EXCEPT !.cur = cur, !.hop = @ + 1, !.seen = @ \cup {v.cur}, !.hops = hops]
           = Following(v, v.step, cur, v.next, v.real, v.hop + 1, v.seen \cup {v.cur}, hops)
<1> DEFINE a == [v EXCEPT !.cur = cur]
           b == [a EXCEPT !.hop = @ + 1]
           c == [b EXCEPT !.seen = @ \cup {v.cur}]
           d == [c EXCEPT !.hops = hops]
<1>0. [v EXCEPT !.cur = cur, !.hop = @ + 1, !.seen = @ \cup {v.cur}, !.hops = hops] = d
  OBVIOUS
<1> HIDE DEF d, c, b
<1>1. a = Following(v, v.step, cur, v.next, v.real, v.hop, v.seen, v.hops)
  BY DEF Following, Follows
<1> HIDE DEF a
<1>2. b = Following(v, v.step, cur, v.next, v.real, v.hop + 1, v.seen, v.hops)
  BY <1>1 DEF Following, b
<1>3. c = Following(v, v.step, cur, v.next, v.real, v.hop + 1, v.seen \cup {v.cur}, v.hops)
  BY <1>2 DEF Following, c
<1>4. d = Following(v, v.step, cur, v.next, v.real, v.hop + 1, v.seen \cup {v.cur}, hops)
  BY <1>3 DEF Following, d
<1> QED
  BY <1>0, <1>4

LEMMA HoppedIn ==
    ASSUME NEW v, Follows(v), NEW next, NEW hops
    PROVE  [v EXCEPT !.step = "arrive", !.next = next, !.seen = @ \cup {v.cur}, !.hops = hops]
           = Following(v, "arrive", v.cur, next, v.real, v.hop, v.seen \cup {v.cur}, hops)
<1> DEFINE a == [v EXCEPT !.step = "arrive"]
           b == [a EXCEPT !.next = next]
           c == [b EXCEPT !.seen = @ \cup {v.cur}]
           d == [c EXCEPT !.hops = hops]
<1>0. [v EXCEPT !.step = "arrive", !.next = next, !.seen = @ \cup {v.cur}, !.hops = hops] = d
  OBVIOUS
<1> HIDE DEF d, c, b
<1>1. a = Following(v, "arrive", v.cur, v.next, v.real, v.hop, v.seen, v.hops)
  BY DEF Following, Follows
<1> HIDE DEF a
<1>2. b = Following(v, "arrive", v.cur, next, v.real, v.hop, v.seen, v.hops)
  BY <1>1 DEF Following, b
<1>3. c = Following(v, "arrive", v.cur, next, v.real, v.hop, v.seen \cup {v.cur}, v.hops)
  BY <1>2 DEF Following, c
<1>4. d = Following(v, "arrive", v.cur, next, v.real, v.hop, v.seen \cup {v.cur}, hops)
  BY <1>3 DEF Following, d
<1> QED
  BY <1>0, <1>4

LEMMA HoppedBack ==
    ASSUME NEW v, Follows(v), NEW cur
    PROVE  [v EXCEPT !.step = "hop", !.cur = cur, !.hop = @ + 1]
           = Following(v, "hop", cur, v.next, v.real, v.hop + 1, v.seen, v.hops)
<1> DEFINE a == [v EXCEPT !.step = "hop"]
           b == [a EXCEPT !.cur = cur]
           c == [b EXCEPT !.hop = @ + 1]
<1>0. [v EXCEPT !.step = "hop", !.cur = cur, !.hop = @ + 1] = c
  OBVIOUS
<1> HIDE DEF c, b
<1>1. a = Following(v, "hop", v.cur, v.next, v.real, v.hop, v.seen, v.hops)
  BY DEF Following, Follows
<1> HIDE DEF a
<1>2. b = Following(v, "hop", cur, v.next, v.real, v.hop, v.seen, v.hops)
  BY <1>1 DEF Following, b
<1>3. c = Following(v, "hop", cur, v.next, v.real, v.hop + 1, v.seen, v.hops)
  BY <1>2 DEF Following, c
<1> QED
  BY <1>0, <1>3

LEMMA ResolvedTo ==
    ASSUME NEW v, Follows(v), NEW real
    PROVE  [v EXCEPT !.step = "resolved", !.real = real]
           = Following(v, "resolved", v.cur, v.next, real, v.hop, v.seen, v.hops)
<1> DEFINE a == [v EXCEPT !.step = "resolved"]
           b == [a EXCEPT !.real = real]
<1>0. [v EXCEPT !.step = "resolved", !.real = real] = b
  OBVIOUS
<1> HIDE DEF b
<1>1. a = Following(v, "resolved", v.cur, v.next, v.real, v.hop, v.seen, v.hops)
  BY DEF Following, Follows
<1> HIDE DEF a
<1>2. b = Following(v, "resolved", v.cur, v.next, real, v.hop, v.seen, v.hops)
  BY <1>1 DEF Following, b
<1> QED
  BY <1>0, <1>2

LEMMA FollowingIs ==
    ASSUME NEW v, NEW step, NEW cur, NEW next, NEW real, NEW hop, NEW seen, NEW hops,
           NEW w, w = Following(v, step, cur, next, real, hop, seen, hops)
    PROVE  Follows(w) /\ w.step = step /\ w.next = next /\ w.real = real /\ w.virt = v.virt
           /\ w.chain = v.chain
BY DEF Follows, Following

LEMMA HopKeeps == ASSUME IInv, Walk!Hop PROVE IInv'
<1> DEFINE on == [visit EXCEPT !.cur = Walk!NextHop, !.hop = @ + 1,
                               !.seen = @ \cup {visit.cur}, !.hops = Walk!Crossed]
           in == [visit EXCEPT !.step = "arrive", !.next = Walk!NextHop,
                               !.seen = @ \cup {visit.cur}, !.hops = Walk!Crossed]
<1>1. /\ Walk!Walking /\ visit.step = "hop" /\ Still /\ UNCHANGED <<frames, manifest, progress>>
      /\ ~Walk!Escapes /\ Walk!NextHop \in DOMAIN tree
      /\ visit' = IF Walk!KindAt(tree, Walk!NextHop) = "link" THEN on ELSE in
  BY DEF Walk!Hop, Walk!Hopping, Walk!world, Walk!found, Still
<1>2. Walk!NextHop \in Path \ {<<>>} /\ (~scope.escape => Walk!WithinRoot(Walk!NextHop))
  <2>1. Walk!WellFormed(tree)
    BY <1>1 DEF IInv, WalkOk, World
  <2> QED
    BY <1>1, <2>1, TreeIs DEF Walk!Escapes
<1>3. Follows(visit)
  BY <1>1 DEF IInv, WalkOk, FollowOk, FollowSteps
<1>4. on = Following(visit, visit.step, Walk!NextHop, visit.next, visit.real, visit.hop + 1,
                     visit.seen \cup {visit.cur}, Walk!Crossed)
  BY <1>3, HoppedOn
<1>5. in = Following(visit, "arrive", visit.cur, Walk!NextHop, visit.real, visit.hop,
                     visit.seen \cup {visit.cur}, Walk!Crossed)
  BY <1>3, HoppedIn
<1> HIDE DEF on, in
<1>6. CASE visit' = on
  <2>1. Follows(visit') /\ visit'.step = "hop" /\ visit'.virt = visit.virt /\ visit'.chain = visit.chain
    BY <1>1, <1>4, <1>6, FollowingIs
  <2> QED
    BY <1>1, <2>1, FollowsOn DEF FollowSteps
<1>7. CASE visit' = in
  <2>1. /\ Follows(visit') /\ visit'.step = "arrive" /\ visit'.next = Walk!NextHop
        /\ visit'.virt = visit.virt /\ visit'.chain = visit.chain
    BY <1>5, <1>7, FollowingIs
  <2> QED
    BY <1>1, <1>2, <2>1, FollowsOn DEF FollowSteps
<1> QED
  BY <1>1, <1>6, <1>7

LEMMA DetourKeeps == ASSUME IInv, Walk!Detour PROVE IInv'
<1>1. Walk!Walking
  BY DEF Walk!Detour, Walk!At
<1>2. CASE Walk!Broken
  BY <1>1, <1>2, Breaks
<1>3. CASE Walk!Abort
  BY <1>3, Aborts
<1> QED
  BY <1>2, <1>3 DEF Walk!Detour

(* What the chain was resolved to lies where the chain ended.                *)
LEMMA ResolveKeeps == ASSUME IInv, Walk!Resolve PROVE IInv'
<1>1. /\ Walk!Walking /\ visit.step = "arrive" /\ WalkOk /\ Walk!WellFormed(tree)
      /\ Walk!Resolvable(tree, Walk!Terminal) /\ Walk!Front(Walk!Terminal) = Walk!Front(visit.next)
      /\ visit' = [visit EXCEPT !.step = "resolved", !.real = Walk!Terminal]
      /\ Still /\ UNCHANGED <<frames, manifest, progress>>
  BY DEF Walk!Resolve, Walk!At, Walk!SameParent, Walk!world, Walk!found, Still, IInv, WalkOk, World
<1>2. Walk!Terminal \in Path \ {<<>>}
  BY <1>1, TreeIs DEF Walk!Resolvable
<1>3. Follows(visit) /\ visit.next \in Path \ {<<>>} /\ (~scope.escape => Walk!WithinRoot(visit.next))
  BY <1>1 DEF WalkOk, FollowOk, FollowSteps
<1>4. ASSUME ~scope.escape PROVE Walk!WithinRoot(Walk!Terminal)
  <2>1. CASE visit.next = Walk!Root
    <3>1. Walk!Root \in DOMAIN tree /\ tree[Walk!Root].kind # "link"
      BY <1>1, TreeIs
    <3>2. Walk!Terminal = Walk!Root
      BY <1>1, <2>1, <3>1, ThereIsItself DEF Walk!Terminal
    <3> QED
      BY <1>3, <1>4, <2>1, <3>2
  <2>2. CASE visit.next # Walk!Root
    BY <1>1, <1>2, <1>3, <1>4, <2>2, SameParentWithin
  <2> QED
    BY <2>1, <2>2
<1>5. visit' = Following(visit, "resolved", visit.cur, visit.next, Walk!Terminal, visit.hop,
                         visit.seen, visit.hops)
  BY <1>1, <1>3, ResolvedTo
<1>6. /\ Follows(visit') /\ visit'.step = "resolved" /\ visit'.real = Walk!Terminal
      /\ visit'.virt = visit.virt /\ visit'.chain = visit.chain
  BY <1>5, FollowingIs
<1> QED
  BY <1>1, <1>2, <1>4, <1>6, FollowsOn DEF FollowSteps

LEMMA LookAgainKeeps == ASSUME IInv, Walk!LookAgain PROVE IInv'
<1> DEFINE back == [visit EXCEPT !.step = "hop", !.cur = visit.next, !.hop = @ + 1]
           on == [visit EXCEPT !.step = "stat"]
<1>1. Walk!Walking /\ visit.step = "resolved"
  BY DEF Walk!LookAgain, Walk!At
<1>2. /\ Follows(visit) /\ visit.real \in Path \ {<<>>}
      /\ ~scope.escape => Walk!WithinRoot(visit.real)
      /\ edits = 0 => Walk!Resolvable(tree, visit.real)
  BY <1>1 DEF IInv, WalkOk, FollowOk, FollowSteps
<1>3. back = Following(visit, "hop", visit.next, visit.next, visit.real, visit.hop + 1, visit.seen, visit.hops)
  BY <1>2, HoppedBack
<1>4. on = Following(visit, "stat", visit.cur, visit.next, visit.real, visit.hop, visit.seen, visit.hops)
  BY <1>2 DEF Following, Follows
<1>5. \/ Walk!Broken
      \/ (visit' = back \/ visit' = on) /\ Still /\ UNCHANGED <<frames, manifest, progress>>
  BY DEF Walk!LookAgain, Walk!world, Walk!found, Still
<1> HIDE DEF back, on
<1>6. CASE Walk!Broken
  BY <1>1, <1>6, Breaks
<1>7. CASE visit' = back /\ Still /\ UNCHANGED <<frames, manifest, progress>>
  <2>1. Follows(visit') /\ visit'.step = "hop" /\ visit'.virt = visit.virt /\ visit'.chain = visit.chain
    BY <1>3, <1>7, FollowingIs
  <2> QED
    BY <1>1, <1>7, <2>1, FollowsOn DEF FollowSteps
<1>8. CASE visit' = on /\ Still /\ UNCHANGED <<frames, manifest, progress>>
  <2>1. /\ Follows(visit') /\ visit'.step = "stat" /\ visit'.real = visit.real
        /\ visit'.virt = visit.virt /\ visit'.chain = visit.chain
    BY <1>4, <1>8, FollowingIs
  <2> QED
    BY <1>1, <1>2, <1>8, <2>1, FollowsOn DEF FollowSteps
<1> QED
  BY <1>5, <1>6, <1>7, <1>8

LEMMA ReachNothingKeeps == ASSUME IInv, Walk!ReachNothing PROVE IInv'
BY Aborts DEF Walk!ReachNothing

(* What a stat is about to find is what was resolved, or an edit was made.   *)
LEMMA AtStat ==
    ASSUME IInv, Walk!At("stat")
    PROVE  /\ Walk!Walking /\ visit.step = "stat" /\ WalkOk /\ Walk!WellFormed(tree) /\ edits \in Nat
           /\ visit.real \in Path \ {<<>>} /\ (~scope.escape => Walk!WithinRoot(visit.real))
           /\ edits = 0 => Walk!Resolvable(tree, visit.real) /\ Walk!Met = visit.real
           /\ ~Crosses(tree, visit.real) => Walk!Met = visit.real
           /\ edits = 0 => ~Crosses(tree, visit.real)
           /\ visit.virt \in Path \ {<<>>} /\ frames # <<>> /\ visit.chain = Walk!Top.chain
<1>1. /\ Walk!Walking /\ visit.step = "stat" /\ WalkOk /\ Walk!WellFormed(tree) /\ edits \in Nat
  BY DEF Walk!At, IInv, WalkOk, World
<1>2. /\ visit.real \in Path \ {<<>>} /\ (~scope.escape => Walk!WithinRoot(visit.real))
      /\ edits = 0 => Walk!Resolvable(tree, visit.real)
      /\ visit.virt \in Path \ {<<>>} /\ frames # <<>> /\ visit.chain = Walk!Top.chain
  BY <1>1 DEF WalkOk, FollowOk, FollowSteps
<1>3. edits = 0 => ~Crosses(tree, visit.real)
  <2> SUFFICES ASSUME edits = 0 PROVE ~Crosses(tree, visit.real)
    OBVIOUS
  <2>1. visit.real \in DOMAIN tree /\ tree[visit.real].kind # "link"
    BY <1>2 DEF Walk!Resolvable
  <2> QED
    BY <1>1, <2>1, ThereIsItself DEF Crosses
<1>4. ~Crosses(tree, visit.real) => Walk!Met = visit.real
  <2> SUFFICES ASSUME Walk!Linkless(tree, visit.real) PROVE Walk!Met = visit.real
    BY DEF Crosses
  <2> QED
    BY DEF Walk!Met, Walk!Real
<1> QED
  BY <1>1, <1>2, <1>3, <1>4

(* A visit that looks at a file, from then on, in directories left alone.    *)
LEMMA Opens ==
    ASSUME IInv, Walk!Walking, Still, UNCHANGED <<frames, manifest, progress>>,
           visit'.step \in {"open", "verified"}, OpenOk'
    PROVE  IInv'
<1>1. FollowOk'
  BY DEF FollowOk, FollowSteps
<1>2. Nested(frames, tree, edits, scope.escape)' /\ Apart(frames)'
  BY DEF IInv, WalkOk, Still
<1>3. Walk!NothingFromOutside' /\ World'
  BY SameManifest, SameWorld DEF IInv, WalkOk
<1> QED
  BY <1>1, <1>2, <1>3 DEF IInv, WalkOk

LEMMA ReachFileKeeps == ASSUME IInv, Walk!ReachFile PROVE IInv'
<1>1. /\ Still /\ UNCHANGED <<frames, manifest, progress>> /\ Walk!At("stat")
      /\ Walk!Met \in DOMAIN tree /\ tree[Walk!Met].kind = "file"
  BY DEF Walk!ReachFile, Walk!world, Walk!found, Walk!Omitted, Walk!KindAt, Still
<1>2. /\ Walk!Walking /\ WalkOk /\ edits \in Nat /\ visit.real \in Path \ {<<>>} /\ visit.virt # <<>>
      /\ ~scope.escape => Walk!WithinRoot(visit.real)
      /\ ~Crosses(tree, visit.real) => Walk!Met = visit.real
      /\ edits = 0 => ~Crosses(tree, visit.real)
  BY <1>1, AtStat
<1>3. ~scope.escape =>
          \/ tree[Walk!Met].id \in inside
          \/ edits >= 2
          \/ edits = 1 /\ Crosses(tree, visit.real)
  <2>1. CASE Crosses(tree, visit.real)
    BY <1>2, <2>1
  <2>2. CASE ~Crosses(tree, visit.real)
    BY <1>1, <1>2, <2>2, WithinIsInside DEF WalkOk
  <2> QED
    BY <2>1, <2>2
<1>4. CASE Walk!LeafInScope
  <2>1. visit' = [step |-> "open", virt |-> visit.virt, real |-> visit.real,
                  id |-> tree[Walk!Met].id, hops |-> visit.hops, followed |-> TRUE, via |-> Walk!Via]
    BY <1>4 DEF Walk!ReachFile
  <2>2. /\ visit'.step = "open" /\ visit'.real = visit.real /\ visit'.id = tree[Walk!Met].id
        /\ visit'.via = Walk!Via /\ visit'.followed = TRUE
        /\ visit' = [step |-> visit'.step, virt |-> visit'.virt, real |-> visit'.real, id |-> visit'.id,
                     hops |-> visit'.hops, followed |-> visit'.followed, via |-> visit'.via]
    BY <2>1
  <2>3. scope' = scope /\ inside' = inside /\ edits' = edits /\ tree' = tree
    BY <1>1 DEF Still
  <2>4. Linked(visit')
    BY <1>2, <2>2 DEF Linked, Walk!Via
  <2>5. ~scope.escape =>
            \/ visit'.id \in inside
            \/ edits >= 2
            \/ edits = 1 /\ Crosses(tree, visit'.real)
    BY <1>3, <2>2
  <2>6. OpenOk'
    BY <1>2, <2>2, <2>3, <2>4, <2>5 DEF OpenOk
  <2> QED
    BY <1>1, <1>2, <2>2, <2>6, Opens
<1>5. CASE ~Walk!LeafInScope
  <2>1. visit'.step = "none"
    BY <1>5 DEF Walk!ReachFile, Walk!NoVisit
  <2>2. Nested(frames, tree, edits, scope.escape)' /\ Apart(frames)'
    BY <1>1, <1>2 DEF IInv, WalkOk, Still
  <2> QED
    BY <1>1, <1>2, <2>1, <2>2, NoVisitIsOkNext, SameManifest, SameWorld DEF IInv, WalkOk
<1> QED
  BY <1>4, <1>5

LEMMA ReachDirKeeps == ASSUME IInv, Walk!ReachDir PROVE IInv'
<1> DEFINE g == Walk!Frame(visit.real, visit.virt, visit.hop, visit.chain \cup {visit.real},
                           visit.virt, visit.hops, TRUE)
           r == Walk!Record("dir", FALSE, "", Walk!Via)
<1>1. /\ Still /\ Walk!At("stat") /\ Walk!KindAt(tree, Walk!Met) = "dir" /\ visit.real \notin visit.chain
      /\ frames' = Append(frames, g) /\ visit'.step = "none"
      /\ \E v, s : Walk!Recorded(v, s) /\ s.kind # "file"
  <2>1. /\ Still /\ Walk!At("stat") /\ Walk!KindAt(tree, Walk!Met) = "dir" /\ visit.real \notin visit.chain
        /\ frames' = Append(frames, g) /\ visit'.step = "none" /\ Walk!Recorded(visit.virt, r)
    BY DEF Walk!ReachDir, Walk!world, Still, Walk!Cyclic, Walk!NoVisit
  <2>2. r.kind # "file"
    BY DEF Walk!Record
  <2> HIDE DEF r
  <2> QED
    BY <2>1, <2>2
<1>2. /\ Walk!Walking /\ WalkOk /\ visit.real \in Path
      /\ ~scope.escape => Walk!WithinRoot(visit.real)
      /\ visit.virt \in Path \ {<<>>} /\ frames # <<>> /\ visit.chain = Walk!Top.chain
      /\ edits = 0 => visit.real \in DOMAIN tree /\ tree[visit.real].kind = "dir"
  BY <1>1, AtStat DEF Walk!Resolvable, Walk!KindAt
<1>3. g = [real |-> visit.real, virt |-> visit.virt, depth |-> visit.hop,
           chain |-> visit.chain \cup {visit.real}, source |-> visit.virt, hops |-> visit.hops,
           followed |-> TRUE, step |-> "load", left |-> <<>>]
  BY DEF Walk!Frame
<1> HIDE DEF g
<1>4. /\ g.real = visit.real /\ g.virt = visit.virt /\ g.chain = visit.chain \cup {visit.real}
      /\ g.source = visit.virt /\ g.followed = TRUE /\ g.left = <<>>
      /\ g = [real |-> g.real, virt |-> g.virt, depth |-> g.depth, chain |-> g.chain,
              source |-> g.source, hops |-> g.hops, followed |-> g.followed, step |-> g.step,
              left |-> g.left]
  BY <1>3
<1>5. /\ \E S : g.left \in Seq(S)
      /\ \A k \in 1..Len(g.left) : FALSE
  <2>1. <<>> \in Seq({}) /\ Len(<<>>) = 0
    BY EmptySeq
  <2> QED
    BY <1>4, <2>1
<1>6. Len(visit.virt) <= Len(visit.virt)
  BY <1>2 DEF Path
<1>7. FrameOk(g, tree, edits, scope.escape)
  BY <1>1, <1>2, <1>4, <1>5, <1>6 DEF FrameOk
<1>8. \A i \in 1..Len(frames) : frames[i].followed => frames[i].real \in visit.chain
  BY <1>2, LastLeads DEF WalkOk, Walk!Top
<1>9. \A i \in 1..Len(frames) : frames[i].followed =>
          /\ g.followed /\ frames[i].real \in g.chain
          /\ g.virt = g.source => frames[i].real # g.real
  BY <1>1, <1>4, <1>8
<1>10. Nested(frames', tree, edits, scope.escape) /\ Apart(frames')
  BY <1>1, <1>2, <1>7, <1>9, Pushed DEF IInv, WalkOk
<1> QED
  BY <1>1, <1>2, <1>10, Enters

-----------------------------------------------------------------------------
(* The content of a file.                                                    *)
LEMMA VerifyChainKeeps == ASSUME IInv, Walk!VerifyChain PROVE IInv'
<1>1. /\ Walk!Walking /\ visit.step = "open" /\ visit.followed /\ Still
      /\ UNCHANGED <<frames, manifest, progress>> /\ Walk!Resolvable(tree, visit.real)
      /\ visit' = [visit EXCEPT !.step = "verified"]
  BY DEF Walk!VerifyChain, Walk!ChainHolds, Walk!world, Walk!found, Still
<1>2. /\ visit = [step |-> visit.step, virt |-> visit.virt, real |-> visit.real, id |-> visit.id,
                  hops |-> visit.hops, followed |-> visit.followed, via |-> visit.via]
      /\ visit.real \in Path \ {<<>>} /\ (~scope.escape => Walk!WithinRoot(visit.real))
      /\ ~scope.escape =>
            \/ visit.id \in inside
            \/ Linked(visit) /\ edits >= 2
            \/ Linked(visit) /\ edits = 1 /\ Crosses(tree, visit.real)
      /\ Walk!WellFormed(tree) /\ edits \in Nat
  BY <1>1 DEF IInv, WalkOk, OpenOk, World
<1>3. visit' = [step |-> "verified", virt |-> visit.virt, real |-> visit.real, id |-> visit.id,
                hops |-> visit.hops, followed |-> visit.followed, via |-> visit.via]
  BY <1>1, <1>2
<1>4. /\ visit'.step = "verified" /\ visit'.virt = visit.virt /\ visit'.real = visit.real
      /\ visit'.id = visit.id /\ visit'.followed = visit.followed /\ visit'.via = visit.via
      /\ visit' = [step |-> visit'.step, virt |-> visit'.virt, real |-> visit'.real, id |-> visit'.id,
                   hops |-> visit'.hops, followed |-> visit'.followed, via |-> visit'.via]
  BY <1>3
<1>5. ~Crosses(tree, visit.real)
  BY <1>1, <1>2, ThereIsItself DEF Crosses, Walk!Resolvable
<1>6. ~scope.escape => visit.id \in inside \/ (Linked(visit) /\ edits >= 2)
  BY <1>2, <1>5
<1>7. Linked(visit') <=> Linked(visit)
  BY <1>4 DEF Linked
<1>8. OpenOk'
  <2>1. scope' = scope /\ inside' = inside /\ tree' = tree /\ edits' = edits
    BY <1>1 DEF Still
  <2> QED
    BY <1>1, <1>2, <1>4, <1>6, <1>7, <2>1 DEF OpenOk
<1> QED
  BY <1>1, <1>4, <1>8, Opens

LEMMA ReadContentKeeps == ASSUME IInv, Walk!ReadContent PROVE IInv'
<1> DEFINE id == tree[Walk!Target].id  r == Walk!Record("file", FALSE, id, visit.via)
<1>1. /\ Walk!Walking /\ visit.step \in {"open", "verified"} /\ Walk!Ready /\ Walk!Unchanged
      /\ Walk!Recorded(visit.virt, r) /\ visit'.step = "none" /\ Still /\ UNCHANGED <<frames, progress>>
  BY DEF Walk!ReadContent, Walk!Opening, Walk!world, Walk!NoVisit, Still
<1>2. /\ World /\ Walk!WellFormed(tree) /\ edits \in Nat /\ OpenOk
      /\ Nested(frames, tree, edits, scope.escape) /\ Apart(frames) /\ Walk!NothingFromOutside
  BY <1>1 DEF IInv, WalkOk, World
<1>3. /\ Walk!Target \in DOMAIN tree /\ tree[Walk!Target].kind = "file" /\ id = visit.id
  BY <1>1 DEF Walk!Unchanged, Walk!KindAt
<1>4. ASSUME ~scope.escape
      PROVE  id \in inside \/ (visit.via.source # <<>> /\ edits > 1)
  <2>1. Walk!WithinRoot(visit.real)
    BY <1>1, <1>2, <1>4 DEF OpenOk
  <2>2. ASSUME Walk!Target = visit.real PROVE id \in inside
    BY <1>2, <1>3, <2>1, <2>2, WithinIsInside
  <2>3. CASE ~visit.followed
    BY <2>2, <2>3 DEF Walk!Target
  <2>4. CASE visit.followed
    <3>1. visit.step = "verified"
      BY <1>1, <2>4 DEF Walk!Ready
    <3>2. visit.id \in inside \/ (Linked(visit) /\ edits >= 2)
      BY <1>2, <1>4, <3>1 DEF OpenOk
    <3> QED
      BY <1>2, <1>3, <3>2 DEF Linked
  <2> QED
    BY <2>3, <2>4
<1>5. r.kind = "file" /\ r.skipped = FALSE /\ r.content = id /\ r.via = visit.via
  BY DEF Walk!Record
<1> HIDE DEF r, id
<1>6. Walk!NothingFromOutside'
  BY <1>1, <1>2, <1>4, <1>5, OneMore
<1>7. Nested(frames, tree, edits, scope.escape)' /\ Apart(frames)'
  BY <1>1, <1>2 DEF Still
<1> QED
  BY <1>1, <1>2, <1>6, <1>7, NoVisitIsOkNext, SameWorld DEF IInv, WalkOk

LEMMA ReadFailsKeeps == ASSUME IInv, Walk!ReadFails PROVE IInv'
<1> DEFINE r == Walk!Record("file", TRUE, "", visit.via)
<1>1. CASE ~scope.allowSkipped
  BY <1>1, Aborts DEF Walk!ReadFails
<1>2. CASE scope.allowSkipped
  <2>0. /\ Walk!Opening /\ Walk!Recorded(visit.virt, r) /\ visit' = Walk!NoVisit
        /\ UNCHANGED <<Walk!world, scope, frames, Walk!rules, progress>>
    BY <1>2 DEF Walk!ReadFails
  <2> HIDE DEF r
  <2>1. /\ Walk!Walking /\ Walk!Recorded(visit.virt, r) /\ visit'.step = "none" /\ Still
        /\ UNCHANGED <<frames, progress>>
    BY <2>0 DEF Walk!Opening, Walk!world, Walk!NoVisit, Still
  <2>2. r.skipped = TRUE
    BY DEF Walk!Record, r
  <2>3. Walk!NothingFromOutside'
    BY <2>1, <2>2, OneMore DEF IInv
  <2>4. Nested(frames, tree, edits, scope.escape)' /\ Apart(frames)'
    BY <2>1 DEF IInv, WalkOk, Still
  <2> QED
    BY <2>1, <2>3, <2>4, NoVisitIsOkNext, SameWorld DEF IInv, WalkOk
<1> QED
  BY <1>1, <1>2

-----------------------------------------------------------------------------
(* The editor, the comparison, and the theorem.                              *)
LEMMA FrameOutlives ==
    ASSUME NEW f, NEW t, NEW e \in Nat, NEW escape, FrameOk(f, t, e, escape), NEW u
    PROVE  FrameOk(f, u, e + 1, escape)
<1>1. e + 1 # 0
  OBVIOUS
<1> QED
  BY <1>1 DEF FrameOk

LEMMA EditsKeep == ASSUME IInv, Walk!Edit PROVE IInv'
<1>1. Walk!Walking
  BY DEF Walk!Edit, Walk!Put, Walk!Move, Walk!Edited
<1>2. WalkOk /\ Walk!WellFormed(tree) /\ edits \in Nat
  BY <1>1 DEF IInv, WalkOk, World
<1>3. /\ Walk!WellFormed(tree') /\ edits' = edits + 1 /\ inside \subseteq inside'
      /\ Walk!FilesInside(tree') \subseteq inside'
      /\ scope' = scope /\ frames' = frames /\ visit' = visit /\ manifest' = manifest
      /\ progress' = progress
  BY <1>2, EditKeeps
<1>4. World'
  BY <1>2, <1>3 DEF World, Walk!WellFormed, Walk!FilesInside
<1>5. Nested(frames', tree', edits', scope'.escape) /\ Apart(frames')
  <2>1. \A i \in 1..Len(frames) : FrameOk(frames[i], tree', edits + 1, scope.escape)
    BY <1>2, FrameOutlives DEF WalkOk, Nested
  <2> QED
    BY <1>2, <1>3, <2>1 DEF IInv, WalkOk, Nested
<1>6. FollowOk'
  <2>1. edits' # 0
    BY <1>2, <1>3
  <2> QED
    BY <1>2, <1>3, <2>1 DEF WalkOk, FollowOk, FollowSteps, Follows, Walk!Top
<1>7. OpenOk'
  <2>1. edits >= 1 => edits' >= 2
    BY <1>2, <1>3
  <2> QED
    BY <1>2, <1>3, <2>1 DEF WalkOk, OpenOk, Linked
<1>8. Walk!NothingFromOutside'
  <2>1. edits > 1 => edits' > 1
    BY <1>2, <1>3
  <2> QED
    BY <1>3, <2>1 DEF IInv, Walk!NothingFromOutside
<1> QED
  BY <1>4, <1>5, <1>6, <1>7, <1>8 DEF IInv, WalkOk

LEMMA NoManifest == ASSUME manifest = <<>>, frames = <<>> PROVE Walk!NothingFromOutside /\ Apart(frames)
BY DEF Walk!NothingFromOutside, Apart

LEMMA Initially == ASSUME ObservationInit PROVE IInv
<1>1. CASE NoScan
  BY <1>1, NoManifest DEF NoScan, IInv, Walk!Walking
<1>2. CASE Walk!Init
  <2> DEFINE g == Walk!Frame(Walk!Root, <<>>, 0, {}, <<>>, <<>>, FALSE)
  <2>1. /\ tree \in Trees /\ edits = 0 /\ frames = <<g>> /\ visit.step = "none" /\ manifest = <<>>
        /\ inside = Walk!FilesInside(tree)
    BY <1>2 DEF Walk!Init, Walk!NoVisit
  <2>2. Walk!WellFormed(tree)
    BY <2>1, ObservationAssumption
  <2>3. World
    BY <2>1, <2>2 DEF World
  <2>4. g = [real |-> Walk!Root, virt |-> <<>>, depth |-> 0, chain |-> {}, source |-> <<>>,
             hops |-> <<>>, followed |-> FALSE, step |-> "load", left |-> <<>>]
    BY DEF Walk!Frame
  <2> HIDE DEF g
  <2>5. /\ g.real = Walk!Root /\ g.virt = <<>> /\ g.followed = FALSE /\ g.left = <<>>
        /\ g = [real |-> g.real, virt |-> g.virt, depth |-> g.depth, chain |-> g.chain,
                source |-> g.source, hops |-> g.hops, followed |-> g.followed, step |-> g.step,
                left |-> g.left]
    BY <2>4
  <2>6. <<>> \in Seq({}) /\ Len(<<>>) = 0 /\ <<>> \in Path
    BY EmptySeq DEF Path
  <2>7. Walk!Root \in Path /\ Walk!WithinRoot(Walk!Root)
    BY RootIs
  <2>8. Walk!Root \in DOMAIN tree /\ tree[Walk!Root].kind = "dir"
    BY <2>2, TreeIs
  <2>9. (\E S : g.left \in Seq(S)) /\ \A k \in 1..Len(g.left) : FALSE
    BY <2>5, <2>6
  <2>10. FrameOk(g, tree, edits, scope.escape)
    BY <2>5, <2>6, <2>7, <2>8, <2>9 DEF FrameOk
  <2>11. frames \in Seq({g}) /\ Len(frames) = 1 /\ frames[1] = g
    BY <2>1
  <2>12. \A i \in 1..Len(frames) : i = 1
    BY <2>11
  <2>13. Nested(frames, tree, edits, scope.escape) /\ Apart(frames)
    <3>1. \A i, j \in 1..Len(frames) : ~(i < j)
      BY <2>12
    <3> QED
      BY <2>10, <2>11, <2>12, <3>1 DEF Nested, Chained, Apart
  <2>14. Walk!NothingFromOutside
    BY <2>1 DEF Walk!NothingFromOutside
  <2> QED
    BY <2>1, <2>3, <2>13, <2>14, NoVisitIsOk DEF IInv, WalkOk
<1> QED
  BY <1>1, <1>2 DEF ObservationInit

LEMMA ScanUnchanged == ASSUME IInv, UNCHANGED scan PROVE IInv'
<1>1. /\ tree' = tree /\ edits' = edits /\ scope' = scope /\ frames' = frames /\ visit' = visit
      /\ manifest' = manifest /\ progress' = progress /\ inside' = inside
  BY DEF scan
<1>2. Walk!NothingFromOutside' /\ Apart(frames)'
  BY <1>1 DEF IInv, Walk!NothingFromOutside
<1>3. ASSUME Walk!Walking' PROVE WalkOk'
  <2>1. WalkOk
    BY <1>1, <1>3 DEF IInv, Walk!Walking
  <2>2. World'
    BY <1>1, <2>1 DEF WalkOk, World, Walk!WellFormed, Walk!FilesInside
  <2>3. FollowOk' /\ OpenOk'
    BY <1>1, <2>1 DEF WalkOk, FollowOk, FollowSteps, OpenOk, Linked, Crosses, Walk!Resolvable, Walk!Top, Walk!Linkless, Walk!KindAt
  <2> QED
    BY <1>1, <2>1, <2>2, <2>3 DEF WalkOk
<1> QED
  BY <1>2, <1>3 DEF IInv

LEMMA EveryStep == ASSUME IInv, [ObservationNext]_<<comparison, scan>> PROVE IInv'
<1>1. CASE UNCHANGED scan
  BY <1>1, ScanUnchanged
<1>2. CASE Walk!Step
  BY <1>2, LoadDirKeeps, ListDirKeeps, GoneKeeps, LeaveDirKeeps, BarKeeps, IgnoreKeeps,
     EnterDirKeeps, RecordLinkKeeps, MeetFileKeeps, StartFollowKeeps, RefuseHopKeeps,
     BrokenHopKeeps, HopKeeps, ResolveKeeps, DetourKeeps, LookAgainKeeps, ReachNothingKeeps,
     ReachFileKeeps, ReachSpecialKeeps, ReachDirKeeps,
     CutCycleKeeps, VerifyChainKeeps, ReadContentKeeps, ReadFailsKeeps DEF Walk!Step
<1>3. CASE Walk!Edit
  BY <1>3, EditsKeep
<1> QED
  BY <1>1, <1>2, <1>3
  DEF ObservationNext, ScanStep, CompareStored, ComparePresent, CompareStep, Walk!Next, scan

(* Without permission to leave the root no file is read that was outside it  *)
(* ever since the scan began, unless it was reached through links and more   *)
(* than one edit was made beside the scan; and no link leads back into a     *)
(* directory the traversal is in: for any worktrees, scopes and edits.       *)
THEOREM FollowingIsSafe == ObservationSpec => []LinksStayInside
<1>1. ObservationInit => IInv
  BY Initially
<1>2. IInv /\ [ObservationNext]_<<comparison, scan>> => IInv'
  BY EveryStep
<1>3. IInv => LinksStayInside
  BY DEF IInv, LinksStayInside, Walk!LinksDoNotReenter, Apart
<1> QED
  BY <1>1, <1>2, <1>3, PTL DEF ObservationSpec


-----------------------------------------------------------------------------
(* The order of paths, and what a boundary reaches.                         *)
LEMMA BeforeIsOrder ==
    /\ \A p, q \in Paths : p = q \/ Before(p, q) \/ Before(q, p)
    /\ \A p \in Paths : ~Before(p, p)
    /\ \A p, q, r \in Paths : Before(p, q) /\ Before(q, r) => Before(p, r)
    /\ NoPath \notin Paths
  BY PathOrder

LEMMA NotBoth ==
    ASSUME NEW p \in Paths, NEW q \in Paths, Before(p, q)
    PROVE  ~Before(q, p) /\ p # q
  BY BeforeIsOrder

LEMMA UpToIsOrder ==
    ASSUME NEW p \in Paths, NEW q \in Paths, NEW r \in Paths
    PROVE  /\ UpTo(p, q) /\ Before(q, r) => Before(p, r)
           /\ ~UpTo(p, q) <=> Before(q, p)
  BY BeforeIsOrder DEF UpTo

LEMMA FrontierPaths ==
    ASSUME NEW excluded, NEW b \in Frontier(excluded)
    PROVE  b.path \in DOMAIN excluded
<1>1. PICK p \in DOMAIN excluded : b = Boundary(p, excluded[p] = "subtree", FALSE)
  BY DEF Frontier
<1>2. b.path = p
  BY <1>1, Zenon DEF Boundary
<1> QED
  BY <1>1, <1>2

LEMMA SkippedPath ==
    ASSUME NEW p, NEW kind
    PROVE  SkippedBoundary(p, kind).path = p
  BY Zenon DEF SkippedBoundary, Boundary

(* Whatever reaches a path is a prefix of it, and of all that lies between.  *)
LEMMA ReachingIsPrefix ==
    ASSUME NEW b, b.path \in Paths, NEW p \in Paths, Reaches(b, p)
    PROVE  /\ Prefix(b.path, p) /\ UpTo(b.path, p)
           /\ \A q \in Paths : UpTo(b.path, q) /\ UpTo(q, p) => Prefix(b.path, q)
<1>1. Prefix(b.path, p)
  BY PathOrder DEF Reaches
<1>2. UpTo(b.path, p)
  BY <1>1, PathOrder DEF UpTo
<1>3. ASSUME NEW q \in Paths, UpTo(b.path, q), UpTo(q, p)
      PROVE  Prefix(b.path, q)
  <2>1. ~Before(q, b.path) /\ ~Before(p, q)
    BY <1>3, BeforeIsOrder DEF UpTo
  <2> QED
    BY <1>1, <2>1, PathOrder
<1> QED
  BY <1>1, <1>2, <1>3

LEMMA VerdictIsOfHits ==
    ASSUME NEW B, NEW C, NEW p, \A b : b \in B /\ Reaches(b, p) <=> b \in C /\ Reaches(b, p)
    PROVE  Verdict(B, p) = Verdict(C, p)
<1>1. {b \in B : Reaches(b, p)} = {b \in C : Reaches(b, p)}
  OBVIOUS
<1> QED
  BY <1>1 DEF Verdict

-----------------------------------------------------------------------------
(* What is reported of a path.                                              *)
StateFits(x) ==
    /\ DOMAIN x.rec \subseteq Paths /\ DOMAIN x.excluded \subseteq Paths
    /\ x.coverage \in {"unknown", "recorded", "scoped"}

StatesFit == StateFits(state["left"]) /\ StateFits(state["right"])

LEMMA ChangeIs ==
    ASSUME NEW p, NEW missing
    PROVE  /\ ChangeAt(p, missing).status = StatusAt(p)
           /\ ChangeAt(p, missing).old = IF Has("left", p) THEN p ELSE NoPath
           /\ ChangeAt(p, missing).new = IF Has("right", p) THEN p ELSE NoPath
  BY Zenon DEF ChangeAt

LEMMA StatusIs ==
    ASSUME NEW p \in Known
    PROVE  /\ StatusAt(p) = "deleted" <=> ~Has("right", p)
           /\ StatusAt(p) = "added" <=> ~Has("left", p)
           /\ StatusAt(p) # "renamed"
<1>1. /\ \A l, r : PresentStatus(l, r) \in {"skipped", "same", "type-changed", "modified"}
      /\ Has("left", p) \/ Has("right", p)
  BY DEF PresentStatus, Known, Has
<1>2. PresentStatus(Rec("left", p), Rec("right", p)) \in {"skipped", "same", "type-changed", "modified"}
  BY <1>1
<1> QED
  BY <1>1, <1>2 DEF StatusAt

LEMMA PrimaryIs ==
    ASSUME NEW p \in Known, NEW missing
    PROVE  Primary(ChangeAt(p, missing)) = p
<1>1. Has("left", p) \/ Has("right", p)
  BY DEF Known, Has
<1> QED
  BY <1>1, ChangeIs, StatusIs DEF Primary

LEMMA KnownArePaths ==
    ASSUME StatesFit
    PROVE  Known \subseteq Paths
  BY DEF StatesFit, StateFits, Known

(* Each expected change is the one of its primary path. *)
LEMMA ExpectedIs ==
    ASSUME NEW S \in SUBSET Known, NEW c \in Expected(S)
    PROVE  /\ Primary(c) \in S /\ c = ChangeAt(Primary(c), Missing(Primary(c)))
           /\ c.status = StatusAt(Primary(c)) /\ c.status # "renamed"
<1>1. PICK p \in S : c = ChangeAt(p, Missing(p))
  BY DEF Expected
<1>2. Primary(c) = p
  BY <1>1, PrimaryIs
<1> QED
  BY <1>1, <1>2, ChangeIs, StatusIs

LEMMA ExpectedOne ==
    ASSUME NEW S \in SUBSET Known, NEW p \in Known
    PROVE  Expected(S \cup {p}) = Expected(S) \cup {ChangeAt(p, Missing(p))}
  BY DEF Expected

-----------------------------------------------------------------------------
(* The cursors of a merge, and the trackers beside it.                       *)
Passed == Known \ Unread

CursorsFit ==
    /\ rest["left"] = DOMAIN state["left"].rec \cap Unread
    /\ rest["right"] = DOMAIN state["right"].rec \cap Unread
    /\ \A p \in Passed, q \in Unread : Before(p, q)

SkippedOf(s) == {SkippedBoundary(p, Rec(s, p).kind) : p \in {q \in DOMAIN state[s].rec : Rec(s, q).skipped}}

(* What a tracker has not read yet of the boundaries of its side. *)
StillToRead(s, last, b) ==
    \/ b \in Excluded(s) /\ (last = NoPath \/ ~UpTo(b.path, last))
    \/ b \in SkippedOf(s) /\ b.path \in Unread

(* A tracker holds every boundary it has read that reaches a path to come.   *)
Holds(s, t) ==
    /\ t.last \in Paths => \A q \in Unread : UpTo(t.last, q)
    /\ t.last = NoPath \/ t.last \in Paths
    /\ t.open \subseteq AllBoundaries(s)
    /\ state[s].coverage = "recorded" =>
          \A b \in AllBoundaries(s), q \in Unread : Reaches(b, q) => b \in t.open \/ StillToRead(s, t.last, b)

TrackersFit ==
    \A s \in Sides : /\ Holds(s, tracker[s])
                     /\ tracker[s].last \in Paths => tracker[s].last \in Passed

LEMMA SkippedOfIs ==
    ASSUME NEW s \in Sides, NEW b \in SkippedOf(s)
    PROVE  /\ b.path \in DOMAIN state[s].rec /\ Rec(s, b.path).skipped
           /\ b = SkippedBoundary(b.path, Rec(s, b.path).kind)
<1>1. PICK p \in DOMAIN state[s].rec : Rec(s, p).skipped /\ b = SkippedBoundary(p, Rec(s, p).kind)
  BY DEF SkippedOf
<1>2. b.path = p
  BY <1>1, SkippedPath
<1> QED
  BY <1>1, <1>2

LEMMA BoundariesAre ==
    ASSUME StatesFit, NEW s \in Sides
    PROVE  /\ AllBoundaries(s) = Excluded(s) \cup SkippedOf(s)
           /\ \A b \in AllBoundaries(s) : b.path \in Paths
<1>1. AllBoundaries(s) = Excluded(s) \cup SkippedOf(s)
  BY DEF AllBoundaries, SkippedOf
<1>2. \A b \in Excluded(s) : b.path \in Paths
  BY FrontierPaths DEF Excluded, StatesFit, StateFits, Sides
<1>3. \A b \in SkippedOf(s) : b.path \in Paths
  BY SkippedOfIs DEF StatesFit, StateFits, Sides
<1> QED
  BY <1>1, <1>2, <1>3

LEMMA KnownSides ==
    ASSUME NEW s \in Sides
    PROVE  DOMAIN state[s].rec \subseteq Known
  BY DEF Known, Sides

(* Reading the frontier up to the least path to come forgets nothing.        *)
LEMMA AdvanceHolds ==
    ASSUME StatesFit, CursorsFit, NEW s \in Sides, Holds(s, tracker[s]), NEW p \in Unread, Least(p), Unread \subseteq Known
    PROVE  Holds(s, Advance(tracker[s], Excluded(s), p))
<1> DEFINE t == tracker[s]  u == Advance(t, Excluded(s), p)
<1>1. /\ u.last = p
      /\ \A b : b \in u.open <=> \/ b \in t.open /\ Prefix(b.path, p)
                                 \/ /\ b \in Excluded(s) /\ UpTo(b.path, p) /\ Prefix(b.path, p)
                                    /\ t.last = NoPath \/ ~UpTo(b.path, t.last)
  BY DEF Advance
<1> HIDE DEF t, u
<1>2. p \in Paths /\ \A q \in Unread : q \in Paths /\ UpTo(p, q)
  BY KnownArePaths, BeforeIsOrder DEF Least, UpTo
<1>3. u.open \subseteq AllBoundaries(s)
  BY <1>1, BoundariesAre DEF Holds, t
<1>4. ASSUME state[s].coverage = "recorded", NEW b \in AllBoundaries(s), NEW q \in Unread, Reaches(b, q)
      PROVE  b \in u.open \/ StillToRead(s, p, b)
  <2>1. b.path \in Paths /\ q \in Paths /\ UpTo(p, q)
    BY <1>2, BoundariesAre
  <2>2. UpTo(b.path, p) => Prefix(b.path, p)
    BY <1>2, <1>4, <2>1, ReachingIsPrefix
  <2>3. b \in t.open \/ StillToRead(s, t.last, b)
    BY <1>4 DEF Holds, t
  <2>4. CASE b \in t.open /\ ~UpTo(b.path, p)
    <3>1. Before(p, b.path)
      BY <1>2, <2>1, <2>4, UpToIsOrder
    <3>2. CASE b \in Excluded(s)
      BY <1>2, <2>4, <3>2 DEF StillToRead
    <3>3. CASE b \in SkippedOf(s)
      <4>1. b.path \in Known
        BY <3>3, SkippedOfIs, KnownSides
      <4>2. b.path \in Unread
        BY <1>2, <2>1, <3>1, <4>1, NotBoth DEF CursorsFit, Passed
      <4> QED
        BY <3>3, <4>2 DEF StillToRead
    <3> QED
      BY <3>2, <3>3, BoundariesAre
  <2>5. CASE b \in t.open /\ UpTo(b.path, p)
    BY <1>1, <2>2, <2>5
  <2>6. CASE b \in Excluded(s) /\ (t.last = NoPath \/ ~UpTo(b.path, t.last))
    BY <1>1, <1>2, <2>2, <2>6 DEF StillToRead
  <2>7. CASE b \in SkippedOf(s) /\ b.path \in Unread
    BY <2>7 DEF StillToRead
  <2> QED
    BY <2>3, <2>4, <2>5, <2>6, <2>7 DEF StillToRead
<1>5. Holds(s, u)
  BY <1>1, <1>2, <1>3, <1>4 DEF Holds
<1> QED
  BY <1>5 DEF u, t

(* What a tracker says at the least path is what the whole evidence says.    *)
LEMMA AskedIsMeaning ==
    ASSUME StatesFit, CursorsFit, NEW s \in Sides, Holds(s, tracker[s]), NEW p \in Unread, Least(p),
           Unread \subseteq Known, ~Has(s, p)
    PROVE  QualifiedAt(s, p) = Meaning(s, p)
<1>1. CASE ~InScope(s, p) \/ state[s].coverage # "recorded"
  <2>1. state[s].coverage \in {"unknown", "recorded", "scoped"}
    BY DEF StatesFit, StateFits, Sides
  <2> QED
    BY <1>1, <2>1 DEF QualifiedAt, Meaning
<1>2. CASE InScope(s, p) /\ state[s].coverage = "recorded"
  <2> DEFINE u == Advance(tracker[s], Excluded(s), p)
  <2>1. AskedAt(s, p) = u
    BY <1>2 DEF AskedAt, Consults
  <2>2. Holds(s, u) /\ u.last = p
    BY AdvanceHolds DEF Advance
  <2> HIDE DEF u
  <2>3. p \in Paths
    BY KnownArePaths
  <2>4. ASSUME NEW b, b \in AllBoundaries(s), Reaches(b, p)
        PROVE  b \in u.open
    <3>1. b \in u.open \/ StillToRead(s, p, b)
      BY <1>2, <2>2, <2>4 DEF Holds
    <3>2. b.path \in Paths /\ UpTo(b.path, p) /\ p # NoPath
      BY <2>3, <2>4, BoundariesAre, ReachingIsPrefix, BeforeIsOrder
    <3>3. ASSUME b \in SkippedOf(s), b.path \in Unread PROVE FALSE
      <4>1. b.path # p
        BY <3>3, SkippedOfIs DEF Has
      <4> QED
        BY <3>2, <3>3, <4>1 DEF UpTo, Least
    <3> QED
      BY <3>1, <3>2, <3>3 DEF StillToRead
  <2>5. \A b : b \in u.open /\ Reaches(b, p) <=> b \in AllBoundaries(s) /\ Reaches(b, p)
    BY <2>2, <2>4 DEF Holds
  <2>6. Verdict(u.open, p) = Verdict(AllBoundaries(s), p)
    BY <2>5, VerdictIsOfHits
  <2> QED
    BY <1>2, <2>1, <2>6 DEF QualifiedAt, Meaning
<1> QED
  BY <1>1, <1>2

(* One path on: what else there is stays as it was. *)
SameStates == UNCHANGED <<state, ask>>

LEMMA SameSides ==
    ASSUME SameStates
    PROVE  /\ Known' = Known
           /\ \A s, p : Rec(s, p)' = Rec(s, p) /\ (Has(s, p)' <=> Has(s, p))
           /\ \A s \in Sides : Excluded(s)' = Excluded(s) /\ AllBoundaries(s)' = AllBoundaries(s)
           /\ \A s \in Sides : SkippedOf(s)' = SkippedOf(s)
           /\ \A s, p : (InScope(s, p)' <=> InScope(s, p)) /\ Meaning(s, p)' = Meaning(s, p)
           /\ \A p : Missing(p)' = Missing(p) /\ StatusAt(p)' = StatusAt(p)
           /\ \A p, m : ChangeAt(p, m)' = ChangeAt(p, m)
           /\ \A S : Expected(S)' = Expected(S)
           /\ Differing' = Differing
           /\ \A p : Selected(p)' <=> Selected(p)
           /\ StatesFit' <=> StatesFit
<1>1. state' = state /\ ask' = ask
  BY DEF SameStates
<1>2. /\ Known' = Known
      /\ \A s, p : Rec(s, p)' = Rec(s, p) /\ (Has(s, p)' <=> Has(s, p))
  BY <1>1 DEF Known, Rec, Has
<1>3. \A s \in Sides : SkippedOf(s)' = SkippedOf(s) /\ Excluded(s)' = Excluded(s) /\ AllBoundaries(s)' = AllBoundaries(s)
  BY <1>1 DEF SkippedOf, Rec, Excluded, AllBoundaries
<1>4. \A s, p : (InScope(s, p)' <=> InScope(s, p)) /\ Meaning(s, p)' = Meaning(s, p)
  BY <1>1 DEF InScope, Meaning, AllBoundaries, Excluded, Rec
<1>5. \A p : Missing(p)' = Missing(p) /\ StatusAt(p)' = StatusAt(p)
  BY <1>2, <1>4 DEF Missing, StatusAt
<1>6. \A p, m : ChangeAt(p, m)' = ChangeAt(p, m)
  BY <1>1 DEF ChangeAt, DiffableAt, StatusAt, Has, Rec
<1>7. \A S : Expected(S)' = Expected(S)
  BY <1>5, <1>6 DEF Expected
<1>8. \A p : Selected(p)' <=> Selected(p)
  BY <1>1 DEF Selected
<1>9. Differing' = Differing
  BY <1>2, <1>5, <1>8 DEF Differing
<1> QED
  BY <1>1, <1>2, <1>3, <1>4, <1>5, <1>6, <1>7, <1>8, <1>9 DEF StatesFit

LEMMA MovedOn ==
    ASSUME NEW p \in Unread, Moved(p), Least(p), CursorsFit, StatesFit, SameStates, Unread \subseteq Known
    PROVE  Unread' = Unread \ {p} /\ CursorsFit' /\ Unread' \subseteq Known' /\ Passed' = Passed \cup {p}
<1>1. rest'["left"] = rest["left"] \ {p} /\ rest'["right"] = rest["right"] \ {p}
  BY DEF Moved, Sides
<1>2. Unread' = Unread \ {p}
  BY <1>1 DEF Unread
<1>3. Known' = Known /\ state' = state
  BY SameSides DEF SameStates
<1>4. Passed' = Passed \cup {p}
  BY <1>2, <1>3 DEF Passed
<1>5. \A q \in Unread' : Before(p, q)
  BY <1>2, KnownArePaths, BeforeIsOrder DEF Least
<1>6. CursorsFit'
  BY <1>1, <1>2, <1>3, <1>4, <1>5 DEF CursorsFit
<1> QED
  BY <1>2, <1>3, <1>4, <1>6

(* Where a tracker stands after a path: at it or before, and with the        *)
(* boundary the path itself is.                                              *)
StandsAt(s, p, t) ==
    /\ Holds(s, t)
    /\ t.last \in Paths => t.last \in Passed \cup {p}
    /\ state[s].coverage = "recorded" /\ Has(s, p) /\ Rec(s, p).skipped =>
          SkippedBoundary(p, Rec(s, p).kind) \in t.open

LEMMA StandsOn ==
    ASSUME NEW p \in Unread, Moved(p), Least(p), CursorsFit, StatesFit, SameStates, Unread \subseteq Known,
           NEW s \in Sides, NEW t, StandsAt(s, p, t)
    PROVE  Holds(s, t)' /\ (t.last \in Paths => t.last \in Passed')
<1>1. /\ Unread' = Unread \ {p} /\ Passed' = Passed \cup {p}
      /\ state' = state /\ AllBoundaries(s)' = AllBoundaries(s) /\ Excluded(s)' = Excluded(s)
      /\ SkippedOf(s)' = SkippedOf(s)
  BY MovedOn, SameSides DEF SameStates
<1>2. ASSUME state[s].coverage = "recorded", NEW b \in AllBoundaries(s), NEW q \in Unread', Reaches(b, q)
      PROVE  b \in t.open \/ StillToRead(s, t.last, b)'
  <2>1. b \in t.open \/ StillToRead(s, t.last, b)
    BY <1>1, <1>2 DEF StandsAt, Holds
  <2>2. CASE b \in Excluded(s) /\ (t.last = NoPath \/ ~UpTo(b.path, t.last))
    BY <1>1, <2>2 DEF StillToRead
  <2>3. CASE b \in SkippedOf(s) /\ b.path \in Unread
    <3>1. b.path = p => b \in t.open
      BY <1>2, <2>3, SkippedOfIs DEF StandsAt, Has
    <3> QED
      BY <1>1, <2>3, <3>1 DEF StillToRead
  <2> QED
    BY <2>1, <2>2, <2>3 DEF StillToRead
<1>3. Holds(s, t)'
  BY <1>1, <1>2 DEF Holds, StandsAt
<1> QED
  BY <1>1, <1>3 DEF StandsAt

LEMMA NotedStands ==
    ASSUME StatesFit, CursorsFit, NEW s \in Sides, Holds(s, tracker[s]), tracker[s].last \in Paths => tracker[s].last \in Passed,
           NEW p \in Unread, Least(p), Unread \subseteq Known, Has(s, p)
    PROVE  StandsAt(s, p, NotedAt(s, p))
<1>1. CASE Rec(s, p).skipped /\ state[s].coverage = "recorded"
  <2> DEFINE u == Advance(tracker[s], Excluded(s), p)  b == SkippedBoundary(p, Rec(s, p).kind)  t == NotedAt(s, p)
  <2>1. Holds(s, u) /\ u.last = p
    BY AdvanceHolds DEF Advance
  <2>2. t.last = u.last /\ t.open = u.open \cup {b}
    BY <1>1 DEF NotedAt, Noted, Advance
  <2>3. b \in AllBoundaries(s)
    BY <1>1 DEF AllBoundaries, Has
  <2> HIDE DEF u, b, t
  <2>4. Holds(s, t)
    BY <2>1, <2>2, <2>3 DEF Holds
  <2>5. StandsAt(s, p, t)
    BY <2>1, <2>2, <2>4 DEF StandsAt, b
  <2> QED
    BY <2>5 DEF t
<1>2. CASE ~(Rec(s, p).skipped /\ state[s].coverage = "recorded")
  BY <1>2 DEF NotedAt, StandsAt
<1> QED
  BY <1>1, <1>2

LEMMA AskedStands ==
    ASSUME StatesFit, CursorsFit, NEW s \in Sides, Holds(s, tracker[s]), tracker[s].last \in Paths => tracker[s].last \in Passed,
           NEW p \in Unread, Least(p), Unread \subseteq Known, ~Has(s, p)
    PROVE  StandsAt(s, p, AskedAt(s, p)) /\ StandsAt(s, p, tracker[s])
<1>1. StandsAt(s, p, tracker[s])
  BY DEF StandsAt
<1>2. StandsAt(s, p, Advance(tracker[s], Excluded(s), p))
  BY AdvanceHolds DEF StandsAt, Advance
<1> QED
  BY <1>1, <1>2 DEF AskedAt

(* A tracker is not asked behind where it stands. *)
LEMMA NeverDisordered ==
    ASSUME StatesFit, CursorsFit, TrackersFit, NEW s \in Sides, NEW p \in Unread, Unread \subseteq Known
    PROVE  ~OutOfOrder(tracker[s], p)
<1>1. p \in Paths /\ Passed \subseteq Paths
  BY KnownArePaths DEF Passed
<1>2. tracker[s].last # NoPath => tracker[s].last \in Passed
  BY DEF TrackersFit, Holds
<1> QED
  BY <1>1, <1>2, NotBoth DEF OutOfOrder, CursorsFit

LEMMA TrackersFollow ==
    ASSUME NEW p \in Unread, Moved(p), Least(p), CursorsFit, StatesFit, SameStates, Unread \subseteq Known,
           \A s \in Sides : StandsAt(s, p, tracker'[s])
    PROVE  TrackersFit'
<1> SUFFICES ASSUME NEW s \in Sides
             PROVE  (Holds(s, tracker[s]) /\ (tracker[s].last \in Paths => tracker[s].last \in Passed))'
  BY DEF TrackersFit
<1>1. ASSUME NEW t, t = tracker'[s] PROVE Holds(s, t)' /\ (t.last \in Paths => t.last \in Passed')
  BY <1>1, StandsOn
<1>2. ASSUME NEW t, t = tracker'[s], Holds(s, t)' PROVE Holds(s, tracker[s])'
  BY <1>2 DEF Holds
<1> QED
  BY <1>1, <1>2

LEMMA BothNoted ==
    ASSUME NEW p \in Unread, Moved(p), Least(p), CursorsFit, StatesFit, SameStates, TrackersFit, Unread \subseteq Known,
           tracker' = [s \in Sides |-> NotedAt(s, p)], \A s \in Sides : Has(s, p)
    PROVE  TrackersFit'
<1>1. \A s \in Sides : StandsAt(s, p, tracker'[s])
  BY NotedStands DEF TrackersFit
<1> QED
  BY <1>1, TrackersFollow

LEMMA OneNoted ==
    ASSUME NEW p \in Unread, Moved(p), Least(p), CursorsFit, StatesFit, SameStates, TrackersFit, Unread \subseteq Known,
           NEW s \in Sides, Has(s, p), ~Has(Other(s), p),
           tracker'[s] = NotedAt(s, p), tracker'[Other(s)] \in {AskedAt(Other(s), p), tracker[Other(s)]}
    PROVE  TrackersFit'
<1>1. Other(s) \in Sides /\ \A t \in Sides : t = s \/ t = Other(s)
  BY DEF Sides, Other
<1>2. StandsAt(s, p, tracker'[s])
  BY NotedStands DEF TrackersFit
<1>3. StandsAt(Other(s), p, tracker'[Other(s)])
  BY <1>1, AskedStands DEF TrackersFit
<1> QED
  BY <1>1, <1>2, <1>3, TrackersFollow

(* What has been passed on and what is held back, as one report.             *)
Whole == served \o buffered \o overflow

ReportFits ==
    /\ served \in Seq(Expected(Known)) /\ buffered \in Seq(Expected(Known)) /\ overflow \in Seq(Expected(Known))
    /\ Len(overflow) <= 1
    /\ stage \in {"off", "buffering", "passing"}
    /\ stage = "off" => buffered = <<>> /\ overflow = <<>>
    /\ stage = "buffering" => served = <<>> /\ overflow = <<>>

LEMMA ElementsGrow ==
    ASSUME NEW S, NEW seq \in Seq(S), NEW e \in S
    PROVE  Elements(Append(seq, e)) = Elements(seq) \cup {e}
<1>1. /\ Len(Append(seq, e)) = Len(seq) + 1 /\ Len(seq) \in Nat
      /\ \A i \in 1..Len(seq) : Append(seq, e)[i] = seq[i]
      /\ Append(seq, e)[Len(seq) + 1] = e
  BY AppendProperties, LenProperties
<1>2. 1..(Len(seq) + 1) = 1..Len(seq) \cup {Len(seq) + 1}
  BY <1>1
<1> QED
  BY <1>1, <1>2, Zenon DEF Elements

LEMMA ElementsJoin ==
    ASSUME NEW S, NEW s \in Seq(S), NEW t \in Seq(S)
    PROVE  Elements(s \o t) = Elements(s) \cup Elements(t)
<1>1. /\ Len(s \o t) = Len(s) + Len(t) /\ Len(s) \in Nat /\ Len(t) \in Nat
      /\ \A i \in 1..(Len(s) + Len(t)) : (s \o t)[i] = IF i <= Len(s) THEN s[i] ELSE t[i - Len(s)]
  BY ConcatProperties, LenProperties
<1>2. ASSUME NEW i \in 1..Len(s) PROVE s[i] \in Elements(s \o t)
  <2>1. i \in 1..(Len(s) + Len(t)) /\ (s \o t)[i] = s[i]
    BY <1>1
  <2> QED
    BY <1>1, <2>1 DEF Elements
<1>3. ASSUME NEW i \in 1..Len(t) PROVE t[i] \in Elements(s \o t)
  <2>1. i + Len(s) \in 1..(Len(s) + Len(t)) /\ (s \o t)[i + Len(s)] = t[i]
    BY <1>1
  <2> QED
    BY <1>1, <2>1 DEF Elements
<1>4. ASSUME NEW i \in 1..(Len(s) + Len(t)) PROVE (s \o t)[i] \in Elements(s) \cup Elements(t)
  <2>1. CASE i <= Len(s)
    BY <1>1, <2>1 DEF Elements
  <2>2. CASE i > Len(s)
    <3>1. i - Len(s) \in 1..Len(t) /\ (s \o t)[i] = t[i - Len(s)]
      BY <1>1, <2>2
    <3> QED
      BY <3>1 DEF Elements
  <2> QED
    BY <1>1, <2>1, <2>2
<1> QED
  BY <1>1, <1>2, <1>3, <1>4 DEF Elements

LEMMA InOrderGrows ==
    ASSUME NEW S, NEW seq \in Seq(S), NEW e \in S, InOrder(seq), \A d \in Elements(seq) : Before(Primary(d), Primary(e))
    PROVE  InOrder(Append(seq, e))
<1>1. /\ Len(Append(seq, e)) = Len(seq) + 1 /\ Len(seq) \in Nat
      /\ \A i \in 1..Len(seq) : Append(seq, e)[i] = seq[i]
      /\ Append(seq, e)[Len(seq) + 1] = e
  BY AppendProperties, LenProperties
<1> SUFFICES ASSUME NEW i \in 1..Len(Append(seq, e)), NEW j \in 1..Len(Append(seq, e)), i < j
             PROVE  Before(Primary(Append(seq, e)[i]), Primary(Append(seq, e)[j]))
  BY DEF InOrder
<1>2. i \in 1..Len(seq) /\ (j \in 1..Len(seq) \/ j = Len(seq) + 1)
  BY <1>1
<1>3. seq[i] \in Elements(seq)
  BY <1>2 DEF Elements
<1> QED
  BY <1>1, <1>2, <1>3 DEF InOrder

LEMMA WholeIs ==
    ASSUME ReportFits
    PROVE  /\ Whole \in Seq(Expected(Known)) /\ Elements(Whole) = Emitted
           /\ buffered = <<>> /\ overflow = <<>> => Whole = served
           /\ stage = "buffering" => Whole = buffered
<1>1. served \o buffered \in Seq(Expected(Known)) /\ Whole \in Seq(Expected(Known))
  BY ConcatProperties DEF ReportFits, Whole
<1>2. Elements(Whole) = Emitted
  <2>1. served \in Seq(Expected(Known)) /\ buffered \in Seq(Expected(Known)) /\ overflow \in Seq(Expected(Known))
    BY DEF ReportFits
  <2>2. Elements(served \o buffered) = Elements(served) \cup Elements(buffered)
    BY <2>1, ElementsJoin
  <2>3. Elements((served \o buffered) \o overflow) = Elements(served \o buffered) \cup Elements(overflow)
    BY <1>1, <2>1, ElementsJoin
  <2> QED
    BY <2>2, <2>3 DEF Whole, Emitted
<1>3. buffered = <<>> /\ overflow = <<>> => Whole = served
  BY ConcatEmptySeq DEF ReportFits, Whole
<1>4. stage = "buffering" => Whole = buffered
  BY ConcatEmptySeq DEF ReportFits, Whole
<1> QED
  BY <1>1, <1>2, <1>3, <1>4

(* However a change is passed on, the report grows by it at its end.         *)
LEMMA EmitGrows ==
    ASSUME ReportFits, Drawing, NEW c \in Expected(Known), Emit(c), Expected(Known)' = Expected(Known)
    PROVE  ReportFits' /\ Whole' = Append(Whole, c)
<1> DEFINE E == Expected(Known)
<1>1. /\ served \in Seq(E) /\ buffered \in Seq(E) /\ overflow \in Seq(E) /\ <<>> \in Seq(E) /\ Len(<<>>) = 0
      /\ c \in E /\ <<c>> \in Seq(E) /\ Len(<<c>>) = 1 /\ Whole \in Seq(E)
  BY WholeIs DEF ReportFits
<1>2. E' = E
  OBVIOUS
<1> HIDE DEF E
<1>3. CASE /\ stage \in {"off", "passing"}
           /\ served' = Append(served, c)
           /\ UNCHANGED <<buffered, overflow, stage>>
  <2>1. buffered = <<>> /\ overflow = <<>>
    BY <1>3 DEF Drawing, ReportFits
  <2>2. Whole = served
    BY <2>1, WholeIs
  <2>3. served' \in Seq(E)
    BY <1>1, <1>3, AppendProperties
  <2>4. Whole' = served'
    BY <1>1, <1>3, <2>1, <2>3, ConcatEmptySeq DEF Whole
  <2>5. ReportFits'
    BY <1>1, <1>2, <1>3, <2>1, <2>3 DEF ReportFits, E
  <2> QED
    BY <1>3, <2>2, <2>4, <2>5
<1>4. CASE /\ stage = "buffering" /\ Len(buffered) < ask.limit
           /\ buffered' = Append(buffered, c)
           /\ UNCHANGED <<overflow, served, stage>>
  <2>1. served = <<>> /\ overflow = <<>>
    BY <1>4 DEF ReportFits
  <2>2. Whole = buffered
    BY <1>4, WholeIs
  <2>3. buffered' \in Seq(E)
    BY <1>1, <1>4, AppendProperties
  <2>4. Whole' = buffered'
    BY <1>1, <1>4, <2>1, <2>3, ConcatEmptySeq DEF Whole
  <2>5. ReportFits'
    BY <1>1, <1>2, <1>4, <2>1, <2>3 DEF ReportFits, E
  <2> QED
    BY <1>4, <2>2, <2>4, <2>5
<1>5. CASE /\ stage = "buffering" /\ Len(buffered) = ask.limit
           /\ overflow' = <<c>>
           /\ stage' = "passing"
           /\ UNCHANGED <<buffered, served>>
  <2>1. served = <<>> /\ overflow = <<>>
    BY <1>5 DEF ReportFits
  <2>2. Whole = buffered
    BY <1>5, WholeIs
  <2>3. Whole' = buffered \o <<c>>
    BY <1>1, <1>5, <2>1, ConcatEmptySeq DEF Whole
  <2>4. Whole' = Append(buffered, c)
    BY <1>1, <2>3, AppendIsConcat
  <2>5. ReportFits'
    BY <1>1, <1>2, <1>5, <2>1 DEF ReportFits, E
  <2> QED
    BY <2>2, <2>4, <2>5
<1> QED
  BY <1>3, <1>4, <1>5 DEF Emit

(* The report of the paths passed, so far.                                   *)
Reported ==
    /\ InOrder(Whole)
    /\ Elements(Whole) = Expected(Differing \ Unread)

LEMMA OneMoreReported ==
    ASSUME ReportFits, Reported, CursorsFit, StatesFit, SameStates, Drawing, NEW p \in Unread, Unread \subseteq Known,
           Unread' = Unread \ {p}, p \in Differing, Emit(ChangeAt(p, Missing(p)))
    PROVE  ReportFits' /\ Reported'
<1> DEFINE c == ChangeAt(p, Missing(p))
<1>1. p \in Known /\ Differing \subseteq Known /\ c \in Expected(Known)
  BY DEF Differing, Expected
<1>2. /\ Expected(Known)' = Expected(Known) /\ Differing' = Differing
      /\ \A S : Expected(S)' = Expected(S)
  BY SameSides
<1>3. ReportFits' /\ Whole' = Append(Whole, c)
  BY <1>1, <1>2, EmitGrows
<1>4. Whole \in Seq(Expected(Known))
  BY WholeIs
<1>5. Primary(c) = p
  BY <1>1, PrimaryIs
<1>6. ASSUME NEW d \in Elements(Whole) PROVE Before(Primary(d), p)
  <2>1. d \in Expected(Differing \ Unread) /\ Differing \ Unread \in SUBSET Known
    BY <1>1 DEF Reported
  <2>2. Primary(d) \in Differing \ Unread
    BY <2>1, ExpectedIs
  <2> QED
    BY <1>1, <2>2 DEF CursorsFit, Passed
<1>7. InOrder(Whole')
  BY <1>1, <1>3, <1>4, <1>5, <1>6, InOrderGrows DEF Reported
<1>8. Elements(Whole') = Elements(Whole) \cup {c}
  BY <1>1, <1>3, <1>4, ElementsGrow
<1>9. (Differing \ Unread)' = (Differing \ Unread) \cup {p}
  BY <1>2
<1>10. Expected((Differing \ Unread) \cup {p}) = Expected(Differing \ Unread) \cup {c}
  BY <1>1, ExpectedOne
<1>11. Expected(Differing \ Unread)' = Expected((Differing \ Unread) \cup {p})
  BY <1>2, <1>9 DEF Expected
<1>12. InOrder(Whole)' /\ Elements(Whole)' = Elements(Whole')
  BY <1>7, SameSides DEF InOrder, Elements, Primary
<1> QED
  BY <1>3, <1>8, <1>10, <1>11, <1>12 DEF Reported

LEMMA NothingReported ==
    ASSUME ReportFits, Reported, SameStates, UNCHANGED report, Differing' \ Unread' = Differing \ Unread
    PROVE  ReportFits' /\ Reported'
<1>1. /\ Expected(Known)' = Expected(Known) /\ Differing' = Differing
      /\ \A S : Expected(S)' = Expected(S)
  BY SameSides
<1>2. served' = served /\ buffered' = buffered /\ overflow' = overflow /\ stage' = stage
  BY DEF report
<1>3. ReportFits'
  BY <1>1, <1>2 DEF ReportFits
<1>4. Whole' = Whole
  BY <1>2 DEF Whole
<1>5. InOrder(Whole)' /\ Elements(Whole)' = Elements(Whole)
  BY <1>4, SameSides DEF InOrder, Elements, Primary, Reported
<1>6. Expected(Differing \ Unread)' = Expected(Differing \ Unread)
  <2>1. (Differing \ Unread)' = Differing \ Unread
    OBVIOUS
  <2> QED
    BY <1>1, <2>1 DEF Expected
<1> QED
  BY <1>3, <1>5, <1>6 DEF Reported

Merging ==
    /\ StatesFit /\ Unread \subseteq Known /\ CursorsFit /\ TrackersFit
    /\ ReportFits /\ Reported
    /\ ask.mode = "relate" => ask.filters = {}

Finished ==
    /\ InOrder(served)
    /\ UNION {Halves(c) : c \in Elements(served)} = Expected(Differing)
    /\ \A c, d \in Elements(served) : c # d => Halves(c) \cap Halves(d) = {}
    /\ \A c \in Elements(served) : c.status = "renamed" =>
          \A d \in Expected(Differing) \ Halves(c) :
             d.status \in {"added", "deleted"} =>
                 RenameKey(d) \cap RenameKey(ChangeAt(c.old, "none")) = {}
    /\ ask.filters = {} => (served = <<>> <=> TreeHash("left") = TreeHash("right"))

MergeInv ==
    /\ outcome = "idle" => /\ served = <<>> /\ buffered = <<>> /\ overflow = <<>>
                           /\ tracker = [s \in Sides |-> NewTracker]
    /\ outcome = "merging" => Merging
    /\ outcome = "complete" => Finished
    /\ outcome # "disordered"

LEMMA MergeIsTrue ==
    ASSUME MergeInv
    PROVE  ReportIsTheDifference
<1>1. outcome = "merging" => Emitted = Expected(Differing \ Unread)
  BY WholeIs DEF MergeInv, Merging, Reported
<1> QED
  BY <1>1 DEF MergeInv, ReportIsTheDifference, CounterpartsAreProved, QuietMeansSameTree, Finished

LEMMA OneSideSilent ==
    ASSUME NEW s \in Sides, NEW p, Has(s, p), ~Has(Other(s), p)
    PROVE  /\ Missing(p) = Meaning(Other(s), p) /\ p \in Known
           /\ StatusAt(p) \in {"added", "deleted"} /\ Other(s) \in Sides
  BY DEF Sides, Other, Missing, StatusAt, Known, Has

LEMMA ReadPairKeeps ==
    ASSUME MergeInv, NEW p \in Unread, ReadPair(p)
    PROVE  MergeInv'
<1>1. outcome = "merging" /\ outcome' = "merging" /\ SameStates /\ ask' = ask /\ Merging /\ Least(p) /\ Moved(p) /\ Drawing
  BY DEF MergeInv, ReadPair, Drawing, SameStates, inputs
<1>2. Has("left", p) /\ Has("right", p) /\ p \in Known /\ \A s \in Sides : Has(s, p)
  BY DEF ReadPair, Known, Has, Sides
<1>3. Unread' = Unread \ {p} /\ CursorsFit' /\ Unread' \subseteq Known'
  BY <1>1, MovedOn DEF Merging
<1>4. TrackersFit'
  BY <1>1, <1>2, BothNoted DEF Merging, ReadPair
<1>5. ReportFits' /\ Reported'
  <2>1. CASE StatusAt(p) # "same" /\ Selected(p) /\ Emit(ChangeAt(p, "none"))
    <3>1. p \in Differing /\ Missing(p) = "none"
      BY <1>2, <2>1 DEF Differing, Missing
    <3> QED
      BY <1>1, <1>3, <2>1, <3>1, OneMoreReported DEF Merging
  <2>2. CASE (StatusAt(p) = "same" \/ ~Selected(p)) /\ UNCHANGED report
    <3>1. Differing' = Differing /\ p \notin Differing
      BY <1>1, <2>2, SameSides DEF Differing
    <3> QED
      BY <1>1, <1>3, <2>2, <3>1, NothingReported DEF Merging
  <2> QED
    BY <2>1, <2>2 DEF ReadPair
<1>6. StatesFit'
  BY <1>1, SameSides DEF Merging
<1> QED
  BY <1>1, <1>3, <1>4, <1>5, <1>6 DEF MergeInv, Merging

LEMMA ReadOneSidedKeeps ==
    ASSUME MergeInv, NEW p \in Unread, NEW s \in Sides, ReadOneSided(s, p)
    PROVE  MergeInv'
<1>1. outcome = "merging" /\ SameStates /\ ask' = ask /\ Merging /\ Least(p) /\ Moved(p) /\ Drawing
  BY DEF MergeInv, ReadOneSided, Drawing, SameStates, inputs
<1>2. /\ Missing(p) = Meaning(Other(s), p) /\ p \in Known /\ StatusAt(p) # "same" /\ Other(s) \in Sides
      /\ Has(s, p) /\ ~Has(Other(s), p) /\ Other(s) # s
  <2>1. Has(s, p) /\ ~Has(Other(s), p) /\ Other(s) # s
    BY DEF ReadOneSided, Other, Sides
  <2> QED
    BY <2>1, OneSideSilent
<1>3. Unread' = Unread \ {p} /\ CursorsFit' /\ Unread' \subseteq Known'
  BY <1>1, MovedOn DEF Merging
<1>4. /\ tracker'[s] = NotedAt(s, p)
      /\ tracker'[Other(s)] \in {AskedAt(Other(s), p), tracker[Other(s)]}
  BY <1>2 DEF ReadOneSided
<1>5. TrackersFit'
  BY <1>1, <1>2, <1>4, OneNoted DEF Merging
<1>6. outcome' = "merging"
  BY <1>1, <1>2, NeverDisordered DEF ReadOneSided, Merging
<1>7. ReportFits' /\ Reported'
  <2>1. CASE Selected(p) /\ Emit(ChangeAt(p, QualifiedAt(Other(s), p)))
    <3>1. p \in Differing
      BY <1>2, <2>1 DEF Differing
    <3>2. QualifiedAt(Other(s), p) = Missing(p)
      BY <1>1, <1>2, AskedIsMeaning DEF Merging, TrackersFit
    <3> QED
      BY <1>1, <1>3, <2>1, <3>1, <3>2, OneMoreReported DEF Merging
  <2>2. CASE ~Selected(p) /\ UNCHANGED report
    <3>1. Differing' = Differing /\ p \notin Differing
      BY <1>1, <2>2, SameSides DEF Differing
    <3> QED
      BY <1>1, <1>3, <2>2, <3>1, NothingReported DEF Merging
  <2> QED
    BY <1>6, <2>1, <2>2 DEF ReadOneSided
<1>8. StatesFit'
  BY <1>1, SameSides DEF Merging
<1> QED
  BY <1>1, <1>3, <1>5, <1>6, <1>7, <1>8 DEF MergeInv, Merging

LEMMA RelatesKeeps ==
    ASSUME MergeInv, NEW p \in Unread, NEW s \in Sides, Relates(s, p)
    PROVE  MergeInv'
<1>1. CASE outcome' = "unsupported"
  BY <1>1 DEF MergeInv
<1>2. CASE outcome' # "unsupported"
  <2>1. outcome = "merging" /\ SameStates /\ ask' = ask /\ Merging /\ Least(p) /\ Moved(p) /\ Drawing
    BY DEF MergeInv, Relates, Drawing, SameStates, inputs
  <2>2. /\ Missing(p) = Meaning(Other(s), p) /\ p \in Known /\ StatusAt(p) # "same" /\ Other(s) \in Sides
        /\ Has(s, p) /\ ~Has(Other(s), p) /\ Other(s) # s
    <3>1. Has(s, p) /\ ~Has(Other(s), p) /\ Other(s) # s
      BY DEF Relates, Other, Sides
    <3> QED
      BY <3>1, OneSideSilent
  <2>3. /\ QualifiedAt(Other(s), p) = "absent" /\ Emit(ChangeAt(p, "absent")) /\ outcome' = "merging"
        /\ ask.filters = {}
    BY <1>2, <2>1 DEF Relates, Merging
  <2>4. Unread' = Unread \ {p} /\ CursorsFit' /\ Unread' \subseteq Known'
    BY <2>1, MovedOn DEF Merging
  <2>5. tracker'[s] = NotedAt(s, p) /\ tracker'[Other(s)] = AskedAt(Other(s), p)
    BY <2>2 DEF Relates
  <2>6. TrackersFit'
    BY <2>1, <2>2, <2>5, OneNoted DEF Merging
  <2>7. p \in Differing
    BY <2>2, <2>3 DEF Differing, Selected
  <2>8. QualifiedAt(Other(s), p) = Missing(p)
    BY <2>1, <2>2, AskedIsMeaning DEF Merging, TrackersFit
  <2>9. ReportFits' /\ Reported'
    BY <2>1, <2>3, <2>4, <2>7, <2>8, OneMoreReported DEF Merging
  <2>10. StatesFit'
    BY <2>1, SameSides DEF Merging
  <2> QED
    BY <2>1, <2>3, <2>4, <2>6, <2>9, <2>10 DEF MergeInv, Merging
<1> QED
  BY <1>1, <1>2

(* Sorting: changes with primary paths of their own have one order.          *)
LEMMA SortedIs ==
    ASSUME NEW X, IsFiniteSet(X), \A c \in X : Primary(c) \in Paths,
           \A c, d \in X : Primary(c) = Primary(d) => c = d
    PROVE  Len(Sorted(X)) = Cardinality(X) /\ Sorted(X) \in Seq(X) /\ InOrder(Sorted(X)) /\ Elements(Sorted(X)) = X
<1> DEFINE n == Cardinality(X)  Below(c) == {d \in X : Before(Primary(d), Primary(c))}
           r == [c \in X |-> Cardinality(Below(c)) + 1]
           Orders(f) == \A i, j \in 1..n : i < j => Before(Primary(f[i]), Primary(f[j]))
<1>1. n \in Nat /\ IsFiniteSet(1..n) /\ Cardinality(1..n) = n
  BY FS_CardinalityType, FS_Interval
<1>2. ASSUME NEW c \in X
      PROVE  IsFiniteSet(Below(c)) /\ r[c] = Cardinality(Below(c)) + 1 /\ Cardinality(Below(c)) \in Nat
             /\ r[c] \in 1..n
  <2>1. Below(c) \subseteq X \ {c} /\ Below(c) \subseteq X
    BY BeforeIsOrder
  <2>2. IsFiniteSet(X \ {c}) /\ Cardinality(X \ {c}) = n - 1
    BY FS_RemoveElement
  <2>3. IsFiniteSet(Below(c)) /\ Cardinality(Below(c)) <= n - 1
    BY <2>1, <2>2, FS_Subset
  <2>4. Cardinality(Below(c)) \in Nat
    BY <2>3, FS_CardinalityType
  <2>5. r[c] = Cardinality(Below(c)) + 1
    OBVIOUS
  <2> HIDE DEF Below, r, n
  <2> QED
    BY <1>1, <2>3, <2>4, <2>5
<1>3. ASSUME NEW c \in X, NEW d \in X, Before(Primary(c), Primary(d)) PROVE r[c] < r[d]
  <2>1. Below(c) \subseteq Below(d) /\ c \in Below(d) /\ c \notin Below(c)
    BY <1>3, BeforeIsOrder
  <2>2. Cardinality(Below(c)) <= Cardinality(Below(d)) /\ Cardinality(Below(c)) # Cardinality(Below(d))
    BY <1>2, <2>1, FS_Subset
  <2> HIDE DEF Below, r, n
  <2> QED
    BY <1>2, <2>2
<1> HIDE DEF n, Below, r
<1>4. \A c, d \in X : c = d \/ Before(Primary(c), Primary(d)) \/ Before(Primary(d), Primary(c))
  BY BeforeIsOrder
<1>5. \A c, d \in X : r[c] < r[d] => Before(Primary(c), Primary(d))
  BY <1>1, <1>2, <1>3, <1>4
<1>6. \A c, d \in X : r[c] = r[d] => c = d
  BY <1>1, <1>2, <1>3, <1>4
<1>7. r \in [X -> 1..n]
  BY <1>2 DEF r
<1>8. r \in Injection(X, 1..n)
  BY <1>6, <1>7 DEF Injection, IsInjective
<1>9. r \in Surjection(X, 1..n)
  BY <1>1, <1>8, FS_Injection DEF n
<1>10. \A i \in 1..n : \E c \in X : r[c] = i
  BY <1>9 DEF Surjection
<1> DEFINE f == [i \in 1..n |-> CHOOSE c \in X : r[c] = i]
<1>11. \A i \in 1..n : f[i] \in X /\ r[f[i]] = i
  BY <1>10
<1>12. f \in [1..n -> X]
  BY <1>11
<1> HIDE DEF f
<1>13. Orders(f)
  BY <1>5, <1>11
<1> DEFINE g == Sorted(X)
<1>14. g \in [1..n -> X] /\ Orders(g)
  <2>1. g = CHOOSE h \in [1..n -> X] : Orders(h)
    BY DEF Sorted, n
  <2> HIDE DEF g, Orders
  <2> QED
    BY <1>12, <1>13, <2>1
<1> HIDE DEF g
<1>15. \A i, j \in 1..n : g[i] = g[j] => i = j
  <2>1. \A i \in 1..n : Primary(g[i]) \in Paths
    BY <1>14
  <2> QED
    BY <1>1, <1>14, <2>1, BeforeIsOrder
<1>16. g \in Injection(1..n, X)
  BY <1>14, <1>15 DEF Injection, IsInjective
<1>17. g \in Surjection(1..n, X)
  BY <1>1, <1>16, FS_Injection DEF n
<1>18. g \in Seq(X) /\ Len(g) = n
  BY <1>1, <1>14, SeqDef, LenProperties
<1>19. InOrder(g)
  BY <1>14, <1>18 DEF InOrder
<1>20. Elements(g) = X
  BY <1>14, <1>17, <1>18 DEF Elements, Surjection
<1> QED
  BY <1>18, <1>19, <1>20 DEF g, n

(* Pairing renames: a change is in one pair at most, and what stands for a   *)
(* pair is where its addition was.                                           *)
LEMMA RenamedIs ==
    ASSUME NEW d, NEW a
    PROVE  /\ Renamed(d, a).status = "renamed" /\ Renamed(d, a).old = d.old /\ Renamed(d, a).new = a.new
  BY Zenon DEF Renamed

LEMMA SameKey ==
    ASSUME NEW c, NEW d, c.status = d.status, c.old = d.old, c.new = d.new
    PROVE  RenameKey(c) = RenameKey(d)
  BY DEF RenameKey

LEMMA OneKey ==
    ASSUME NEW c, NEW d, RenameKey(c) \cap RenameKey(d) # {}
    PROVE  RenameKey(c) = RenameKey(d) /\ RenameKey(c) # {}
<1>1. \A e : \/ RenameKey(e) = {}
             \/ \E k : RenameKey(e) = {k}
  BY DEF RenameKey
<1> QED
  BY <1>1

LEMMA HalvesOfOne ==
    ASSUME NEW S \in SUBSET Known, NEW c \in Expected(S)
    PROVE  Halves(c) = {c}
  BY ExpectedIs DEF Halves

PairOf(X, x) ==
    /\ x[1] \in X /\ x[2] \in X
    /\ x[1].status = "deleted" /\ x[2].status = "added"
    /\ \A c \in X : /\ c.status = "deleted" /\ RenameKey(c) = RenameKey(x[1]) => c = x[1]
                    /\ c.status = "added" /\ RenameKey(c) = RenameKey(x[1]) => c = x[2]
    /\ RenameKey(x[1]) = RenameKey(x[2])

LEMMA PairsAre ==
    ASSUME NEW X, NEW x \in Pairs(X)
    PROVE  PairOf(X, x)
  BY DEF Pairs, PairOf

LEMMA PairsApart ==
    ASSUME NEW X, NEW x \in Pairs(X), NEW y \in Pairs(X)
    PROVE  /\ x[1] = y[1] <=> x[2] = y[2]
           /\ x[1] # y[2] /\ x[2] # y[1]
  BY PairsAre DEF PairOf

LEMMA PairedHalves ==
    ASSUME NEW S \in SUBSET Known, NEW x \in Pairs(Expected(S))
    PROVE  /\ Halves(Renamed(x[1], x[2])) = {x[1], x[2]}
           /\ Primary(Renamed(x[1], x[2])) = Primary(x[2])
           /\ x[1] \in Expected(S) /\ x[2] \in Expected(S)
<1> DEFINE d == x[1]  a == x[2]  c == Renamed(d, a)
<1>1. d \in Expected(S) /\ a \in Expected(S) /\ d.status = "deleted" /\ a.status = "added"
  BY PairsAre DEF PairOf
<1>2. c.status = "renamed" /\ c.old = d.old /\ c.new = a.new
  BY RenamedIs
<1> HIDE DEF c, d, a
<1>3. d.old = Primary(d) /\ a.new = Primary(a)
  BY <1>1 DEF Primary
<1>4. d = ChangeAt(d.old, Missing(d.old)) /\ a = ChangeAt(a.new, Missing(a.new))
  BY <1>1, <1>3, ExpectedIs
<1>5. Halves(c) = {d, a}
  BY <1>2, <1>4 DEF Halves
<1>6. Primary(c) = Primary(a)
  BY <1>2, <1>3 DEF Primary
<1> QED
  BY <1>1, <1>5, <1>6 DEF c, d, a

(* What stands in the paired report: a change left alone, or one for a pair. *)
InPairs(X) == UNION {{x[1], x[2]} : x \in Pairs(X)}

LEMMA PairedAre ==
    ASSUME NEW X, NEW y
    PROVE  y \in Paired(X) <=> \/ y \in X \ InPairs(X)
                               \/ \E x \in Pairs(X) : y = Renamed(x[1], x[2])
  BY DEF Paired, InPairs

LEMMA PairedApart ==
    ASSUME NEW S \in SUBSET Known, NEW y \in Paired(Expected(S)), NEW z \in Paired(Expected(S)), y # z
    PROVE  Halves(y) \cap Halves(z) = {} /\ Primary(y) # Primary(z)
<1> DEFINE X == Expected(S)
<1>1. \A c \in X : Halves(c) = {c}
  BY HalvesOfOne
<1>2. \A c, d \in X : Primary(c) = Primary(d) => c = d
  BY ExpectedIs
<1>3. \A x \in Pairs(X) : /\ Halves(Renamed(x[1], x[2])) = {x[1], x[2]}
                          /\ Primary(Renamed(x[1], x[2])) = Primary(x[2])
                          /\ x[1] \in X /\ x[2] \in X /\ x[1] \in InPairs(X) /\ x[2] \in InPairs(X)
  BY PairedHalves DEF InPairs
<1>4. \A x, w \in Pairs(X) : (x[1] = w[1] <=> x[2] = w[2]) /\ x[1] # w[2] /\ x[2] # w[1]
  BY PairsApart
<1>5. \A v \in {y, z} : v \in X \ InPairs(X) \/ \E x \in Pairs(X) : v = Renamed(x[1], x[2])
  BY PairedAre
<1> HIDE DEF X
<1>6. CASE y \in X \ InPairs(X) /\ z \in X \ InPairs(X)
  BY <1>1, <1>2, <1>6
<1>7. ASSUME NEW x \in Pairs(X), y = Renamed(x[1], x[2]), z \in X \ InPairs(X)
      PROVE  Halves(y) \cap Halves(z) = {} /\ Primary(y) # Primary(z)
  BY <1>1, <1>2, <1>3, <1>7
<1>8. ASSUME NEW x \in Pairs(X), z = Renamed(x[1], x[2]), y \in X \ InPairs(X)
      PROVE  Halves(y) \cap Halves(z) = {} /\ Primary(y) # Primary(z)
  BY <1>1, <1>2, <1>3, <1>8
<1>9. ASSUME NEW x \in Pairs(X), NEW w \in Pairs(X), y = Renamed(x[1], x[2]), z = Renamed(w[1], w[2])
      PROVE  Halves(y) \cap Halves(z) = {} /\ Primary(y) # Primary(z)
  <2>1. x[1] # w[1] /\ x[2] # w[2]
    BY <1>4, <1>9
  <2> QED
    BY <1>2, <1>3, <1>4, <1>9, <2>1
<1> QED
  BY <1>5, <1>6, <1>7, <1>8, <1>9

LEMMA PairedWhole ==
    ASSUME NEW S \in SUBSET Known
    PROVE  UNION {Halves(y) : y \in Paired(Expected(S))} = Expected(S)
<1> DEFINE X == Expected(S)
<1>1. \A c \in X : Halves(c) = {c}
  BY HalvesOfOne
<1>2. \A x \in Pairs(X) : Halves(Renamed(x[1], x[2])) = {x[1], x[2]} /\ x[1] \in X /\ x[2] \in X
  BY PairedHalves
<1>3. \A y : y \in Paired(X) <=> y \in X \ InPairs(X) \/ \E x \in Pairs(X) : y = Renamed(x[1], x[2])
  BY PairedAre
<1>4. \A c : c \in InPairs(X) <=> \E x \in Pairs(X) : c \in {x[1], x[2]}
  BY DEF InPairs
<1> HIDE DEF X
<1>5. ASSUME NEW c \in X PROVE \E y \in Paired(X) : c \in Halves(y)
  <2>1. CASE c \notin InPairs(X)
    BY <1>1, <1>3, <1>5, <2>1
  <2>2. CASE c \in InPairs(X)
    <3>1. PICK x \in Pairs(X) : c \in {x[1], x[2]}
      BY <1>4, <2>2
    <3>2. c \in Halves(Renamed(x[1], x[2])) /\ Renamed(x[1], x[2]) \in Paired(X)
      BY <1>2, <1>3, <3>1
    <3> QED
      BY <3>2
  <2> QED
    BY <2>1, <2>2
<1>6. ASSUME NEW y \in Paired(X) PROVE Halves(y) \subseteq X
  BY <1>1, <1>2, <1>3
<1>7. UNION {Halves(y) : y \in Paired(X)} = X
  BY <1>5, <1>6
<1> QED
  BY <1>7 DEF X

LEMMA PairedFinite ==
    ASSUME NEW S \in SUBSET Known, IsFiniteSet(Expected(S))
    PROVE  IsFiniteSet(Paired(Expected(S)))
<1> DEFINE X == Expected(S)  Y == Paired(X)
<1>1. \A y \in Y : \E c \in X : Primary(c) = Primary(y)
  BY PairedAre, PairedHalves
<1>2. \A y, z \in Y : Primary(y) = Primary(z) => y = z
  BY PairedApart
<1> HIDE DEF X, Y
<1> DEFINE f == [y \in Y |-> CHOOSE c \in X : Primary(c) = Primary(y)]
<1>3. \A y \in Y : f[y] \in X /\ Primary(f[y]) = Primary(y)
  BY <1>1
<1>4. f \in [Y -> X]
  BY <1>3
<1> HIDE DEF f
<1>5. \A y, z \in Y : f[y] = f[z] => y = z
  <2> SUFFICES ASSUME NEW y \in Y, NEW z \in Y, f[y] = f[z] PROVE y = z
    OBVIOUS
  <2>1. Primary(y) = Primary(z)
    BY <1>3
  <2> QED
    BY <1>2, <2>1
<1>6. f \in Injection(Y, X)
  BY <1>4, <1>5 DEF Injection, IsInjective
<1> QED
  BY <1>6, FS_Injection DEF X, Y

(* Nothing else could have been paired with what was.                        *)
LEMMA PairedAlone ==
    ASSUME NEW S \in SUBSET Known, NEW c \in Paired(Expected(S)), c.status = "renamed",
           NEW d \in Expected(S) \ Halves(c), d.status \in {"added", "deleted"}
    PROVE  RenameKey(d) \cap RenameKey(ChangeAt(c.old, "none")) = {}
<1>1. PICK x \in Pairs(Expected(S)) : c = Renamed(x[1], x[2])
  BY PairedAre, ExpectedIs
<1>2. PairOf(Expected(S), x)
  BY PairsAre
<1>3. Halves(c) = {x[1], x[2]}
  BY <1>1, PairedHalves
<1>4. x[1] \in Expected(S) /\ x[1].status = "deleted" /\ c.old = x[1].old
  BY <1>1, <1>2, RenamedIs DEF PairOf
<1>5. c.old = Primary(x[1]) /\ x[1] = ChangeAt(c.old, Missing(c.old))
  BY <1>4, ExpectedIs DEF Primary
<1>6. RenameKey(ChangeAt(c.old, "none")) = RenameKey(x[1])
  <2>1. /\ x[1].status = StatusAt(c.old)
        /\ x[1].old = IF Has("left", c.old) THEN c.old ELSE NoPath
        /\ x[1].new = IF Has("right", c.old) THEN c.old ELSE NoPath
    <3> SUFFICES ASSUME NEW q, NEW m, NEW e, e = x[1], e = ChangeAt(q, m), q = c.old
                 PROVE  /\ e.status = StatusAt(q)
                        /\ e.old = IF Has("left", q) THEN q ELSE NoPath
                        /\ e.new = IF Has("right", q) THEN q ELSE NoPath
      BY <1>5
    <3> QED
      BY ChangeIs
  <2> QED
    BY <2>1, ChangeIs, SameKey
<1>7. ASSUME RenameKey(d) \cap RenameKey(x[1]) # {} PROVE FALSE
  <2>1. RenameKey(d) = RenameKey(x[1])
    BY <1>7, OneKey
  <2>2. d \in {x[1], x[2]}
    BY <1>2, <2>1 DEF PairOf
  <2> QED
    BY <1>3, <2>2
<1> QED
  BY <1>6, <1>7

(* Two records are the same exactly when the tree hash folds them alike.     *)
LEMMA SameIsFolded ==
    ASSUME NEW l, NEW r
    PROVE  PresentStatus(l, r) = "same" <=> Folded(l) = Folded(r)
<1>1. Folded(l) = Folded(r) <=> /\ l.skipped = r.skipped /\ l.kind = r.kind /\ l.meta = r.meta
                                /\ l.kind # "dir" => l.content = r.content
  BY DEF Folded
<1>2. PresentStatus(l, r) = "same" <=> l.skipped = r.skipped /\ SameEntry(l, r)
  BY DEF PresentStatus, SameEntry
<1> QED
  BY <1>1, <1>2 DEF SameEntry

LEMMA NothingDiffers ==
    ASSUME ask.filters = {}
    PROVE  Differing = {} <=> TreeHash("left") = TreeHash("right")
<1> DEFINE L == TreeHash("left")  R == TreeHash("right")
<1>1. /\ \A e : e \in L <=> \E p \in DOMAIN state["left"].rec : e = <<p, Folded(Rec("left", p))>>
      /\ \A e : e \in R <=> \E p \in DOMAIN state["right"].rec : e = <<p, Folded(Rec("right", p))>>
  BY DEF TreeHash
<1>2. Differing = {} <=> \A p \in Known : StatusAt(p) = "same"
  BY DEF Differing, Selected
<1>3. \A p \in Known : StatusAt(p) = "same" <=>
          Has("left", p) /\ Has("right", p) /\ Folded(Rec("left", p)) = Folded(Rec("right", p))
  BY SameIsFolded DEF StatusAt
<1>4. \A p : p \in Known <=> Has("left", p) \/ Has("right", p)
  BY DEF Known, Has
<1> HIDE DEF L, R
<1>5. ASSUME \A p \in Known : StatusAt(p) = "same" PROVE L = R
  <2>1. \A e : e \in L <=> e \in R
    BY <1>1, <1>3, <1>4, <1>5 DEF Has
  <2> QED
    BY <2>1
<1>6. ASSUME L = R, NEW p \in Known PROVE StatusAt(p) = "same"
  <2>1. ASSUME Has("left", p) PROVE Has("right", p) /\ Folded(Rec("left", p)) = Folded(Rec("right", p))
    <3>1. <<p, Folded(Rec("left", p))>> \in R
      BY <1>1, <1>6, <2>1 DEF Has
    <3> QED
      BY <1>1, <3>1 DEF Has
  <2>2. ASSUME Has("right", p) PROVE Has("left", p)
    <3>1. <<p, Folded(Rec("right", p))>> \in L
      BY <1>1, <1>6, <2>2 DEF Has
    <3> QED
      BY <1>1, <3>1 DEF Has
  <2> QED
    BY <1>3, <1>4, <2>1, <2>2
<1> QED
  BY <1>2, <1>5, <1>6 DEF L, R

LEMMA HalvesOfSome ==
    ASSUME NEW c
    PROVE  Halves(c) # {}
  BY DEF Halves

LEMMA QuietIs ==
    ASSUME NEW T, NEW q \in Seq(T), UNION {Halves(c) : c \in Elements(q)} = Expected(Differing), ask.filters = {}
    PROVE  q = <<>> <=> TreeHash("left") = TreeHash("right")
<1>1. q = <<>> <=> Elements(q) = {}
  BY LenProperties DEF Elements
<1>2. Elements(q) = {} <=> UNION {Halves(c) : c \in Elements(q)} = {}
  <2>1. ASSUME NEW c \in Elements(q) PROVE UNION {Halves(e) : e \in Elements(q)} # {}
    <3>1. PICK h : h \in Halves(c)
      BY HalvesOfSome
    <3>2. h \in UNION {Halves(e) : e \in Elements(q)}
      BY <3>1
    <3> QED
      BY <3>2
  <2> QED
    BY <2>1
<1>3. Expected(Differing) = {} <=> Differing = {}
  BY DEF Expected
<1> QED
  BY <1>1, <1>2, <1>3, NothingDiffers

LEMMA SameReading ==
    ASSUME SameStates
    PROVE  /\ Expected(Differing)' = Expected(Differing)
           /\ \A c : Halves(c)' = Halves(c) /\ RenameKey(c)' = RenameKey(c) /\ Primary(c)' = Primary(c)
           /\ \A p : ChangeAt(p, "none")' = ChangeAt(p, "none")
           /\ TreeHash("left")' = TreeHash("left") /\ TreeHash("right")' = TreeHash("right")
<1>1. Expected(Differing)' = Expected(Differing) /\ \A p, m : ChangeAt(p, m)' = ChangeAt(p, m)
  <2>1. Differing' = Differing /\ \A S : Expected(S)' = Expected(S)
    BY SameSides
  <2> QED
    BY <2>1, SameSides DEF Expected
<1>2. \A p : Missing(p)' = Missing(p)
  BY SameSides
<1>3. \A c : Halves(c)' = Halves(c)
  BY <1>1, <1>2 DEF Halves
<1>4. state' = state
  BY DEF SameStates
<1>5. \A c : RenameKey(c)' = RenameKey(c) /\ Primary(c)' = Primary(c)
  BY <1>4 DEF RenameKey, Primary, Rec
<1>6. TreeHash("left")' = TreeHash("left") /\ TreeHash("right")' = TreeHash("right")
  BY <1>4 DEF TreeHash, Rec
<1> QED
  BY <1>1, <1>3, <1>5, <1>6

(* The end of a comparison.                                                  *)
LEMMA FinishKeeps ==
    ASSUME MergeInv, Finish
    PROVE  MergeInv'
<1>1. outcome = "merging" /\ outcome' = "complete" /\ SameStates /\ ask' = ask /\ Merging /\ Unread = {} /\ Drawing
  BY DEF MergeInv, Finish, Drawing, SameStates, inputs
<1>2. /\ Whole \in Seq(Expected(Known)) /\ InOrder(Whole) /\ Elements(Whole) = Expected(Differing)
      /\ Differing \in SUBSET Known
  <2>1. Differing \ Unread = Differing
    BY <1>1
  <2> QED
    BY <1>1, <2>1, WholeIs DEF Merging, Reported, Differing
<1> DEFINE Right(seq) ==
      /\ \E T : seq \in Seq(T)
      /\ InOrder(seq)
      /\ UNION {Halves(c) : c \in Elements(seq)} = Expected(Differing)
      /\ \A c, d \in Elements(seq) : c # d => Halves(c) \cap Halves(d) = {}
      /\ \A c \in Elements(seq) : c.status = "renamed" =>
            \A d \in Expected(Differing) \ Halves(c) :
               d.status \in {"added", "deleted"} =>
                   RenameKey(d) \cap RenameKey(ChangeAt(c.old, "none")) = {}
<1>3. ASSUME stage = "buffering" PROVE Right(served')
  <2> DEFINE X == Expected(Differing)
  <2>1. Whole = buffered /\ served' = Sorted(Paired(X))
    <3>1. Whole = buffered
      BY <1>1, <1>3, WholeIs DEF Merging
    <3> QED
      BY <1>2, <1>3, <3>1 DEF Finish
  <2>2. IsFiniteSet(X)
    <3> DEFINE n == Len(Whole)  f == [i \in 1..n |-> Whole[i]]
    <3>1. n \in Nat /\ X = {Whole[i] : i \in 1..n}
      BY <1>2, LenProperties DEF Elements
    <3> HIDE DEF n
    <3>2. f \in Surjection(1..n, X)
      BY <3>1 DEF Surjection
    <3> QED
      BY <3>1, <3>2, FS_Surjection, FS_Interval
  <2>3. IsFiniteSet(Paired(X))
    BY <1>2, <2>2, PairedFinite
  <2>4. \A c \in Paired(X) : Primary(c) \in Paths
    <3>1. \A c \in X : Primary(c) \in Paths
      BY <1>1, <1>2, ExpectedIs, KnownArePaths DEF Merging
    <3>2. \A x \in Pairs(X) : Primary(Renamed(x[1], x[2])) = Primary(x[2]) /\ x[2] \in X
      BY <1>2, PairedHalves
    <3> QED
      BY <3>1, <3>2, PairedAre
  <2>5. \A c, d \in Paired(X) : Primary(c) = Primary(d) => c = d
    BY <1>2, PairedApart
  <2>6. served' \in Seq(Paired(X)) /\ InOrder(served') /\ Elements(served') = Paired(X)
    BY <2>1, <2>3, <2>4, <2>5, SortedIs
  <2>7. UNION {Halves(y) : y \in Paired(X)} = X
    BY <1>2, PairedWhole
  <2>8. \A c, d \in Paired(X) : c # d => Halves(c) \cap Halves(d) = {}
    BY <1>2, PairedApart
  <2>9. \A c \in Paired(X) : c.status = "renamed" =>
          \A d \in X \ Halves(c) : d.status \in {"added", "deleted"} =>
                   RenameKey(d) \cap RenameKey(ChangeAt(c.old, "none")) = {}
    BY <1>2, PairedAlone
  <2> HIDE DEF X
  <2> QED
    BY <2>6, <2>7, <2>8, <2>9 DEF X
<1>4. ASSUME stage # "buffering" PROVE Right(served')
  <2>1. served' = served /\ buffered = <<>> /\ overflow = <<>>
    BY <1>1, <1>4 DEF Finish, report, Drawing, Merging, ReportFits
  <2>2. Whole = served
    BY <1>1, <2>1, WholeIs DEF Merging
  <2>3. \A c \in Expected(Differing) : Halves(c) = {c} /\ c.status # "renamed"
    BY <1>2, HalvesOfOne, ExpectedIs
  <2>4. UNION {Halves(c) : c \in Expected(Differing)} = Expected(Differing)
    BY <2>3
  <2> QED
    BY <1>2, <2>1, <2>2, <2>3, <2>4
<1>5. Right(served')
  BY <1>3, <1>4
<1>6. ask.filters = {} => (served' = <<>> <=> TreeHash("left") = TreeHash("right"))
  <2> SUFFICES ASSUME ask.filters = {}, NEW q, q = served', NEW T, q \in Seq(T)
               PROVE  q = <<>> <=> TreeHash("left") = TreeHash("right")
    BY <1>5
  <2>1. UNION {Halves(c) : c \in Elements(q)} = Expected(Differing)
    BY <1>5
  <2> QED
    BY <2>1, QuietIs
<1>7. Finished'
  <2>1. /\ Expected(Differing)' = Expected(Differing)
        /\ \A c : Halves(c)' = Halves(c) /\ RenameKey(c)' = RenameKey(c) /\ Primary(c)' = Primary(c)
        /\ \A p : ChangeAt(p, "none")' = ChangeAt(p, "none")
        /\ TreeHash("left")' = TreeHash("left") /\ TreeHash("right")' = TreeHash("right")
    BY <1>1, SameReading
  <2> QED
    BY <1>1, <1>5, <1>6, <2>1 DEF Finished, InOrder, Elements
<1> QED
  BY <1>1, <1>7 DEF MergeInv

(* What is held back is passed on in its place.                              *)
LEMMA HeadFirst ==
    ASSUME NEW S, NEW seq \in Seq(S), seq # <<>>
    PROVE  seq = <<seq[1]>> \o Tail(seq) /\ Tail(seq) \in Seq(S) /\ seq[1] \in S
<1>1. /\ Tail(seq) \in Seq(S) /\ Len(Tail(seq)) = Len(seq) - 1 /\ Len(seq) \in Nat /\ Len(seq) # 0
      /\ \A i \in 1..Len(Tail(seq)) : Tail(seq)[i] = seq[i + 1]
  BY HeadTailProperties, LenProperties
<1>2. seq[1] \in S /\ <<seq[1]>> \in Seq(S) /\ Len(<<seq[1]>>) = 1
  BY <1>1, ElementOfSeq
<1> DEFINE w == <<seq[1]>> \o Tail(seq)
<1>3. /\ w \in Seq(S) /\ Len(w) = 1 + Len(Tail(seq))
      /\ \A i \in 1..(1 + Len(Tail(seq))) : w[i] = IF i <= 1 THEN <<seq[1]>>[i] ELSE Tail(seq)[i - 1]
  BY <1>1, <1>2, ConcatProperties
<1> HIDE DEF w
<1>4. ASSUME NEW i \in 1..Len(seq) PROVE w[i] = seq[i]
  <2>1. CASE i = 1
    BY <1>1, <1>3, <2>1
  <2>2. CASE i # 1
    <3>1. i - 1 \in 1..Len(Tail(seq)) /\ i \in 1..(1 + Len(Tail(seq))) /\ ~(i <= 1) /\ (i - 1) + 1 = i
      BY <1>1, <2>2
    <3>2. w[i] = Tail(seq)[i - 1] /\ Tail(seq)[i - 1] = seq[(i - 1) + 1]
      BY <1>1, <1>3, <3>1
    <3> QED
      BY <3>1, <3>2
  <2> QED
    BY <2>1, <2>2
<1>5. Len(w) = Len(seq)
  BY <1>1, <1>3
<1>6. w = seq
  BY <1>3, <1>4, <1>5, SeqEqual
<1> QED
  BY <1>1, <1>2, <1>6 DEF w

SameCursors == UNCHANGED <<rest, tracker>>

LEMMA StillMerging ==
    ASSUME Merging, SameStates, SameCursors, ReportFits', Whole' = Whole
    PROVE  Merging'
<1>1. /\ Known' = Known /\ Differing' = Differing /\ (StatesFit' <=> StatesFit)
      /\ \A S : Expected(S)' = Expected(S)
      /\ \A s \in Sides : Excluded(s)' = Excluded(s) /\ AllBoundaries(s)' = AllBoundaries(s) /\ SkippedOf(s)' = SkippedOf(s)
  BY SameSides
<1>2. state' = state /\ ask' = ask /\ rest' = rest /\ tracker' = tracker
  BY DEF SameStates, SameCursors
<1>3. Unread' = Unread /\ Passed' = Passed
  BY <1>1, <1>2 DEF Unread, Passed
<1>4. CursorsFit'
  BY <1>2, <1>3 DEF Merging, CursorsFit
<1>5. TrackersFit'
  BY <1>1, <1>2, <1>3 DEF Merging, TrackersFit, Holds, StillToRead
<1>6. InOrder(Whole)' /\ Elements(Whole)' = Elements(Whole)
  BY DEF InOrder, Elements, Primary, Merging, Reported
<1>7. Expected(Differing \ Unread)' = Expected(Differing \ Unread)
  <2>1. (Differing \ Unread)' = Differing \ Unread
    BY <1>1, <1>3
  <2> QED
    BY <1>1, <2>1 DEF Expected
<1> QED
  BY <1>1, <1>2, <1>3, <1>4, <1>5, <1>6, <1>7 DEF Merging, Reported

LEMMA ServeBufferedKeeps ==
    ASSUME MergeInv, ServeBuffered
    PROVE  MergeInv'
<1> DEFINE E == Expected(Known)
<1>1. /\ outcome = "merging" /\ outcome' = "merging" /\ SameStates /\ SameCursors /\ Merging
      /\ served' = Append(served, buffered[1]) /\ buffered' = Tail(buffered) /\ overflow' = overflow
      /\ stage = "passing" /\ stage' = stage /\ buffered # <<>>
  BY DEF MergeInv, ServeBuffered, SameStates, SameCursors, inputs
<1>2. served \in Seq(E) /\ buffered \in Seq(E) /\ overflow \in Seq(E) /\ Len(overflow) <= 1
  BY <1>1 DEF Merging, ReportFits
<1>3. Expected(Known)' = E
  BY <1>1, SameSides
<1> HIDE DEF E
<1>4. buffered = <<buffered[1]>> \o Tail(buffered) /\ Tail(buffered) \in Seq(E) /\ buffered[1] \in E
  BY <1>1, <1>2, HeadFirst
<1>5. served' \in Seq(E) /\ served' = served \o <<buffered[1]>> /\ <<buffered[1]>> \in Seq(E)
  BY <1>1, <1>2, <1>4, AppendProperties, AppendIsConcat
<1>6. served' \o buffered' = served \o buffered
  BY <1>1, <1>2, <1>4, <1>5, ConcatAssociative
<1>7. Whole' = Whole
  BY <1>1, <1>6 DEF Whole
<1>8. ReportFits'
  BY <1>1, <1>2, <1>3, <1>4, <1>5 DEF ReportFits
<1> QED
  BY <1>1, <1>7, <1>8, StillMerging DEF MergeInv

LEMMA ServeOverflowKeeps ==
    ASSUME MergeInv, ServeOverflow
    PROVE  MergeInv'
<1> DEFINE E == Expected(Known)
<1>1. /\ outcome = "merging" /\ outcome' = "merging" /\ SameStates /\ SameCursors /\ Merging
      /\ served' = Append(served, overflow[1]) /\ overflow' = <<>> /\ buffered' = buffered /\ buffered = <<>>
      /\ stage = "passing" /\ stage' = stage /\ overflow # <<>>
  BY DEF MergeInv, ServeOverflow, SameStates, SameCursors, inputs
<1>2. served \in Seq(E) /\ buffered \in Seq(E) /\ overflow \in Seq(E) /\ Len(overflow) <= 1
  BY <1>1 DEF Merging, ReportFits
<1>3. Expected(Known)' = E
  BY <1>1, SameSides
<1> HIDE DEF E
<1>4. overflow = <<overflow[1]>> \o Tail(overflow) /\ Tail(overflow) \in Seq(E) /\ overflow[1] \in E
  BY <1>1, <1>2, HeadFirst
<1>5. Tail(overflow) = <<>>
  BY <1>1, <1>2, <1>4, HeadTailProperties, LenProperties
<1>6. overflow = <<overflow[1]>> /\ <<overflow[1]>> \in Seq(E)
  BY <1>4, <1>5, ConcatEmptySeq
<1>7. served' \in Seq(E) /\ served' = served \o <<overflow[1]>>
  BY <1>1, <1>2, <1>4, AppendProperties, AppendIsConcat
<1>8. Whole = served \o overflow /\ Whole' = served'
  BY <1>1, <1>2, <1>7, ConcatEmptySeq DEF Whole
<1>9. Whole' = Whole
  BY <1>6, <1>7, <1>8
<1>10. ReportFits'
  BY <1>1, <1>2, <1>3, <1>7 DEF ReportFits
<1> QED
  BY <1>1, <1>9, <1>10, StillMerging DEF MergeInv

LEMMA OpenKeeps ==
    ASSUME MergeInv, NEW l, NEW r, NEW a \in Asks, StateFits(l), StateFits(r), Open(l, r, a)
    PROVE  MergeInv'
<1>1. /\ outcome = "idle" /\ outcome' = "merging" /\ state'["left"] = l /\ state'["right"] = r /\ ask' = a
      /\ rest'["left"] = DOMAIN l.rec /\ rest'["right"] = DOMAIN r.rec
      /\ stage' \in {"buffering", "off"}
      /\ served' = <<>> /\ buffered' = <<>> /\ overflow' = <<>>
      /\ tracker' = [s \in Sides |-> NewTracker]
      /\ a.mode = "relate" => a.filters = {}
  BY DEF MergeInv, Open, Sides
<1>2. StatesFit'
  BY <1>1 DEF StatesFit
<1>3. Unread' = Known' /\ Passed' = {}
  BY <1>1 DEF Unread, Known, Passed
<1>4. CursorsFit'
  BY <1>1, <1>3 DEF CursorsFit, Known
<1>5. \A s \in Sides : tracker'[s].last = NoPath /\ tracker'[s].open = {}
  BY <1>1 DEF NewTracker
<1>6. ASSUME NEW s \in Sides, NEW b \in AllBoundaries(s)' PROVE StillToRead(s, NoPath, b)'
  <2>1. b \in Excluded(s)' \/ b \in SkippedOf(s)'
    BY DEF AllBoundaries, SkippedOf
  <2>2. ASSUME b \in SkippedOf(s)' PROVE b.path \in Unread'
    <3>1. PICK p \in DOMAIN state'[s].rec : b = SkippedBoundary(p, Rec(s, p)'.kind)
      BY <2>2 DEF SkippedOf
    <3>2. b.path = p
      BY <3>1, SkippedPath
    <3>3. p \in Known'
      BY <3>1 DEF Known, Sides
    <3> QED
      BY <1>3, <3>2, <3>3
  <2> QED
    BY <2>1, <2>2 DEF StillToRead
<1>7. TrackersFit'
  <2> SUFFICES ASSUME NEW s \in Sides
               PROVE  (Holds(s, tracker[s]) /\ (tracker[s].last \in Paths => tracker[s].last \in Passed))'
    BY DEF TrackersFit
  <2>1. tracker'[s].last = NoPath /\ tracker'[s].open = {} /\ NoPath \notin Paths
    BY <1>5, BeforeIsOrder
  <2>2. Holds(s, tracker[s])'
    BY <1>6, <2>1 DEF Holds
  <2> QED
    BY <2>1, <2>2
<1>8. ReportFits'
  BY <1>1 DEF ReportFits
<1>9. Reported'
  <2>1. Whole' = <<>>
    BY <1>1, ConcatEmptySeq DEF Whole
  <2>2. InOrder(Whole)' /\ Elements(Whole)' = {}
    BY <2>1 DEF InOrder, Elements
  <2>3. Differing' \ Unread' = {}
    BY <1>3 DEF Differing
  <2>4. Expected(Differing \ Unread)' = {}
    BY <2>3 DEF Expected
  <2> QED
    BY <2>2, <2>4 DEF Reported
<1> QED
  BY <1>1, <1>2, <1>3, <1>4, <1>7, <1>8, <1>9 DEF MergeInv, Merging

LEMMA ComparisonRests ==
    ASSUME MergeInv, UNCHANGED comparison
    PROVE  MergeInv'
<1>1. /\ SameStates /\ SameCursors /\ ask' = ask /\ tracker' = tracker
      /\ served' = served /\ buffered' = buffered /\ overflow' = overflow
      /\ stage' = stage /\ outcome' = outcome
  BY DEF comparison, inputs, report, SameStates, SameCursors
<1>2. CASE outcome = "merging"
  <2>1. Merging
    BY <1>2 DEF MergeInv
  <2>2. ReportFits' /\ Reported'
    BY <1>1, <2>1, NothingReported, SameSides DEF Merging, Unread, SameCursors, report
  <2>3. Whole' = Whole
    BY <1>1 DEF Whole
  <2> QED
    BY <1>1, <1>2, <2>1, <2>2, <2>3, StillMerging DEF MergeInv
<1>3. CASE outcome = "complete"
  BY <1>1, <1>3, SameReading DEF MergeInv, Finished, InOrder, Elements
<1>4. CASE outcome \notin {"merging", "complete"}
  BY <1>1, <1>4 DEF MergeInv
<1> QED
  BY <1>2, <1>3, <1>4

LEMMA CompareKeeps == ASSUME MergeInv, Compare PROVE MergeInv'
<1>1. CASE \E p \in Unread : ReadPair(p)
  BY <1>1, ReadPairKeeps
<1>2. CASE \E p \in Unread, s \in Sides : ReadOneSided(s, p)
  BY <1>2, ReadOneSidedKeeps
<1>3. CASE \E p \in Unread, s \in Sides : Relates(s, p)
  BY <1>3, RelatesKeeps
<1>4. CASE Fail
  BY <1>4 DEF Fail, MergeInv
<1> QED
  BY <1>1, <1>2, <1>3, <1>4, ServeBufferedKeeps, ServeOverflowKeeps, FinishKeeps DEF Compare, Merge

(* What is compared are states of the shape the model gives them. *)
LEMMA ShapeFits ==
    ASSUME NEW x, StateShape(x)
    PROVE  StateFits(x)
  BY DEF StateShape, StateFits

LEMMA PresentFits == ASSUME Bounded PROVE StateFits(Present)
<1>1. /\ DOMAIN Present.rec = DOMAIN manifest /\ Present.excluded = frontier
      /\ Present.coverage = "recorded"
  BY Zenon DEF Present
<1> QED
  BY <1>1 DEF Bounded, StateFits

LEMMA ComparisonKeeps == ASSUME MergeInv, [ObservationNext]_<<comparison, scan>> PROVE MergeInv'
<1>1. CASE UNCHANGED comparison
  BY <1>1, ComparisonRests
<1>2. CASE CompareStored
  <2>1. PICK l \in States, r \in States, a \in Asks : Open(l, r, a)
    BY <1>2 DEF CompareStored
  <2> QED
    BY <2>1, ComparisonAssumption, ShapeFits, OpenKeeps
<1>3. CASE ComparePresent
  <2>1. PICK l \in Stored, a \in Asks : Open(l, Present, a)
    BY <1>3 DEF ComparePresent
  <2>2. Bounded
    BY <1>3 DEF ComparePresent
  <2> QED
    BY <2>1, <2>2, ObservationAssumption, ShapeFits, PresentFits, OpenKeeps
<1>4. CASE CompareStep
  BY <1>4, CompareKeeps DEF CompareStep
<1>5. CASE UNCHANGED <<comparison, scan>>
  BY <1>1, <1>5
<1>6. CASE ScanStep
  BY <1>1, <1>6 DEF ScanStep
<1> QED
  BY <1>2, <1>3, <1>4, <1>5, <1>6 DEF ObservationNext

LEMMA ComparisonStarts == ASSUME ObservationInit PROVE MergeInv
  BY DEF ObservationInit, Init, MergeInv

(* A complete report is the difference of the two states, each differing     *)
(* path once and in order, renames standing for pairs nothing else could be  *)
(* in; every part of it on the way is right already; a tracker that forgets  *)
(* what it has passed says what the whole evidence says; and an unselected   *)
(* comparison is quiet exactly when the tree hashes agree: for any order of  *)
(* paths, any states, limits and filters, and any scan.                      *)
THEOREM ReportsAreRight == ObservationSpec => []ReportIsTheDifference
<1>1. ObservationInit => MergeInv
  BY ComparisonStarts
<1>2. MergeInv /\ [ObservationNext]_<<comparison, scan>> => MergeInv'
  BY ComparisonKeeps
<1>3. MergeInv => ReportIsTheDifference
  BY MergeIsTrue
<1> QED
  BY <1>1, <1>2, <1>3, PTL DEF ObservationSpec

-----------------------------------------------------------------------------
(* What an absence proves.  Through real directories everything that stays   *)
(* where it is has been met, or still will be.                               *)
Covered(v) ==
    \/ v \in DOMAIN manifest
    \/ \E b \in DOMAIN frontier : b = v \/ (frontier[b] = "subtree" /\ Walk!Strictly(b, v))

(* The frame has not passed the way to v: it is to be listed, or lists it.   *)
Awaits(f, v) ==
    /\ Walk!Strictly(f.virt, v)
    /\ \/ f.step # "entries"
       \/ \E k \in 1..Len(f.left) : f.left[k].name = v[Len(f.virt) + 1]

Awaited(fs, v) == \E i \in 1..Len(fs) : Awaits(fs[i], v)

Pending(v) == Awaited(frames, v) \/ (visit.step = "open" /\ visit.virt = v)

(* A real directory, and what it lists on the way to something that stays    *)
(* was one, too.                                                             *)
Straight(f, stays) ==
    /\ ~f.followed /\ f.real = Walk!Abs(f.virt)
    /\ f.step = "entries" =>
          \A k \in 1..Len(f.left), v \in stays :
              Walk!Strictly(Append(f.virt, f.left[k].name), v) => f.left[k].kind = "dir"

AllStraight(fs, stays) == \A i \in 1..Len(fs) : Straight(fs[i], stays)

Plain(v) == v.step = "none" \/ (v.step = "open" /\ ~v.followed)

OnWay ==
    /\ steady \subseteq Walk!Below(tree, FALSE)
    /\ AllStraight(frames, steady) /\ Plain(visit)

AbsentInv ==
    /\ progress = "done" => frames = <<>> /\ visit.step = "none"
    /\ ~scope.follow /\ progress \in {"walking", "done"} => \A v \in steady : Covered(v) \/ Pending(v)
    /\ ~scope.follow /\ Walk!Walking => OnWay

LEMMA AbsIs ==
    ASSUME NEW v \in Path
    PROVE  /\ Walk!Abs(v) \in Path /\ Len(Walk!Abs(v)) = Len(v) + 1 /\ Len(v) \in Nat
           /\ Walk!Abs(v)[1] = Walk!Root[1]
           /\ \A k \in 1..Len(v) : Walk!Abs(v)[k + 1] = v[k]
<1>1. Walk!Root \in Path /\ Len(Walk!Root) = 1 /\ Len(v) \in Nat
  BY RootIs DEF Path
<1> HIDE DEF Walk!Root
<1>2. /\ Walk!Root \o v \in Path /\ Len(Walk!Root \o v) = 1 + Len(v)
      /\ \A k \in 1..(1 + Len(v)) : (Walk!Root \o v)[k] = IF k <= 1 THEN Walk!Root[k] ELSE v[k - 1]
  BY <1>1, ConcatProperties DEF Path
<1>3. Walk!Abs(v) = Walk!Root \o v
  BY DEF Walk!Abs
<1>4. (Walk!Root \o v)[1] = Walk!Root[1]
  BY <1>1, <1>2
<1>5. ASSUME NEW k \in 1..Len(v) PROVE (Walk!Root \o v)[k + 1] = v[k]
  <2>1. k + 1 \in 1..(1 + Len(v)) /\ ~(k + 1 <= 1) /\ (k + 1) - 1 = k
    BY <1>1
  <2> QED
    BY <1>2, <2>1
<1> QED
  BY <1>1, <1>2, <1>3, <1>4, <1>5

LEMMA AbsPrefix ==
    ASSUME NEW u \in Path, NEW v \in Path, Walk!IsPrefix(u, v)
    PROVE  Walk!IsPrefix(Walk!Abs(u), Walk!Abs(v))
<1>1. Len(u) <= Len(v) /\ \A k \in 1..Len(u) : u[k] = v[k]
  BY PrefixIs
<1> DEFINE x == Walk!Abs(u)  y == Walk!Abs(v)
<1>2. /\ x \in Path /\ Len(x) = Len(u) + 1 /\ Len(u) \in Nat /\ x[1] = Walk!Root[1]
      /\ \A k \in 1..Len(u) : x[k + 1] = u[k]
  BY AbsIs
<1>3. /\ y \in Path /\ Len(y) = Len(v) + 1 /\ Len(v) \in Nat /\ y[1] = Walk!Root[1]
      /\ \A k \in 1..Len(v) : y[k + 1] = v[k]
  BY AbsIs
<1> HIDE DEF x, y, Walk!Root
<1>4. ASSUME NEW k \in 1..Len(x) PROVE x[k] = y[k]
  <2>1. CASE k = 1
    BY <1>2, <1>3, <2>1
  <2>2. CASE k # 1
    <3>1. k - 1 \in 1..Len(u) /\ k - 1 \in 1..Len(v) /\ (k - 1) + 1 = k
      BY <1>1, <1>2, <1>3, <2>2
    <3>2. x[(k - 1) + 1] = u[k - 1] /\ y[(k - 1) + 1] = v[k - 1] /\ u[k - 1] = v[k - 1]
      BY <1>1, <1>2, <1>3, <3>1
    <3> QED
      BY <3>1, <3>2
  <2> QED
    BY <2>1, <2>2
<1>5. Len(x) <= Len(y)
  BY <1>1, <1>2, <1>3
<1>6. Walk!IsPrefix(x, y)
  BY <1>2, <1>3, <1>4, <1>5, PrefixIs
<1> QED
  BY <1>6 DEF x, y

LEMMA AbsAppends ==
    ASSUME NEW u \in Path, NEW n \in Names
    PROVE  Append(Walk!Abs(u), n) = Walk!Abs(Append(u, n))
<1> DEFINE w == Append(u, n)  x == Walk!Abs(u)
<1>1. /\ w \in Path /\ Len(w) = Len(u) + 1 /\ \A k \in 1..Len(u) : w[k] = u[k]
      /\ w[Len(u) + 1] = n
  BY AppendProperties DEF Path
<1>2. /\ x \in Path /\ Len(x) = Len(u) + 1 /\ Len(u) \in Nat /\ x[1] = Walk!Root[1]
      /\ \A k \in 1..Len(u) : x[k + 1] = u[k]
  BY AbsIs
<1> HIDE DEF w, x, Walk!Root
<1>3. /\ Walk!Abs(w) \in Path /\ Len(Walk!Abs(w)) = Len(w) + 1
      /\ Walk!Abs(w)[1] = Walk!Root[1] /\ \A k \in 1..Len(w) : Walk!Abs(w)[k + 1] = w[k]
  BY <1>1, AbsIs
<1> DEFINE y == Append(x, n)  z == Walk!Abs(w)
<1>4. /\ y \in Path /\ Len(y) = Len(x) + 1 /\ \A k \in 1..Len(x) : y[k] = x[k]
      /\ y[Len(x) + 1] = n
  BY <1>2, AppendProperties DEF Path
<1> HIDE DEF y, z
<1>5. ASSUME NEW k \in 1..Len(y) PROVE y[k] = z[k]
  <2>1. CASE k = 1
    BY <1>2, <1>3, <1>4, <2>1 DEF z
  <2>2. CASE k \in 2..Len(x)
    <3>1. k - 1 \in 1..Len(u) /\ k - 1 \in 1..Len(w) /\ (k - 1) + 1 = k /\ k \in 1..Len(x)
      BY <1>1, <1>2, <2>2
    <3>2. x[(k - 1) + 1] = u[k - 1] /\ z[(k - 1) + 1] = w[k - 1] /\ w[k - 1] = u[k - 1]
      BY <1>1, <1>2, <1>3, <3>1 DEF z
    <3> QED
      BY <1>4, <3>1, <3>2
  <2>3. CASE k = Len(x) + 1
    <3>1. Len(w) \in 1..Len(w) /\ Len(w) = Len(x)
      BY <1>1, <1>2
    <3>2. z[Len(w) + 1] = w[Len(w)] /\ w[Len(w)] = n
      BY <1>1, <1>3, <3>1 DEF z
    <3> QED
      BY <1>4, <2>3, <3>1, <3>2
  <2> QED
    BY <1>2, <1>4, <2>1, <2>2, <2>3
<1>6. Len(y) = Len(z)
  BY <1>1, <1>2, <1>3, <1>4 DEF z
<1>7. y = z
  BY <1>3, <1>4, <1>5, <1>6, SeqEqual DEF z, Path
<1> QED
  BY <1>7 DEF w, x, y, z

LEMMA StrictlyIs ==
    ASSUME NEW u \in Path, NEW v \in Path
    PROVE  Walk!Strictly(u, v) <=> Len(u) < Len(v) /\ \A k \in 1..Len(u) : u[k] = v[k]
<1>1. Len(u) \in Nat /\ Len(v) \in Nat
  BY DEF Path
<1>2. Walk!IsPrefix(u, v) <=> Len(u) <= Len(v) /\ \A k \in 1..Len(u) : u[k] = v[k]
  BY PrefixIs
<1>3. (\A k \in 1..Len(u) : u[k] = v[k]) /\ Len(u) = Len(v) => u = v
  BY SeqEqual DEF Path
<1> QED
  BY <1>1, <1>2, <1>3 DEF Walk!Strictly

(* The next name on the way to v. *)
LEMMA NextOnWay ==
    ASSUME NEW u \in Path, NEW v \in Path, Walk!Strictly(u, v)
    PROVE  /\ v[Len(u) + 1] \in Names /\ Len(u) + 1 \in 1..Len(v)
           /\ v = Append(u, v[Len(u) + 1]) \/ Walk!Strictly(Append(u, v[Len(u) + 1]), v)
<1>1. Len(u) \in Nat /\ Len(v) \in Nat /\ Len(u) < Len(v) /\ \A k \in 1..Len(u) : u[k] = v[k]
  BY StrictlyIs DEF Path
<1> DEFINE n == v[Len(u) + 1]
<1>2. n \in Names /\ Len(u) + 1 \in 1..Len(v)
  BY <1>1, ElementOfSeq DEF Path
<1> HIDE DEF n
<1> DEFINE w == Append(u, n)
<1>3. /\ w \in Path /\ Len(w) = Len(u) + 1 /\ \A k \in 1..Len(u) : w[k] = u[k]
      /\ w[Len(u) + 1] = n
  BY <1>2, AppendProperties DEF Path
<1> HIDE DEF w
<1>4. ASSUME NEW k \in 1..Len(w) PROVE w[k] = v[k]
  <2>1. CASE k \in 1..Len(u)
    BY <1>1, <1>3, <2>1
  <2>2. CASE k = Len(u) + 1
    BY <1>3, <2>2 DEF n
  <2> QED
    BY <1>1, <1>3, <2>1, <2>2
<1>5. CASE Len(w) = Len(v)
  <2>1. w = v
    BY <1>3, <1>4, <1>5, SeqEqual DEF Path
  <2> QED
    BY <1>2, <2>1 DEF w, n
<1>6. CASE Len(w) # Len(v)
  <2>1. Len(w) < Len(v)
    BY <1>1, <1>3, <1>6
  <2>2. Walk!Strictly(w, v)
    BY <1>3, <1>4, <2>1, StrictlyIs
  <2> QED
    BY <1>2, <2>2 DEF w, n
<1> QED
  BY <1>5, <1>6

(* What leads to something that is there are directories.                    *)
LEMMA WayIsThere ==
    ASSUME NEW t, Walk!WellFormed(t), NEW v \in Path, Walk!Abs(v) \in DOMAIN t,
           NEW u \in Path, Walk!Strictly(u, v)
    PROVE  Walk!Abs(u) \in DOMAIN t /\ t[Walk!Abs(u)].kind = "dir"
<1>1. /\ Walk!Abs(u) \in Path /\ Len(Walk!Abs(u)) = Len(u) + 1 /\ Len(u) \in Nat
      /\ Walk!Abs(v) \in Path /\ Len(Walk!Abs(v)) = Len(v) + 1 /\ Len(v) \in Nat
  BY AbsIs
<1>2. Len(u) < Len(v)
  BY StrictlyIs
<1>3. SubSeq(Walk!Abs(v), 1, Len(u) + 1) = Walk!Abs(u)
  <2>1. Walk!IsPrefix(Walk!Abs(u), Walk!Abs(v))
    BY AbsPrefix DEF Walk!Strictly
  <2> QED
    BY <1>1, <2>1, PrefixIsPart
<1>4. Len(u) + 1 \in 1..(Len(Walk!Abs(v)) - 1)
  BY <1>1, <1>2
<1> QED
  BY <1>3, <1>4, PartsAreDirs

(* What a scan without links finds at a virtual path.                        *)
LEMMA BelowIs ==
    ASSUME NEW t, NEW v \in Walk!Below(t, FALSE)
    PROVE  /\ v \in Path /\ v # <<>> /\ Walk!Abs(v) \in DOMAIN t
           /\ \A k \in 1..Len(v) : v[k] \in Walk!Range(Order)
<1>1. v \in Walk!Virtual /\ Walk!Exists(t, FALSE, v)
  BY DEF Walk!Below
<1>2. PICK n \in 1..3 : v \in [1..n -> Walk!Range(Order)]
  BY <1>1 DEF Walk!Virtual
<1>3. Walk!Range(Order) \subseteq Names
  <2>1. Order \in Seq(Strings)
    BY ObservationAssumption, Zenon DEF Strings
  <2> QED
    BY <2>1, ElementOfSeq, LenProperties DEF Walk!Range, Names
<1>4. v \in Seq(Walk!Range(Order)) /\ v \in [1..Len(v) -> Walk!Range(Order)]
  BY <1>2, SeqDef, LenProperties
<1>5. v \in Path
  BY <1>3, <1>4, SeqGrows DEF Path
<1>6. v # <<>>
  BY <1>2, <1>4, EmptySeq
<1> QED
  BY <1>1, <1>4, <1>5, <1>6 DEF Walk!Exists

-----------------------------------------------------------------------------
(* The frames while nothing is edited.                                       *)
LEMMA StayingIs ==
    ASSUME IInv, AbsentInv, Walk!Walking, ~scope.follow, NEW v \in steady
    PROVE  /\ v \in Path /\ Walk!Abs(v) \in DOMAIN tree /\ Walk!WellFormed(tree)
           /\ \A k \in 1..Len(v) : v[k] \in Walk!Range(Order)
           /\ Covered(v) \/ Pending(v)
<1>1. Walk!WellFormed(tree)
  BY DEF IInv, WalkOk, World
<1>2. v \in Walk!Below(tree, FALSE)
  BY DEF AbsentInv, OnWay
<1>3. Covered(v) \/ Pending(v)
  BY DEF AbsentInv, Walk!Walking
<1> QED
  BY <1>1, <1>2, <1>3, BelowIs

LEMMA FramesAre ==
    ASSUME IInv, Walk!Walking, frames # <<>>
    PROVE  /\ Len(frames) \in Nat \ {0} /\ Walk!Top = frames[Len(frames)]
           /\ \A i \in 1..Len(frames) : frames[i].virt \in Path
           /\ \E S : frames \in Seq(S)
<1>1. Nested(frames, tree, edits, scope.escape)
  BY DEF IInv, WalkOk
<1>2. \A i \in 1..Len(frames) : frames[i].virt \in Path
  BY <1>1 DEF Nested, FrameOk
<1> QED
  BY <1>1, <1>2, LastLeads DEF Nested, Walk!Top

(* Another top. *)
LEMMA TopReplaced ==
    ASSUME IInv, Walk!Walking, frames # <<>>, NEW g
    PROVE  /\ Len(Walk!WithTop(g)) = Len(frames) /\ Walk!WithTop(g)[Len(frames)] = g
           /\ \A i \in 1..Len(frames) : i # Len(frames) => Walk!WithTop(g)[i] = frames[i]
           /\ \E S : Walk!WithTop(g) \in Seq(S)
<1>1. PICK S : frames \in Seq(S)
  BY FramesAre
<1>2. Len(frames) \in Nat \ {0} /\ DOMAIN frames = 1..Len(frames)
  BY <1>1, EmptySeq, LenProperties
<1>3. Walk!WithTop(g) \in Seq(S \cup {g}) /\ Len(Walk!WithTop(g)) = Len(frames)
  <2>1. frames \in Seq(S \cup {g})
    BY <1>1, SeqGrows
  <2> QED
    BY <1>2, <2>1, ExceptSeq DEF Walk!WithTop
<1>4. [frames EXCEPT ![Len(frames)] = g][Len(frames)] = g
  BY <1>2
<1>5. \A i \in 1..Len(frames) : i # Len(frames) => [frames EXCEPT ![Len(frames)] = g][i] = frames[i]
  BY <1>2
<1> QED
  BY <1>3, <1>4, <1>5 DEF Walk!WithTop

LEMMA TopStraight ==
    ASSUME IInv, Walk!Walking, frames # <<>>, AllStraight(frames, steady), NEW g, Straight(g, steady)
    PROVE  AllStraight(Walk!WithTop(g), steady)
BY TopReplaced DEF AllStraight

LEMMA TopAwaits ==
    ASSUME IInv, Walk!Walking, frames # <<>>, NEW g, NEW v, Awaits(Walk!Top, v) => Awaits(g, v),
           Awaited(frames, v)
    PROVE  Awaited(Walk!WithTop(g), v)
<1>1. Len(frames) \in Nat \ {0} /\ Walk!Top = frames[Len(frames)]
  BY FramesAre
<1>2. /\ Len(Walk!WithTop(g)) = Len(frames) /\ Walk!WithTop(g)[Len(frames)] = g
      /\ \A i \in 1..Len(frames) : i # Len(frames) => Walk!WithTop(g)[i] = frames[i]
  BY TopReplaced
<1>3. PICK i \in 1..Len(frames) : Awaits(frames[i], v)
  BY DEF Awaited
<1>4. CASE i = Len(frames)
  BY <1>1, <1>2, <1>3, <1>4 DEF Awaited
<1>5. CASE i # Len(frames)
  BY <1>1, <1>2, <1>3, <1>5 DEF Awaited
<1> QED
  BY <1>4, <1>5

(* Only the top passes something by. *)
LEMMA OthersAwait ==
    ASSUME IInv, Walk!Walking, frames # <<>>, NEW g, NEW v, Awaited(frames, v)
    PROVE  Awaits(Walk!Top, v) \/ Awaited(Walk!WithTop(g), v)
BY TopAwaits

LEMMA SameAwaits ==
    ASSUME NEW f, NEW g, NEW v, g.virt = f.virt, f.step # "entries", g.step # "entries"
    PROVE  Awaits(f, v) => Awaits(g, v)
BY DEF Awaits

LEMMA OneMoreFrame ==
    ASSUME NEW fs, NEW S, fs \in Seq(S), NEW g
    PROVE  /\ \A v : Awaited(Append(fs, g), v) <=> Awaited(fs, v) \/ Awaits(g, v)
           /\ \A stays : AllStraight(Append(fs, g), stays) <=> AllStraight(fs, stays) /\ Straight(g, stays)
<1> DEFINE T == S \cup {g}
<1>1. fs \in Seq(T) /\ g \in T
  BY SeqGrows
<1> HIDE DEF T
<1>2. /\ Len(Append(fs, g)) = Len(fs) + 1 /\ Append(fs, g)[Len(fs) + 1] = g /\ Len(fs) \in Nat
      /\ \A i \in 1..Len(fs) : Append(fs, g)[i] = fs[i]
  BY <1>1, AppendProperties
<1>3. 1..Len(Append(fs, g)) = 1..Len(fs) \cup {Len(fs) + 1}
  BY <1>2
<1> HIDE DEF Awaited
<1>4. ASSUME NEW v PROVE Awaited(Append(fs, g), v) <=> Awaited(fs, v) \/ Awaits(g, v)
  BY <1>2, <1>3, Zenon DEF Awaited
<1>5. ASSUME NEW stays
      PROVE AllStraight(Append(fs, g), stays) <=> AllStraight(fs, stays) /\ Straight(g, stays)
  BY <1>2, <1>3, Zenon DEF AllStraight
<1> QED
  BY <1>4, <1>5

(* An entry is passed by.                                                    *)
LEMMA PassedBy ==
    ASSUME IInv, Walk!AtEntry
    PROVE  /\ Walk!Passed.step = Walk!Top.step /\ Walk!Passed.virt = Walk!Top.virt
           /\ Walk!Passed.real = Walk!Top.real /\ Walk!Passed.followed = Walk!Top.followed
           /\ Walk!Top.step = "entries" /\ 1 \in 1..Len(Walk!Top.left)
           /\ \A k \in 1..Len(Walk!Passed.left) :
                 k + 1 \in 1..Len(Walk!Top.left) /\ Walk!Passed.left[k] = Walk!Top.left[k + 1]
           /\ \A k \in 1..Len(Walk!Top.left) :
                 k # 1 => k - 1 \in 1..Len(Walk!Passed.left) /\ Walk!Passed.left[k - 1] = Walk!Top.left[k]
<1> DEFINE f == Walk!Top  g == [f EXCEPT !.left = Tail(f.left)]
<1>1. FrameOk(f, tree, edits, scope.escape) /\ f.left # <<>> /\ f.step = "entries"
  BY EntryIs DEF Walk!AtEntry
<1>2. Walk!Passed = g
  BY DEF Walk!Passed
<1> HIDE DEF f
<1>3. PICK S : f.left \in Seq(S)
  BY <1>1 DEF FrameOk
<1> DEFINE tail == Tail(f.left)
<1>4. /\ Len(f.left) \in Nat \ {0} /\ Len(tail) = Len(f.left) - 1
      /\ \A k \in 1..(Len(f.left) - 1) : tail[k] = f.left[k + 1]
  BY <1>1, <1>3, Rest
<1>5. g = [real |-> f.real, virt |-> f.virt, depth |-> f.depth, chain |-> f.chain,
           source |-> f.source, hops |-> f.hops, followed |-> f.followed, step |-> f.step,
           left |-> tail]
  BY <1>1, Relisted
<1> HIDE DEF tail
<1>6. g.real = f.real /\ g.virt = f.virt /\ g.followed = f.followed /\ g.step = f.step /\ g.left = tail
  BY <1>5
<1> HIDE DEF g
<1>7. ASSUME NEW k \in 1..Len(tail) PROVE k + 1 \in 1..Len(f.left) /\ tail[k] = f.left[k + 1]
  BY <1>4
<1>8. ASSUME NEW k \in 1..Len(f.left), k # 1 PROVE k - 1 \in 1..Len(tail) /\ tail[k - 1] = f.left[k]
  <2>1. k - 1 \in 1..(Len(f.left) - 1) /\ (k - 1) + 1 = k
    BY <1>4, <1>8
  <2> QED
    BY <1>4, <2>1
<1>9. 1 \in 1..Len(f.left)
  BY <1>4
<1> HIDE DEF tail
<1>10. /\ \A k \in 1..Len(g.left) : k + 1 \in 1..Len(f.left) /\ g.left[k] = f.left[k + 1]
       /\ \A k \in 1..Len(f.left) : k # 1 => k - 1 \in 1..Len(g.left) /\ g.left[k - 1] = f.left[k]
  BY <1>6, <1>7, <1>8
<1> QED
  BY <1>1, <1>2, <1>6, <1>9, <1>10 DEF f

(* Whatever the top still lists is listed in the top that passed the entry,  *)
(* or begins with the entry.                                                 *)
LEMMA EntryOrRest ==
    ASSUME IInv, Walk!AtEntry, NEW v \in Path, Awaited(frames, v)
    PROVE  v = Walk!Here \/ Walk!Strictly(Walk!Here, v) \/ Awaited(Walk!WithTop(Walk!Passed), v)
<1>1. Walk!Walking /\ frames # <<>> /\ Walk!Top.virt \in Path
  BY EntryIs DEF FrameOk
<1>2. CASE ~Awaits(Walk!Top, v)
  BY <1>1, <1>2, OthersAwait
<1>3. CASE Awaits(Walk!Top, v)
  <2>1. Walk!Strictly(Walk!Top.virt, v)
    BY <1>3 DEF Awaits
  <2>2. PICK k \in 1..Len(Walk!Top.left) : Walk!Top.left[k].name = v[Len(Walk!Top.virt) + 1]
    BY <1>3, PassedBy DEF Awaits
  <2>3. CASE k = 1
    <3>1. Walk!Here = Append(Walk!Top.virt, v[Len(Walk!Top.virt) + 1])
      BY <2>2, <2>3 DEF Walk!Here, Walk!Entry
    <3> QED
      BY <1>1, <2>1, <3>1, NextOnWay
  <2>4. CASE k # 1
    <3>1. k - 1 \in 1..Len(Walk!Passed.left) /\ Walk!Passed.left[k - 1] = Walk!Top.left[k]
          /\ Walk!Passed.virt = Walk!Top.virt
      BY <2>4, PassedBy
    <3>2. Awaits(Walk!Passed, v)
      BY <2>1, <2>2, <3>1 DEF Awaits
    <3> QED
      BY <1>1, <3>2, TopAwaits
  <2> QED
    BY <2>3, <2>4
<1> QED
  BY <1>2, <1>3

LEMMA PassedStraight ==
    ASSUME IInv, Walk!AtEntry, AllStraight(frames, steady)
    PROVE  /\ Straight(Walk!Top, steady) /\ AllStraight(Walk!WithTop(Walk!Passed), steady)
           /\ \A v \in steady : Walk!Strictly(Walk!Here, v) => Walk!Entry.kind = "dir"
<1>1. Walk!Walking /\ frames # <<>>
  BY EntryIs
<1>2. Straight(Walk!Top, steady)
  BY <1>1, FramesAre DEF AllStraight
<1>3. Straight(Walk!Passed, steady)
  BY <1>2, PassedBy DEF Straight
<1>4. ASSUME NEW v \in steady, Walk!Strictly(Walk!Here, v) PROVE Walk!Entry.kind = "dir"
  BY <1>2, <1>4, PassedBy DEF Straight, Walk!Here, Walk!Entry
<1> QED
  BY <1>1, <1>2, <1>3, <1>4, TopStraight

-----------------------------------------------------------------------------
(* One step.                                                                 *)
LEMMA StillCovered ==
    ASSUME UNCHANGED <<manifest, frontier>>, NEW v, Covered(v)
    PROVE  Covered(v)'
BY DEF Covered

LEMMA RecordedCovers ==
    ASSUME NEW w, NEW r, Walk!Recorded(w, r), NEW v, Covered(v) \/ v = w
    PROVE  Covered(v)'
<1>1. DOMAIN manifest' = DOMAIN manifest \cup {w} /\ frontier' = frontier
  BY DEF Walk!Recorded, Walk!With
<1> QED
  BY <1>1 DEF Covered

(* To be left out once more takes nothing back: what is below is hidden.     *)
LEMMA OmittedCovers ==
    ASSUME NEW w, NEW limit, Walk!Omitted(w, limit), NEW v,
           Walk!Strictly(w, v) => limit = "subtree",
           Covered(v) \/ v = w \/ Walk!Strictly(w, v)
    PROVE  Covered(v)'
<1>1. /\ DOMAIN frontier' = DOMAIN frontier \cup {w} /\ manifest' = manifest
      /\ frontier'[w] = limit
      /\ \A b \in DOMAIN frontier : b # w => frontier'[b] = frontier[b]
  BY DEF Walk!Omitted, Walk!With
<1>2. CASE v = w \/ Walk!Strictly(w, v)
  BY <1>1, <1>2 DEF Covered
<1>3. CASE v \in DOMAIN manifest
  BY <1>1, <1>3 DEF Covered
<1>4. CASE \E b \in DOMAIN frontier : b = v \/ (frontier[b] = "subtree" /\ Walk!Strictly(b, v))
  <2>1. PICK b \in DOMAIN frontier : b = v \/ (frontier[b] = "subtree" /\ Walk!Strictly(b, v))
    BY <1>4
  <2>2. CASE b = w
    BY <1>2, <2>1, <2>2
  <2>3. CASE b # w
    BY <1>1, <2>1, <2>3 DEF Covered
  <2> QED
    BY <2>2, <2>3
<1> QED
  BY <1>2, <1>3, <1>4 DEF Covered

(* A step that keeps in sight whatever stays.                                *)
LEMMA InSight ==
    ASSUME IInv, AbsentInv, Walk!Walking, ~scope.follow, Still, progress' = progress,
           AllStraight(frames', steady), Plain(visit'),
           \A v \in steady : Covered(v)' \/ Pending(v)'
    PROVE  AbsentInv'
<1>1. /\ tree' = tree /\ edits' = edits /\ steady' = steady /\ scope' = scope
      /\ progress = "walking"
  BY DEF Still, Walk!Walking
<1>2. OnWay'
  <2>1. steady \subseteq Walk!Below(tree, FALSE)
    BY DEF AbsentInv, OnWay
  <2>2. Walk!Below(tree, FALSE)' = Walk!Below(tree, FALSE)
    BY <1>1 DEF Walk!Below, Walk!Exists, Walk!InParent, Walk!KindAt
  <2> QED
    BY <1>1, <2>1, <2>2 DEF OnWay
<1> QED
  BY <1>1, <1>2 DEF AbsentInv, Walk!Walking

LEMMA StayingIsBelow == 
    ASSUME IInv, AbsentInv, Walk!Walking, ~scope.follow
    PROVE  /\ AllStraight(frames, steady) /\ Plain(visit)
           /\ \A v \in steady : v \in Path /\ (Covered(v) \/ Pending(v))
BY StayingIs DEF AbsentInv, OnWay

(* A directory is looked into. *)
LEMMA LoadDirMeets == ASSUME IInv, AbsentInv, ~scope.follow, Walk!LoadDir PROVE AbsentInv'
<1>1. /\ Walk!Walking /\ visit.step = "none" /\ frames # <<>> /\ Still /\ visit' = visit
      /\ UNCHANGED <<manifest, frontier>> /\ progress' = progress /\ Walk!Top.step = "load"
  BY DEF Walk!LoadDir, Walk!world, Walk!found, Still
<1> DEFINE f == Walk!Top  g == [f EXCEPT !.step = "list"]
<1>2. frames' = Walk!WithTop(g)
  BY DEF Walk!LoadDir
<1>3. FrameOk(f, tree, edits, scope.escape) /\ AllStraight(frames, steady) /\ Straight(f, steady)
  BY <1>1, TopIs, StayingIsBelow, FramesAre DEF IInv, AllStraight
<1> HIDE DEF f
<1>4. g = [real |-> f.real, virt |-> f.virt, depth |-> f.depth, chain |-> f.chain,
           source |-> f.source, hops |-> f.hops, followed |-> f.followed, step |-> "list",
           left |-> f.left]
  BY <1>3 DEF FrameOk
<1>5. g.real = f.real /\ g.virt = f.virt /\ g.followed = f.followed /\ g.step = "list"
  BY <1>4
<1> HIDE DEF g
<1>6. Straight(g, steady)
  BY <1>3, <1>5 DEF Straight
<1>7. ASSUME NEW v \in steady PROVE Covered(v)' \/ Pending(v)'
  <2>1. Covered(v) \/ Awaited(frames, v)
    BY <1>1, StayingIsBelow DEF Pending
  <2>2. Awaits(f, v) => Awaits(g, v)
    BY <1>1, <1>5, SameAwaits DEF f
  <2>3. Awaited(frames, v) => Awaited(frames', v)
    BY <1>1, <1>2, <2>2, TopAwaits DEF f
  <2> QED
    BY <1>1, <2>1, <2>3, StillCovered DEF Pending
<1>8. AllStraight(frames', steady) /\ Plain(visit')
  BY <1>1, <1>2, <1>3, <1>6, TopStraight, StayingIsBelow
<1> QED
  BY <1>1, <1>7, <1>8, InSight

(* A listing names every way on to what stays, and calls it a directory.     *)
LEMMA ListDirMeets == ASSUME IInv, AbsentInv, ~scope.follow, Walk!ListDir PROVE AbsentInv'
<1>1. /\ Walk!Walking /\ visit.step = "none" /\ frames # <<>> /\ Still /\ visit' = visit
      /\ UNCHANGED <<manifest, frontier>> /\ progress' = progress /\ Walk!Top.step = "list"
  BY DEF Walk!ListDir, Walk!world, Walk!found, Still
<1> DEFINE f == Walk!Top
           d == Walk!Real(tree, f.real, LinkBudget)
           names == Walk!Children(tree, d)
           left == [i \in 1..Len(names) |->
                       [name |-> names[i], kind |-> tree[Append(d, names[i])].kind]]
           g == [f EXCEPT !.step = "entries", !.left = left]
<1>2. frames' = Walk!WithTop(g)
  BY DEF Walk!ListDir
<1>3. FrameOk(f, tree, edits, scope.escape) /\ AllStraight(frames, steady) /\ Straight(f, steady)
  BY <1>1, TopIs, StayingIsBelow, FramesAre DEF IInv, AllStraight
<1>4. f.virt \in Path /\ f.real = Walk!Abs(f.virt) /\ ~f.followed /\ f.step # "entries"
  BY <1>1, <1>3 DEF FrameOk, Straight
<1>5. /\ names \in Seq(Strings)
      /\ \A n \in Walk!Range(Order) : Append(d, n) \in DOMAIN tree => \E k \in 1..Len(names) : names[k] = n
  BY ChildrenAre
<1>6. ASSUME NEW v \in steady, Walk!Strictly(f.virt, v) PROVE d = Walk!Abs(f.virt)
  <2>1. v \in Path /\ Walk!Abs(v) \in DOMAIN tree /\ Walk!WellFormed(tree)
    BY <1>1, StayingIs
  <2>2. Walk!Abs(f.virt) \in DOMAIN tree /\ tree[Walk!Abs(f.virt)].kind = "dir"
    BY <1>4, <1>6, <2>1, WayIsThere
  <2>3. tree[Walk!Abs(f.virt)].kind # "link"
    BY <2>2
  <2>4. \A n : Walk!Real(tree, Walk!Abs(f.virt), n) = Walk!Abs(f.virt)
    BY <2>1, <2>2, <2>3, ThereIsItself
  <2> QED
    BY <1>4, <2>4
<1> HIDE DEF d
<1>7. /\ Len(left) = Len(names) /\ Len(names) \in Nat
      /\ \A k \in 1..Len(names) : /\ names[k] \in Names /\ left[k].name = names[k]
                                  /\ left[k].kind = tree[Append(d, names[k])].kind
  <2> HIDE DEF names
  <2>1. Len(names) \in Nat /\ \A k \in 1..Len(names) : names[k] \in Strings
    BY <1>5, ElementOfSeq
  <2> DEFINE T == {left[i] : i \in 1..Len(names)}
  <2>2. left \in [1..Len(names) -> T]
    OBVIOUS
  <2>3. \A k \in 1..Len(names) : left[k].name = names[k] /\ left[k].kind = tree[Append(d, names[k])].kind
    OBVIOUS
  <2> HIDE DEF T, left
  <2>4. Len(left) = Len(names)
    BY <2>1, <2>2, SeqDef, LenProperties
  <2> QED
    BY <2>1, <2>3, <2>4 DEF Names
<1> HIDE DEF f, names, left
<1>8. g.real = f.real /\ g.virt = f.virt /\ g.followed = f.followed /\ g.step = "entries" /\ g.left = left
  <2> DEFINE h == [f EXCEPT !.step = "entries"]
  <2>1. h = [real |-> f.real, virt |-> f.virt, depth |-> f.depth, chain |-> f.chain,
             source |-> f.source, hops |-> f.hops, followed |-> f.followed, step |-> "entries",
             left |-> f.left]
    BY <1>3 DEF FrameOk
  <2>2. g = [h EXCEPT !.left = left]
    BY Twice
  <2> HIDE DEF h
  <2>3. [h EXCEPT !.left = left]
          = [real |-> f.real, virt |-> f.virt, depth |-> f.depth, chain |-> f.chain,
             source |-> f.source, hops |-> f.hops, followed |-> f.followed, step |-> "entries",
             left |-> left]
    BY <2>1
  <2> QED
    BY <2>2, <2>3
<1> HIDE DEF g
<1>9. Straight(g, steady)
  <2> SUFFICES ASSUME NEW k \in 1..Len(left), NEW v \in steady,
                      Walk!Strictly(Append(f.virt, left[k].name), v)
               PROVE  left[k].kind = "dir"
    BY <1>4, <1>8 DEF Straight
  <2> DEFINE n == names[k]
  <2>1. n \in Names /\ left[k].name = n /\ left[k].kind = tree[Append(d, n)].kind
    BY <1>7
  <2> HIDE DEF n
  <2>2. /\ Append(f.virt, n) \in Path /\ Len(Append(f.virt, n)) = Len(f.virt) + 1
        /\ \A i \in 1..Len(f.virt) : Append(f.virt, n)[i] = f.virt[i]
    BY <1>4, <2>1, Longer
  <2>3. v \in Path /\ Walk!Abs(v) \in DOMAIN tree /\ Walk!WellFormed(tree)
    BY <1>1, StayingIs
  <2>4. Walk!Strictly(Append(f.virt, n), v)
    BY <2>1
  <2>5. Walk!Strictly(f.virt, v)
    <3>1. Len(f.virt) \in Nat /\ Len(v) \in Nat
      BY <1>4, <2>3 DEF Path
    <3>2. Len(Append(f.virt, n)) < Len(v) /\ \A i \in 1..Len(Append(f.virt, n)) : Append(f.virt, n)[i] = v[i]
      BY <2>2, <2>3, <2>4, StrictlyIs
    <3>3. Len(f.virt) < Len(v) /\ \A i \in 1..Len(f.virt) : f.virt[i] = v[i]
      BY <2>2, <3>1, <3>2
    <3> QED
      BY <1>4, <2>3, <3>3, StrictlyIs
  <2>6. tree[Walk!Abs(Append(f.virt, n))].kind = "dir"
    BY <2>2, <2>3, <2>4, WayIsThere
  <2>7. Append(d, n) = Walk!Abs(Append(f.virt, n))
    BY <1>4, <1>6, <2>1, <2>5, AbsAppends
  <2> QED
    BY <2>1, <2>6, <2>7
<1>10. ASSUME NEW v \in steady PROVE Covered(v)' \/ Pending(v)'
  <2>1. Covered(v) \/ Awaited(frames, v)
    BY <1>1, StayingIsBelow DEF Pending
  <2>2. ASSUME Awaits(f, v) PROVE Awaits(g, v)
    <3>1. Walk!Strictly(f.virt, v)
      BY <2>2 DEF Awaits
    <3> DEFINE n == v[Len(f.virt) + 1]
    <3>2. v \in Path /\ Walk!Abs(v) \in DOMAIN tree /\ Walk!WellFormed(tree) /\ \A k \in 1..Len(v) : v[k] \in Walk!Range(Order)
      BY <1>1, StayingIs
    <3>3. n \in Names /\ n \in Walk!Range(Order) /\ (v = Append(f.virt, n) \/ Walk!Strictly(Append(f.virt, n), v))
      BY <1>4, <3>1, <3>2, NextOnWay
    <3> HIDE DEF n
    <3>4. Append(f.virt, n) \in Path
      BY <1>4, <3>3, Longer
    <3>5. Walk!Abs(Append(f.virt, n)) \in DOMAIN tree
      BY <3>2, <3>3, <3>4, WayIsThere
    <3>6. Append(d, n) \in DOMAIN tree
      BY <1>4, <1>6, <3>1, <3>3, <3>5, AbsAppends
    <3>7. PICK k \in 1..Len(names) : names[k] = n
      BY <1>5, <3>3, <3>6
    <3>8. k \in 1..Len(g.left) /\ g.left[k].name = n
      BY <1>7, <1>8, <3>7
    <3> QED
      BY <1>8, <3>1, <3>8 DEF Awaits, n
  <2>3. Awaited(frames, v) => Awaited(frames', v)
    BY <1>1, <1>2, <2>2, TopAwaits DEF f
  <2> QED
    BY <1>1, <2>1, <2>3, StillCovered DEF Pending
<1>11. AllStraight(frames', steady) /\ Plain(visit')
  BY <1>1, <1>2, <1>3, <1>9, TopStraight, StayingIsBelow
<1> QED
  BY <1>1, <1>10, <1>11, InSight

LEMMA GivesUp ==
    ASSUME AbsentInv, Walk!Abort
    PROVE  AbsentInv'
<1>1. progress' = "failed" /\ scope' = scope /\ edits' = edits /\ steady' = steady
  BY DEF Walk!Abort, Walk!world
<1> QED
  BY <1>1 DEF AbsentInv, Walk!Walking

(* What a directory that is left passes by is nothing.                       *)
LEMMA LeaveDirMeets == ASSUME IInv, AbsentInv, Walk!LeaveDir PROVE AbsentInv'
<1>1. /\ Walk!Walking /\ visit.step = "none" /\ frames # <<>> /\ Still /\ visit' = visit
      /\ UNCHANGED <<manifest, frontier>> /\ Walk!Top.step = "entries" /\ Walk!Top.left = <<>>
      /\ frames' = Walk!Front(frames)
      /\ progress' = IF Len(frames) = 1 THEN "done" ELSE progress
  BY DEF Walk!LeaveDir, Walk!world, Walk!found, Still
<1>2. /\ Len(frames) \in Nat \ {0} /\ Walk!Top = frames[Len(frames)]
  BY <1>1, FramesAre
<1>3. Len(frames') = Len(frames) - 1 /\ \A i \in 1..(Len(frames) - 1) : frames'[i] = frames[i]
  <2>1. PICK S : frames \in Seq(S)
    BY <1>1, FramesAre
  <2> DEFINE n == Len(frames) - 1
  <2>2. n \in Nat /\ n \in Int /\ 1 \in Int /\ \A i \in 1..n : frames[i] \in S
    BY <1>2, <2>1
  <2> HIDE DEF n
  <2>3. /\ SubSeq(frames, 1, n) \in Seq(S) /\ Len(SubSeq(frames, 1, n)) = IF 1 <= n THEN n - 1 + 1 ELSE 0
        /\ \A i \in 1..(n - 1 + 1) : SubSeq(frames, 1, n)[i] = frames[1 + i - 1]
    BY <2>2, SubSeqProperties
  <2>4. Len(SubSeq(frames, 1, n)) = n /\ \A i \in 1..n : SubSeq(frames, 1, n)[i] = frames[i]
    BY <2>2, <2>3
  <2> QED
    BY <1>1, <2>4 DEF n, Walk!Front
<1>4. Len(frames) = 1 => frames' = <<>>
  <2>1. Nested(frames', tree, edits, scope.escape)
    BY <1>1, Popped DEF IInv, WalkOk
  <2>2. PICK S : frames' \in Seq(S)
    BY <2>1 DEF Nested
  <2> QED
    BY <1>3, <2>2, EmptySeq
<1>5. ASSUME NEW v, Awaited(frames, v) PROVE Awaited(frames', v)
  <2>1. PICK i \in 1..Len(frames) : Awaits(frames[i], v)
    BY <1>5 DEF Awaited
  <2>2. i # Len(frames)
    <3>1. ~Awaits(Walk!Top, v)
      BY <1>1, EmptySeq DEF Awaits
    <3> QED
      BY <1>2, <2>1, <3>1
  <2>3. i \in 1..Len(frames') /\ frames'[i] = frames[i]
    BY <1>2, <1>3, <2>2
  <2> QED
    BY <2>1, <2>3 DEF Awaited
<1>6. /\ tree' = tree /\ edits' = edits /\ steady' = steady /\ scope' = scope
      /\ progress = "walking"
  BY <1>1 DEF Still, Walk!Walking
<1>7. ASSUME ~scope.follow, NEW v \in steady PROVE Covered(v)' \/ Pending(v)'
  <2>1. Covered(v) \/ Awaited(frames, v)
    BY <1>1, <1>7, StayingIsBelow DEF Pending
  <2> QED
    BY <1>1, <1>5, <2>1, StillCovered DEF Pending
<1>8. CASE Len(frames) # 1
  <2>1. progress' = progress
    BY <1>1, <1>8
  <2>2. CASE scope.follow
    BY <1>6, <2>1, <2>2 DEF AbsentInv, Walk!Walking
  <2>3. CASE ~scope.follow
    <3>1. AllStraight(frames, steady) /\ Plain(visit)
      BY <1>1, <2>3, StayingIsBelow
    <3>2. AllStraight(frames', steady)
      BY <1>2, <1>3, <3>1 DEF AllStraight
    <3> QED
      BY <1>1, <1>7, <2>1, <2>3, <3>1, <3>2, InSight
  <2> QED
    BY <2>2, <2>3
<1>9. CASE Len(frames) = 1
  BY <1>1, <1>4, <1>6, <1>7, <1>9 DEF AbsentInv, Walk!Walking
<1> QED
  BY <1>8, <1>9

-----------------------------------------------------------------------------
(* An entry that is left out, recorded, entered, or read later.              *)
LEMMA LeftOutMeets ==
    ASSUME IInv, AbsentInv, ~scope.follow, Walk!AtEntry, Still, visit' = visit, progress' = progress,
           frames' = Walk!WithTop(Walk!Passed), Walk!Omitted(Walk!Here, Walk!Limit(Walk!Entry.kind))
    PROVE  AbsentInv'
<1>1. /\ Walk!Walking /\ visit.step = "none" /\ frames # <<>>
  BY EntryIs
<1>2. AllStraight(frames, steady) /\ Plain(visit) /\ \A v \in steady : v \in Path /\ (Covered(v) \/ Pending(v))
  BY <1>1, StayingIsBelow
<1>3. /\ AllStraight(frames', steady)
      /\ \A v \in steady : Walk!Strictly(Walk!Here, v) => Walk!Limit(Walk!Entry.kind) = "subtree"
  BY <1>2, PassedStraight DEF Walk!Limit
<1>4. ASSUME NEW v \in steady PROVE Covered(v)' \/ Pending(v)'
  <2>1. Covered(v) \/ Awaited(frames, v)
    BY <1>1, <1>2 DEF Pending
  <2>2. Covered(v) \/ v = Walk!Here \/ Walk!Strictly(Walk!Here, v) \/ Awaited(frames', v)
    BY <1>2, <2>1, EntryOrRest
  <2>3. Covered(v) \/ v = Walk!Here \/ Walk!Strictly(Walk!Here, v) => Covered(v)'
    BY <1>3, OmittedCovers
  <2> QED
    BY <2>2, <2>3 DEF Pending
<1> QED
  BY <1>1, <1>2, <1>3, <1>4, InSight

LEMMA BarMeets == ASSUME IInv, AbsentInv, ~scope.follow, Walk!Bar PROVE AbsentInv'
<1>1. /\ Walk!AtEntry /\ Still /\ frames' = Walk!WithTop(Walk!Passed) /\ visit' = visit /\ progress' = progress
      /\ Walk!Omitted(Walk!Here, Walk!Limit(Walk!Entry.kind))
  BY DEF Walk!Bar, Walk!world, Still
<1> QED
  BY <1>1, LeftOutMeets

LEMMA IgnoreMeets == ASSUME IInv, AbsentInv, ~scope.follow, Walk!Ignore PROVE AbsentInv'
<1>1. /\ Walk!AtEntry /\ Still /\ frames' = Walk!WithTop(Walk!Passed) /\ visit' = visit /\ progress' = progress
      /\ Walk!Omitted(Walk!Here, Walk!Limit(Walk!Entry.kind))
  BY DEF Walk!Ignore, Walk!Unbarred, Walk!world, Still
<1> QED
  BY <1>1, LeftOutMeets

(* What is no directory was none when it was listed: nothing stays below it. *)
LEMMA LeafMeets ==
    ASSUME IInv, AbsentInv, ~scope.follow, Walk!AtEntry, Still, progress' = progress, Plain(visit'),
           frames' = Walk!WithTop(Walk!Passed), Walk!Entry.kind # "dir",
           \/ \E r : Walk!Recorded(Walk!Here, r)
           \/ visit'.step = "open" /\ visit'.virt = Walk!Here /\ UNCHANGED <<manifest, frontier>>
    PROVE  AbsentInv'
<1>1. /\ Walk!Walking /\ visit.step = "none" /\ frames # <<>>
  BY EntryIs
<1>2. AllStraight(frames, steady) /\ \A v \in steady : v \in Path /\ (Covered(v) \/ Pending(v))
  BY <1>1, StayingIsBelow
<1>3. /\ AllStraight(frames', steady)
      /\ \A v \in steady : ~Walk!Strictly(Walk!Here, v)
  BY <1>2, PassedStraight
<1>4. ASSUME NEW v \in steady PROVE Covered(v)' \/ Pending(v)'
  <2>1. Covered(v) \/ Awaited(frames, v)
    BY <1>1, <1>2 DEF Pending
  <2>2. Covered(v) \/ v = Walk!Here \/ Awaited(frames', v)
    BY <1>2, <1>3, <2>1, EntryOrRest
  <2>3. CASE \E r : Walk!Recorded(Walk!Here, r)
    BY <2>2, <2>3, RecordedCovers DEF Pending
  <2>4. CASE visit'.step = "open" /\ visit'.virt = Walk!Here /\ UNCHANGED <<manifest, frontier>>
    BY <2>2, <2>4, StillCovered DEF Pending
  <2> QED
    BY <2>3, <2>4
<1> QED
  BY <1>1, <1>3, <1>4, InSight

LEMMA RecordLinkMeets == ASSUME IInv, AbsentInv, ~scope.follow, Walk!RecordLink PROVE AbsentInv'
<1> DEFINE r == Walk!Record("symlink", FALSE, tree[Walk!InParent(tree, Walk!There)].to, Walk!ViaTop)
<1>1. /\ Walk!AtEntry /\ Still /\ frames' = Walk!WithTop(Walk!Passed) /\ visit' = visit
      /\ Walk!Recorded(Walk!Here, r) /\ Walk!Entry.kind = "link" /\ progress' = progress
  BY DEF Walk!RecordLink, Walk!Unbarred, Walk!world, Still
<1> HIDE DEF r
<1>2. Walk!Entry.kind # "dir" /\ visit'.step = "none" /\ Plain(visit')
  BY <1>1, EntryIs DEF Plain
<1> QED
  BY <1>1, <1>2, LeafMeets

LEMMA MeetFileMeets == ASSUME IInv, AbsentInv, ~scope.follow, Walk!MeetFile PROVE AbsentInv'
<1> DEFINE node == tree[Walk!InParent(tree, Walk!There)]
           r == Walk!Record("special", TRUE, "", Walk!ViaTop)
<1>1. /\ Walk!AtEntry /\ Still /\ frames' = Walk!WithTop(Walk!Passed)
      /\ Walk!Entry.kind \in {"file", "special"} /\ UNCHANGED progress
  BY DEF Walk!MeetFile, Walk!Unbarred, Walk!world, Still
<1>2. Walk!Entry.kind # "dir" /\ visit.step = "none" /\ ~Walk!Top.followed
  <2>1. Walk!Walking /\ AllStraight(frames, steady)
    BY <1>1, EntryIs, StayingIsBelow
  <2>2. Straight(Walk!Top, steady)
    BY <1>1, <2>1, PassedStraight
  <2> QED
    BY <1>1, <2>2, EntryIs DEF Straight
<1>3. CASE node.kind = "file"
  <2>1. /\ UNCHANGED <<manifest, frontier>>
        /\ visit' = [step |-> "open", virt |-> Walk!Here, real |-> Walk!There, id |-> node.id,
                     hops |-> Walk!Top.hops, followed |-> Walk!Top.followed, via |-> Walk!ViaTop]
    BY <1>3 DEF Walk!MeetFile, Walk!found
  <2> HIDE DEF node
  <2>2. visit'.step = "open" /\ visit'.virt = Walk!Here /\ visit'.followed = Walk!Top.followed
    BY <2>1
  <2>3. Plain(visit')
    BY <1>2, <2>2 DEF Plain
  <2> QED
    BY <1>1, <1>2, <2>1, <2>2, <2>3, LeafMeets
<1>4. CASE node.kind # "file"
  <2>1. Walk!Recorded(Walk!Here, r) /\ visit' = visit
    BY <1>4 DEF Walk!MeetFile
  <2> HIDE DEF r
  <2>2. Plain(visit')
    BY <1>2, <2>1 DEF Plain
  <2> QED
    BY <1>1, <1>2, <2>1, <2>2, LeafMeets
<1> QED
  BY <1>3, <1>4

LEMMA EnterDirMeets == ASSUME IInv, AbsentInv, ~scope.follow, Walk!EnterDir PROVE AbsentInv'
<1> DEFINE fs == Walk!WithTop(Walk!Passed)
           g == Walk!Frame(Walk!There, Walk!Here, 0, {}, <<>>, <<>>, FALSE)
           r == Walk!Record("dir", FALSE, "", Walk!ViaTop)
<1>1. /\ Walk!AtEntry /\ Still /\ visit' = visit /\ Walk!Recorded(Walk!Here, r)
      /\ ~Walk!Top.followed => frames' = Append(fs, g)
      /\ progress' = progress
  BY DEF Walk!EnterDir, Walk!Unbarred, Walk!world, Still
<1>2. /\ Walk!Walking /\ visit.step = "none" /\ frames # <<>>
      /\ FrameOk(Walk!Top, tree, edits, scope.escape)
  BY <1>1, EntryIs
<1>3. /\ AllStraight(frames, steady) /\ Plain(visit)
      /\ \A v \in steady : v \in Path /\ (Covered(v) \/ Pending(v))
  BY <1>2, StayingIsBelow
<1>4. AllStraight(fs, steady) /\ Straight(Walk!Top, steady)
  BY <1>1, <1>3, PassedStraight
<1>5. PICK S : fs \in Seq(S)
  BY <1>2, TopReplaced
<1>6. g.real = Walk!There /\ g.virt = Walk!Here /\ g.followed = FALSE /\ g.step = "load"
  BY DEF Walk!Frame
<1>7. Walk!Here \in Path /\ Walk!There = Walk!Abs(Walk!Here)
  <2>1. Walk!Top.virt \in Path /\ Walk!Entry.name \in Names /\ Walk!Top.real = Walk!Abs(Walk!Top.virt)
    <3>1. 1 \in 1..Len(Walk!Top.left)
      BY <1>1, PassedBy
    <3> QED
      BY <1>2, <1>4, <3>1 DEF FrameOk, Walk!Entry, Straight
  <2> QED
    BY <2>1, AbsAppends, Longer DEF Walk!Here, Walk!There
<1> HIDE DEF g, fs, r
<1>8. frames' = Append(fs, g)
  BY <1>1, <1>4 DEF Straight
<1>9. Straight(g, steady)
  BY <1>6, <1>7 DEF Straight
<1>10. AllStraight(frames', steady) /\ \A v : Awaited(fs, v) \/ Awaits(g, v) => Awaited(frames', v)
  BY <1>4, <1>5, <1>8, <1>9, OneMoreFrame
<1>11. ASSUME NEW v \in steady PROVE Covered(v)' \/ Pending(v)'
  <2>1. Covered(v) \/ Awaited(frames, v)
    BY <1>2, <1>3 DEF Pending
  <2>2. Covered(v) \/ v = Walk!Here \/ Walk!Strictly(Walk!Here, v) \/ Awaited(fs, v)
    BY <1>1, <1>3, <2>1, EntryOrRest DEF fs
  <2>3. Walk!Strictly(Walk!Here, v) => Awaits(g, v)
    BY <1>6 DEF Awaits
  <2>4. Covered(v) \/ v = Walk!Here => Covered(v)'
    BY <1>1, RecordedCovers
  <2> QED
    BY <1>10, <2>2, <2>3, <2>4 DEF Pending
<1> QED
  BY <1>1, <1>2, <1>3, <1>10, <1>11, InSight

(* The content of a file.                                                    *)
LEMMA ReadMeets ==
    ASSUME IInv, AbsentInv, ~scope.follow, Walk!Walking, Still, frames' = frames, progress' = progress,
           visit'.step = "none", visit.step = "open", \E r : Walk!Recorded(visit.virt, r)
    PROVE  AbsentInv'
<1>1. AllStraight(frames, steady) /\ \A v \in steady : v \in Path /\ (Covered(v) \/ Pending(v))
  BY StayingIsBelow
<1>2. ASSUME NEW v \in steady PROVE Covered(v)' \/ Pending(v)'
  <2>1. Covered(v) \/ v = visit.virt \/ Awaited(frames, v)
    BY <1>1 DEF Pending
  <2> QED
    BY <2>1, RecordedCovers DEF Pending
<1>3. Plain(visit')
  BY DEF Plain
<1> QED
  BY <1>1, <1>2, <1>3, InSight

LEMMA ReadContentMeets ==
    ASSUME IInv, AbsentInv, ~scope.follow, Walk!ReadContent \/ Walk!ReadFails
    PROVE  AbsentInv'
<1>1. Walk!Walking /\ Plain(visit) /\ visit.step \in {"open", "verified"}
  BY StayingIsBelow DEF Walk!ReadContent, Walk!ReadFails, Walk!Opening
<1>2. visit.step = "open"
  BY <1>1 DEF Plain
<1>3. CASE Walk!Abort
  BY <1>3, GivesUp
<1>4. CASE ~Walk!Abort
  <2>1. /\ Still /\ frames' = frames /\ progress' = progress /\ visit' = Walk!NoVisit
        /\ \E r : Walk!Recorded(visit.virt, r)
    <3>1. CASE Walk!ReadContent
      BY <3>1 DEF Walk!ReadContent, Walk!world, Still
    <3>2. CASE Walk!ReadFails
      BY <1>4, <3>2 DEF Walk!ReadFails, Walk!world, Still
    <3> QED
      BY <3>1, <3>2
  <2>2. visit'.step = "none"
    BY <2>1 DEF Walk!NoVisit
  <2> QED
    BY <1>1, <1>2, <2>1, <2>2, ReadMeets
<1> QED
  BY <1>3, <1>4

(* Nothing follows a link where none is followed.                            *)
LEMMA NothingFollowed ==
    ASSUME IInv, AbsentInv, ~scope.follow, Walk!Walking
    PROVE  /\ ~Walk!StartFollow /\ ~Walk!RefuseHop /\ ~Walk!BrokenHop /\ ~Walk!Hop /\ ~Walk!Resolve
           /\ ~Walk!Detour /\ ~Walk!LookAgain /\ ~Walk!ReachNothing
           /\ ~Walk!ReachFile /\ ~Walk!ReachSpecial /\ ~Walk!ReachDir /\ ~Walk!CutCycle
           /\ ~Walk!VerifyChain
<1>1. visit.step \notin FollowSteps /\ (visit.step = "open" => ~visit.followed)
  BY StayingIsBelow DEF Plain, FollowSteps
<1>2. /\ ~Walk!Hopping /\ ~Walk!At("arrive") /\ ~Walk!At("resolved") /\ ~Walk!At("stat")
  BY <1>1 DEF Walk!Hopping, Walk!At, FollowSteps
<1>3. /\ ~Walk!StartFollow /\ ~Walk!RefuseHop /\ ~Walk!BrokenHop /\ ~Walk!Hop /\ ~Walk!Resolve
      /\ ~Walk!Detour /\ ~Walk!LookAgain /\ ~Walk!ReachNothing
  BY <1>2 DEF Walk!StartFollow, Walk!RefuseHop, Walk!BrokenHop, Walk!Hop, Walk!Resolve, Walk!Detour,
              Walk!LookAgain, Walk!ReachNothing
<1>4. ~Walk!ReachFile /\ ~Walk!ReachSpecial /\ ~Walk!ReachDir /\ ~Walk!CutCycle
  BY <1>2 DEF Walk!ReachFile, Walk!ReachSpecial, Walk!ReachDir, Walk!CutCycle
<1>5. ~Walk!VerifyChain
  BY <1>1 DEF Walk!VerifyChain
<1> QED
  BY <1>3, <1>4, <1>5

LEMMA StepIs ==
    ASSUME Walk!Step, ~Walk!LeaveDir
    PROVE  /\ Walk!Walking /\ UNCHANGED <<tree, edits, steady, inside, scope>>
           /\ progress' = progress \/ progress' = "failed"
<1> DEFINE Keeps == /\ Walk!Walking /\ UNCHANGED <<tree, edits, steady, inside, scope>>
                    /\ progress' = progress \/ progress' = "failed"
<1>1. ASSUME Walk!Walking, Walk!Abort PROVE Keeps
  BY <1>1 DEF Walk!Abort, Walk!world
<1>2. ASSUME Walk!Walking, UNCHANGED <<Walk!world, scope, frames, Walk!rules, progress>> PROVE Keeps
  BY <1>2 DEF Walk!world
<1>3. ASSUME Walk!LoadDir \/ Walk!ListDir \/ Walk!Bar \/ Walk!Ignore \/ Walk!EnterDir PROVE Keeps
  BY <1>3 DEF Walk!LoadDir, Walk!ListDir, Walk!Bar, Walk!Ignore, Walk!EnterDir, Walk!Unbarred, Walk!AtEntry, Walk!world
<1>4. ASSUME Walk!RecordLink \/ Walk!MeetFile \/ Walk!StartFollow PROVE Keeps
  BY <1>4 DEF Walk!RecordLink, Walk!MeetFile, Walk!StartFollow, Walk!Unbarred, Walk!AtEntry, Walk!world
<1>5. ASSUME Walk!DirGone \/ Walk!EntryGone PROVE Keeps
  BY <1>1, <1>5 DEF Walk!DirGone, Walk!EntryGone, Walk!Unbarred, Walk!AtEntry
<1>6. ASSUME Walk!Walking, Walk!Broken PROVE Keeps
  BY <1>1, <1>2, <1>6 DEF Walk!Broken
<1>7. ASSUME Walk!RefuseHop \/ Walk!BrokenHop \/ Walk!Hop PROVE Keeps
  BY <1>2, <1>6, <1>7 DEF Walk!RefuseHop, Walk!BrokenHop, Walk!Hop, Walk!Hopping, Walk!world
<1>8. ASSUME Walk!Resolve \/ Walk!Detour \/ Walk!LookAgain \/ Walk!ReachNothing PROVE Keeps
  BY <1>1, <1>2, <1>6, <1>8
  DEF Walk!Resolve, Walk!Detour, Walk!LookAgain, Walk!ReachNothing, Walk!At, Walk!world
<1>9. ASSUME Walk!ReachFile \/ Walk!ReachSpecial \/ Walk!ReachDir \/ Walk!CutCycle PROVE Keeps
  BY <1>9 DEF Walk!ReachFile, Walk!ReachSpecial, Walk!ReachDir, Walk!CutCycle, Walk!At, Walk!world
<1>10. ASSUME Walk!VerifyChain \/ Walk!ReadContent PROVE Keeps
  BY <1>10 DEF Walk!VerifyChain, Walk!ReadContent, Walk!Opening, Walk!world
<1>11. ASSUME Walk!ReadFails PROVE Keeps
  BY <1>1, <1>2, <1>11 DEF Walk!ReadFails, Walk!Opening
<1> HIDE DEF Keeps
<1>12. Keeps
  BY <1>3, <1>4, <1>5, <1>7, <1>8, <1>9, <1>10, <1>11 DEF Walk!Step
<1> QED
  BY <1>12 DEF Keeps

LEMMA StepMeets == ASSUME IInv, AbsentInv, Walk!Step PROVE AbsentInv'
<1>1. CASE Walk!LeaveDir
  BY <1>1, LeaveDirMeets
<1>2. CASE ~Walk!LeaveDir /\ scope.follow
  <2>1. /\ Walk!Walking /\ UNCHANGED <<tree, edits, steady, inside, scope>>
        /\ progress' = progress \/ progress' = "failed"
    BY <1>2, StepIs
  <2> QED
    BY <1>2, <2>1 DEF AbsentInv, Walk!Walking
<1>3. CASE ~Walk!LeaveDir /\ ~scope.follow
  <2>1. Walk!Walking
    BY <1>3, StepIs
  <2> QED
    BY <1>3, <2>1, NothingFollowed, LoadDirMeets, ListDirMeets, GivesUp, BarMeets, IgnoreMeets, EnterDirMeets,
       RecordLinkMeets, MeetFileMeets, ReadContentMeets DEF Walk!Step, Walk!DirGone, Walk!EntryGone
<1> QED
  BY <1>1, <1>2, <1>3

(* The editor takes from what stays, and adds nothing to it.                 *)
LEMMA EditMeets == ASSUME IInv, AbsentInv, Walk!Edit PROVE AbsentInv'
<1>1. PICK t : Walk!Edited(t)
  BY DEF Walk!Edit, Walk!Put, Walk!Move
<1>2. /\ Walk!Walking /\ tree' = t /\ edits' = edits + 1
      /\ steady' = IF scope.follow THEN {} ELSE steady \cap Walk!Below(t, FALSE)
      /\ scope' = scope /\ frames' = frames /\ visit' = visit
      /\ UNCHANGED <<manifest, frontier>> /\ progress' = progress
  BY <1>1 DEF Walk!Edited, Walk!found
<1>3. CASE scope.follow
  BY <1>2, <1>3 DEF AbsentInv, Walk!Walking
<1>4. CASE ~scope.follow
  <2>1. steady' \subseteq steady /\ steady' \subseteq Walk!Below(tree', FALSE)
    BY <1>2, <1>4
  <2>2. AllStraight(frames, steady) /\ Plain(visit) /\ \A v \in steady : Covered(v) \/ Pending(v)
    BY <1>2, <1>4, StayingIsBelow
  <2>3. AllStraight(frames', steady') /\ Plain(visit')
    BY <1>2, <2>1, <2>2 DEF AllStraight, Straight
  <2>4. ASSUME NEW v \in steady' PROVE Covered(v)' \/ Pending(v)'
    <3>1. Covered(v) \/ Pending(v)
      BY <2>1, <2>2
    <3> QED
      BY <1>2, <3>1, StillCovered DEF Pending
  <2>5. Walk!Below(tree, FALSE)' = Walk!Below(tree', FALSE)
    BY DEF Walk!Below, Walk!Exists, Walk!InParent, Walk!KindAt
  <2>6. OnWay'
    BY <2>1, <2>3, <2>5 DEF OnWay
  <2>7. progress = "walking"
    BY <1>2 DEF Walk!Walking
  <2> QED
    BY <1>2, <1>4, <2>4, <2>6, <2>7 DEF AbsentInv, Walk!Walking
<1> QED
  BY <1>3, <1>4

LEMMA ScanRests == ASSUME AbsentInv, UNCHANGED scan PROVE AbsentInv'
<1>1. /\ tree' = tree /\ edits' = edits /\ scope' = scope /\ frames' = frames /\ visit' = visit
      /\ UNCHANGED <<manifest, frontier>> /\ progress' = progress /\ steady' = steady
  BY DEF scan
<1>2. \A v : Covered(v) \/ Pending(v) => Covered(v)' \/ Pending(v)'
  BY <1>1, StillCovered DEF Pending
<1>3. OnWay => OnWay'
  <2>1. Walk!Below(tree, FALSE)' = Walk!Below(tree, FALSE)
    BY <1>1 DEF Walk!Below, Walk!Exists, Walk!InParent, Walk!KindAt
  <2> QED
    BY <1>1, <2>1 DEF OnWay
<1> QED
  BY <1>1, <1>2, <1>3 DEF AbsentInv, Walk!Walking

LEMMA Unfollowed ==
    ASSUME NEW t, NEW follow, ~follow
    PROVE  Walk!Below(t, follow) \subseteq Walk!Below(t, FALSE)
<1> SUFFICES ASSUME NEW v \in Walk!Virtual, Walk!Exists(t, follow, v) PROVE Walk!Exists(t, FALSE, v)
  BY Zenon DEF Walk!Below
<1> QED
  BY Zenon DEF Walk!Exists

LEMMA NothingMetYet == ASSUME ObservationInit PROVE AbsentInv
<1>1. CASE NoScan
  BY <1>1 DEF NoScan, AbsentInv, Walk!Walking
<1>2. CASE Walk!Init
  <2> DEFINE g == Walk!Frame(Walk!Root, <<>>, 0, {}, <<>>, <<>>, FALSE)
  <2>1. /\ edits = 0 /\ frames = <<g>> /\ visit.step = "none" /\ progress = "walking"
        /\ steady = Walk!Below(tree, scope.follow)
    BY <1>2 DEF Walk!Init, Walk!NoVisit
  <2>2. g.real = Walk!Root /\ g.virt = <<>> /\ g.followed = FALSE /\ g.step = "load"
    BY DEF Walk!Frame
  <2> HIDE DEF g
  <2>3. Walk!Abs(<<>>) = Walk!Root
    BY RootIs, ConcatEmptySeq DEF Walk!Abs, Path
  <2>4. Straight(g, steady)
    BY <2>2, <2>3 DEF Straight
  <2>5. Len(frames) = 1 /\ frames[1] = g
    BY <2>1
  <2>6. AllStraight(frames, steady)
    BY <2>4, <2>5 DEF AllStraight
  <2>7. Plain(visit)
    BY <2>1 DEF Plain
  <2>8. ~scope.follow => steady \subseteq Walk!Below(tree, FALSE)
    BY <2>1, Unfollowed
  <2>9. ASSUME ~scope.follow, NEW v \in steady PROVE Pending(v)
    <3>1. v \in Walk!Below(tree, FALSE)
      BY <2>8, <2>9
    <3>2. v \in Path /\ v # <<>>
      BY <3>1, BelowIs
    <3>3. Walk!Strictly(<<>>, v)
      <4>1. <<>> \in Path /\ Len(<<>>) = 0 /\ Len(v) \in Nat /\ Len(v) # 0
        BY <3>2, EmptySeq DEF Path
      <4>2. Len(<<>>) < Len(v) /\ \A k \in 1..Len(<<>>) : <<>>[k] = v[k]
        BY <4>1
      <4> QED
        BY <3>2, <4>1, <4>2, StrictlyIs
    <3>4. Awaits(g, v)
      BY <2>2, <3>3 DEF Awaits
    <3> QED
      BY <2>5, <3>4 DEF Pending, Awaited
  <2>10. progress # "done"
    BY <2>1
  <2>11. ~scope.follow => OnWay
    BY <2>6, <2>7, <2>8 DEF OnWay
  <2> QED
    BY <2>9, <2>10, <2>11, Zenon DEF AbsentInv
<1> QED
  BY <1>1, <1>2 DEF ObservationInit

-----------------------------------------------------------------------------
(* What a comparison makes of it, also one that was given up.                *)
OnlyKnown == \A c \in Emitted : c.status # "renamed" => c \in Expected(Known)

Reporting ==
    /\ outcome \in {"idle", "merging", "complete", "failed", "unsupported"}
    /\ outcome \in {"failed", "unsupported"} => StatesFit /\ OnlyKnown
    /\ outcome = "complete" => StatesFit /\ buffered = <<>> /\ overflow = <<>>
    /\ outcome # "idle" /\ progress # "none" =>
          progress = "done" /\ Bounded /\ state["right"] = Present

LEMMA MergedIsKnown ==
    ASSUME MergeInv, Reporting, outcome # "idle"
    PROVE  StatesFit /\ OnlyKnown
<1>1. CASE outcome = "merging"
  <2>1. Merging /\ Emitted = Expected(Differing \ Unread)
    BY <1>1, WholeIs DEF MergeInv, Merging, Reported
  <2> QED
    BY <2>1 DEF Merging, OnlyKnown, Expected, Differing
<1>2. CASE outcome = "complete"
  <2>1. StatesFit /\ Finished /\ Emitted = Elements(served)
    BY <1>2 DEF MergeInv, Reporting, Emitted, Elements
  <2>2. Expected(Differing) \subseteq Expected(Known)
    BY DEF Expected, Differing
  <2>3. ASSUME NEW c \in Elements(served), c.status # "renamed" PROVE c \in Expected(Known)
    <3>1. Halves(c) = {c}
      BY <2>3 DEF Halves
    <3> QED
      BY <2>1, <2>2, <2>3, <3>1 DEF Finished
  <2> QED
    BY <2>1, <2>3 DEF OnlyKnown
<1>3. CASE outcome \in {"failed", "unsupported"}
  BY <1>3 DEF Reporting
<1> QED
  BY <1>1, <1>2, <1>3 DEF Reporting

LEMMA CompareReports ==
    ASSUME MergeInv, MergeInv', Reporting, Compare, UNCHANGED scan
    PROVE  Reporting'
<1>1. /\ outcome = "merging" /\ outcome' \in {"merging", "complete", "failed", "unsupported", "disordered"}
      /\ state' = state /\ SameStates
  BY DEF Compare, Merge, ReadPair, ReadOneSided, Relates, Fail, ServeBuffered, ServeOverflow, Finish, Drawing,
         inputs, SameStates
<1>2. outcome' # "disordered"
  BY DEF MergeInv
<1>3. Merging /\ StatesFit /\ OnlyKnown
  BY <1>1, MergedIsKnown DEF MergeInv
<1>4. StatesFit' /\ Expected(Known)' = Expected(Known)
  BY <1>1, <1>3, SameSides
<1>5. outcome' \in {"failed", "unsupported"} => OnlyKnown'
  <2> SUFFICES ASSUME outcome' \in {"failed", "unsupported"} PROVE OnlyKnown'
    OBVIOUS
  <2>1. UNCHANGED report
    BY <1>1 DEF Compare, Merge, ReadPair, ReadOneSided, Relates, Fail, ServeBuffered, ServeOverflow, Finish
  <2>2. Emitted' = Emitted
    BY <2>1 DEF report, Emitted, Elements
  <2> QED
    BY <1>3, <1>4, <2>2 DEF OnlyKnown
<1>6. outcome' = "complete" => buffered' = <<>> /\ overflow' = <<>>
  <2> SUFFICES ASSUME outcome' = "complete" PROVE buffered' = <<>> /\ overflow' = <<>>
    OBVIOUS
  <2>1. Finish
    BY <1>1 DEF Compare, Merge, ReadPair, ReadOneSided, Relates, Fail, ServeBuffered, ServeOverflow
  <2>2. ReportFits
    BY <1>3 DEF Merging
  <2> QED
    BY <2>1, <2>2 DEF Finish, Drawing, ReportFits, report
<1>7. progress' = progress /\ (Bounded' <=> Bounded) /\ Present' = Present
  BY DEF scan, Bounded, Present, Recorded
<1> QED
  BY <1>1, <1>2, <1>4, <1>5, <1>6, <1>7 DEF Reporting

LEMMA ReportsKeep ==
    ASSUME MergeInv, MergeInv', Reporting, [ObservationNext]_<<comparison, scan>>
    PROVE  Reporting'
<1>1. CASE ScanStep
  <2>1. Walk!Walking
    BY <1>1, StepIs DEF ScanStep, Walk!Next, Walk!LeaveDir, Walk!Edit, Walk!Put, Walk!Move, Walk!Edited
  <2>2. outcome = "idle" /\ outcome' = outcome
    BY <1>1, <2>1 DEF ScanStep, comparison, Reporting, Walk!Walking
  <2> QED
    BY <2>2 DEF Reporting
<1>2. CASE CompareStored
  <2>1. outcome' = "merging" /\ progress' = "none"
    BY <1>2 DEF CompareStored, Open, scan
  <2> QED
    BY <2>1 DEF Reporting
<1>3. CASE ComparePresent
  <2>1. outcome' = "merging" /\ state'["right"] = Present /\ progress = "done" /\ Bounded /\ UNCHANGED scan
    BY <1>3 DEF ComparePresent, Open, Sides
  <2>2. progress' = progress /\ (Bounded' <=> Bounded) /\ Present' = Present
    BY <2>1 DEF scan, Bounded, Present, Recorded
  <2> QED
    BY <2>1, <2>2 DEF Reporting
<1>4. CASE CompareStep
  BY <1>4, CompareReports DEF CompareStep
<1>5. CASE UNCHANGED <<comparison, scan>>
  <2>1. /\ SameStates /\ state' = state /\ outcome' = outcome /\ served' = served
        /\ buffered' = buffered /\ overflow' = overflow /\ progress' = progress
    BY <1>5 DEF comparison, inputs, report, SameStates, scan
  <2>2. (Bounded' <=> Bounded) /\ Present' = Present
    BY <1>5 DEF scan, Bounded, Present, Recorded
  <2>3. Expected(Known)' = Expected(Known) /\ (StatesFit' <=> StatesFit) /\ Emitted' = Emitted
    BY <2>1, SameSides DEF Emitted, Elements
  <2> QED
    BY <2>1, <2>2, <2>3 DEF Reporting, OnlyKnown
<1> QED
  BY <1>1, <1>2, <1>3, <1>4, <1>5 DEF ObservationNext

(* What stays has been covered, and nothing covered is called absent.        *)
LEMMA CoveredIsNotAbsent ==
    ASSUME Reporting, MergeInv, progress = "done", NEW p, Covered(p)
    PROVE  /\ ~Walk!ProvedAbsent(p)
           /\ \A c \in Emitted : c.status = "deleted" /\ c.missing = "absent" => c.old # p
<1>1. ~Walk!ProvedAbsent(p)
  BY DEF Covered, Walk!ProvedAbsent
<1>2. ASSUME NEW c \in Emitted, c.status = "deleted", c.missing = "absent", c.old = p PROVE FALSE
  <2>1. outcome # "idle"
    <3>1. CASE outcome = "idle"
      BY <3>1 DEF MergeInv, Emitted, Elements
    <3> QED
      BY <1>2, <3>1
  <2>2. StatesFit /\ c \in Expected(Known) /\ Bounded /\ state["right"] = Present
    BY <1>2, <2>1, MergedIsKnown DEF OnlyKnown, Reporting
  <2>3. PICK q \in Known : c = ChangeAt(q, Missing(q))
    BY <2>2 DEF Expected
  <2>4. ChangeAt(q, Missing(q)).missing = Missing(q)
    BY Zenon DEF ChangeAt
  <2>5. q = p /\ ~Has("right", p) /\ Has("left", p) /\ Missing(p) = "absent"
    <3>1. StatusAt(q) = "deleted" /\ Missing(q) = "absent"
      BY <1>2, <2>3, <2>4, ChangeIs
    <3>2. ~Has("right", q) /\ Has("left", q)
      BY <3>1, StatusIs DEF Known, Has
    <3>3. c.old = q
      BY <2>3, <3>2, ChangeIs
    <3> QED
      BY <1>2, <3>1, <3>2, <3>3
  <2>6. Meaning("right", p) = "absent"
    BY <2>5 DEF Missing
  <2>7. /\ DOMAIN Present.rec = DOMAIN manifest /\ Present.excluded = frontier
        /\ Present.coverage = "recorded" /\ Present.scope = {}
    BY Zenon DEF Present
  <2>8. Verdict(AllBoundaries("right"), p) = "absent"
    BY <2>2, <2>6, <2>7 DEF Meaning, InScope
  <2>9. \A b \in AllBoundaries("right") : ~Reaches(b, p)
    BY <2>8 DEF Verdict
  <2>10. p \notin DOMAIN manifest
    BY <2>2, <2>5, <2>7 DEF Has
  <2>11. PICK b \in DOMAIN frontier : b = p \/ (frontier[b] = "subtree" /\ Walk!Strictly(b, p))
    BY <2>10 DEF Covered
  <2> DEFINE e == Boundary(b, frontier[b] = "subtree", FALSE)
  <2>12. e \in AllBoundaries("right")
    <3>1. e \in Frontier(frontier)
      BY DEF Frontier
    <3> QED
      BY <2>2, <2>7, <3>1 DEF AllBoundaries, Excluded
  <2>13. e.path = b /\ (e.subtree <=> frontier[b] = "subtree")
    BY Zenon DEF Boundary
  <2>14. b \in Paths /\ p \in Paths
    BY <2>2, <2>5, <2>11 DEF Bounded, StatesFit, StateFits, Has
  <2>15. Reaches(e, p)
    <3>1. CASE b = p
      BY <2>13, <3>1 DEF Reaches
    <3>2. CASE frontier[b] = "subtree" /\ Walk!Strictly(b, p)
      BY <2>13, <2>14, <3>2, BelowAssumption DEF Reaches
    <3> QED
      BY <2>11, <3>1, <3>2
  <2> QED
    BY <2>9, <2>12, <2>15
<1> QED
  BY <1>1, <1>2

(* What a scan and the report on it prove absent was not there all the time  *)
(* the scan ran, whatever was left out or skipped, and whoever edited beside *)
(* it: for any worktrees, scopes and edits, through real directories.        *)
THEOREM AbsencesAreTrue == ObservationSpec => [](~scope.follow => AbsentIsTrue)
<1> DEFINE Inv == IInv /\ MergeInv /\ AbsentInv /\ Reporting
<1>1. ObservationInit => Inv
  <2>1. ObservationInit => Reporting
    BY DEF ObservationInit, Init, Reporting
  <2> QED
    BY <2>1, Initially, ComparisonStarts, NothingMetYet
<1>2. Inv /\ [ObservationNext]_<<comparison, scan>> => Inv'
  <2> SUFFICES ASSUME Inv, [ObservationNext]_<<comparison, scan>> PROVE Inv'
    OBVIOUS
  <2>1. IInv' /\ MergeInv'
    BY EveryStep, ComparisonKeeps
  <2>2. AbsentInv'
    <3>1. CASE UNCHANGED scan
      BY <3>1, ScanRests
    <3>2. CASE Walk!Step \/ Walk!Edit
      BY <3>2, StepMeets, EditMeets
    <3> QED
      BY <3>1, <3>2
      DEF ObservationNext, ScanStep, CompareStored, ComparePresent, CompareStep, Walk!Next, scan
  <2>3. Reporting'
    BY <2>1, ReportsKeep
  <2> QED
    BY <2>1, <2>2, <2>3
<1>3. Inv => (~scope.follow => AbsentIsTrue)
  <2> SUFFICES ASSUME Inv, ~scope.follow, progress = "done", NEW v \in steady
               PROVE  /\ ~Walk!ProvedAbsent(v)
                      /\ \A c \in Emitted : c.status = "deleted" /\ c.missing = "absent" => c.old # v
    BY DEF AbsentIsTrue, Walk!AbsentIsTrue, DeletedIsGone
  <2>1. frames = <<>> /\ visit.step = "none" /\ (Covered(v) \/ Pending(v))
    BY DEF AbsentInv
  <2>2. ~Pending(v)
    <3>1. Len(frames) = 0
      BY <2>1, EmptySeq
    <3>2. ~Awaited(frames, v)
      BY <3>1 DEF Awaited
    <3> QED
      BY <2>1, <3>2 DEF Pending
  <2> QED
    BY <2>1, <2>2, CoveredIsNotAbsent
<1> QED
  BY <1>1, <1>2, <1>3, PTL DEF ObservationSpec
=============================================================================
