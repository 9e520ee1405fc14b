-------------------------- MODULE Knowledge_proofs --------------------------
(***************************************************************************)
(* What recall finds and what a manifest of adapters says, for any number  *)
(* of processes, events, queries and adapters and every limit of a listing.*)
(*                                                                         *)
(* A recall cuts what it found up to four times, in two orders, and sorts  *)
(* it.  Whatever a cut takes away has Limit events in what was cut that    *)
(* are not older (Cut), all of them found by the query.  That LIKE finds   *)
(* what contains the query is shown by where its words end in the text.    *)
(* Who recalls in the workspace of who remembered is a matter of the       *)
(* state: once workspace.json is settled it never changes (SettledStays).  *)
(*                                                                         *)
(* Of the state a manifest needs only that adapters differ by id; the rest *)
(* is about the functions: sorting, summing, and what rounding loses.      *)
(***************************************************************************)
EXTENDS Knowledge, FiniteSetTheorems, SequenceTheorems, WellFoundedInduction, TLAPS

(***************************************************************************)
(* The invariant.                                                          *)
(***************************************************************************)
Env == [ws : Nat, step : {"create", "write", "ready"}, settled : BOOLEAN,
        adapter : AdapterId \cup {None}]

EnvTyped ==
    /\ ids \in Nat
    /\ workspace \in Nat \cup {None, Torn}
    /\ env \in [Proc -> Env \cup {None}]

LogTyped ==
    /\ clock \in Nat
    /\ IsFiniteSet(log)
    /\ \A e \in log : e.id \in Nat /\ e.at \in Nat /\ e.words \in Seq(Word)
    /\ \A e, f \in log : e.id = f.id => e = f

\* A workspace is created only where there is a database.
Created == workspace # None \/ (\E p \in Proc : Creating(p)) => database

\* Who started, and what was stored by one who started, after workspace.json
\* was there for good has the id that it has now.
SettledStays ==
    /\ \A p \in Proc : env[p] # None /\ env[p].settled => Settled /\ env[p].ws = workspace
    /\ \A e \in log : e.settled => Settled /\ e.ws = workspace

KnowledgeInv == EnvTyped /\ LogTyped /\ Created /\ SettledStays

(***************************************************************************)
(* Induction is stated for sets of numbers: a fact is proved for all by    *)
(* way of the set of those it holds for.                                   *)
(***************************************************************************)
\* Every nonempty set of natural numbers has a least element.
LEMMA LeastNumber ==
    ASSUME NEW T \in SUBSET Nat, T # {}
    PROVE  \E n \in T : \A m \in T : n <= m
<1> DEFINE Less == OpToRel(<, Nat)
<1>1. \A m, n \in Nat : m < n => <<m, n>> \in Less
  BY DEF OpToRel
<1>2. IsWellFoundedOn(Less, Nat)
  BY NatLessThanWellFounded, Zenon
<1> HIDE DEF Less
<1>3. PICK n \in T : \A m \in T : ~ (<<m, n>> \in Less)
  BY <1>2, WFMin
<1>4. \A m \in T : ~ (m < n)
  BY <1>1, <1>3
<1> QED
  BY <1>4

\* A set that holds 0 and the successor of each of its numbers holds all.
LEMMA AllNumbers ==
    ASSUME NEW S, 0 \in S, \A n \in Nat : n \in S => n + 1 \in S
    PROVE  \A n \in Nat : n \in S
<1>1. SUFFICES ASSUME Nat \ S # {} PROVE FALSE
  OBVIOUS
<1>2. PICK n \in Nat \ S : \A m \in Nat \ S : n <= m
  BY <1>1, LeastNumber
<1>3. n # 0 /\ n - 1 \in Nat
  BY <1>2
<1>4. n - 1 \in S
  BY <1>2, <1>3
<1> QED
  BY <1>2, <1>3, <1>4

(***************************************************************************)
(* Texts.                                                                  *)
(***************************************************************************)
\* LIKE finds what a text contains, if lower() of SQLite knows its letters: the
\* words of the query end one after the other.
LEMMA IncludedIsLike ==
    ASSUME NEW text \in Seq(Word), NEW query \in Seq(Word), Includes(text, query),
           \A i \in 1..Len(text) : AsciiLower[text[i]] = Lower[text[i]]
    PROVE  Like(text, query)
<1>1. Len(text) \in Nat /\ Len(query) \in Nat
  BY LenProperties
<1>2. PICK i \in 0..(Len(text) - Len(query)) :
        \A j \in 1..Len(query) : Lower[text[i + j]] = Lower[query[j]]
  BY DEF Includes
<1> DEFINE end == [k \in 0..Len(query) |-> i + k]
<1>3. end \in [0..Len(query) -> 0..Len(text)]
  BY <1>1
<1>4. ASSUME NEW k \in 1..Len(query)
      PROVE  /\ end[k] = end[k - 1] + 1 /\ end[k] > end[k - 1]
             /\ AsciiLower[text[end[k]]] = Lower[query[k]]
  <2>1. end[k] = i + k /\ end[k - 1] = i + (k - 1) /\ i + k \in 1..Len(text)
    BY <1>1
  <2> HIDE DEF end
  <2> QED
    BY <1>1, <1>2, <2>1
<1> HIDE DEF end
<1> QED
  BY <1>3, <1>4 DEF Like

\* What LIKE finds by a query without "_" and "%" contains the query.
LEMMA LikeIsIncluded ==
    ASSUME NEW text \in Seq(Word), NEW query \in Seq(Word), Like(text, query), Plain(query)
    PROVE  Includes(text, query)
<1>1. /\ Len(text) \in Nat /\ Len(query) \in Nat /\ DOMAIN query = 1..Len(query)
      /\ \A k \in 1..Len(text) : text[k] \in Word
      /\ \A k \in 1..Len(query) : query[k] \in Word
  BY LenProperties
<1>2. PICK end \in [0..Len(query) -> 0..Len(text)] : \A k \in 1..Len(query) :
        LET word == Lower[query[k]]
        IN  IF word = AnyText THEN end[k] > end[k - 1]
            ELSE /\ end[k] = end[k - 1] + 1
                 /\ word = AnyChar \/ AsciiLower[text[end[k]]] = word
  BY DEF Like
<1>3. \A k \in 1..Len(query) : /\ end[k] = end[k - 1] + 1
                               /\ AsciiLower[text[end[k]]] = Lower[query[k]]
  BY <1>1, <1>2 DEF Plain
<1>4. \A k \in 0..Len(query) : end[k] \in 0..Len(text)
  OBVIOUS
<1> DEFINE S == {k \in Nat : k <= Len(query) => end[k] = end[0] + k}
<1>5. 0 \in S
  BY <1>1, <1>4
<1>6. ASSUME NEW k \in Nat, k \in S
      PROVE  k + 1 \in S
  <2>1. SUFFICES ASSUME k + 1 <= Len(query)
                 PROVE  end[k + 1] = end[0] + (k + 1)
    OBVIOUS
  <2>2. k + 1 \in 1..Len(query) /\ (k + 1) - 1 = k /\ 0 \in 0..Len(query)
    BY <1>1, <2>1
  <2>3. end[k + 1] = end[k] + 1 /\ end[k] = end[0] + k /\ end[0] \in Int
    BY <1>1, <1>3, <1>4, <1>6, <2>1, <2>2
  <2> QED
    BY <2>3
<1>7. \A k \in Nat : k \in S
  <2> HIDE DEF S
  <2> QED
    BY <1>5, <1>6, AllNumbers
<1>8. \A k \in 0..Len(query) : end[k] = end[0] + k
  BY <1>1, <1>7
<1>9. end[0] \in 0..(Len(text) - Len(query))
  <2>1. 0 \in 0..Len(query) /\ Len(query) \in 0..Len(query)
    BY <1>1
  <2>2. /\ end[0] \in 0..Len(text) /\ end[Len(query)] \in 0..Len(text)
        /\ end[Len(query)] = end[0] + Len(query)
    BY <1>4, <1>8, <2>1
  <2> HIDE DEF S
  <2> QED
    BY <1>1, <2>2
<1>10. ASSUME NEW k \in 1..Len(query)
       PROVE  Lower[text[end[0] + k]] = Lower[query[k]]
  <2>1. /\ end[0] + k = end[k] /\ end[0] + k \in 1..Len(text)
        /\ AsciiLower[text[end[k]]] = Lower[query[k]]
    BY <1>1, <1>3, <1>4, <1>8, <1>9
  <2>2. text[end[k]] \in Word /\ query[k] \in Word
    BY <1>1, <2>1
  <2>3. \A v, w \in Word : AsciiLower[v] = Lower[w] => Lower[v] = Lower[w]
    BY KnowledgeAssumption
  <2> QED
    BY <2>1, <2>2, <2>3
<1> QED
  BY <1>9, <1>10 DEF Includes

\* The tokens of a query are words of it.
LEMMA TokensTyped ==
    ASSUME NEW query \in Query
    PROVE  /\ query \in Seq(Word)
           /\ \A w \in Tokens(query) : \E i \in DOMAIN query : w = query[i] /\ <<w>> \in Seq(Word)
<1>1. query \in Seq(Word)
  BY KnowledgeAssumption
<1>2. \A i \in DOMAIN query : query[i] \in Word
  BY <1>1
<1>3. \A w \in Word : <<w>> \in Seq(Word)
  OBVIOUS
<1>4. \A w \in Tokens(query) : \E i \in DOMAIN query : w = query[i]
  BY DEF Tokens, ToSet
<1> QED
  BY <1>1, <1>2, <1>3, <1>4

\* What is meant is found, if lower() of SQLite knows the letters of the event.
LEMMA MeantIsFound ==
    ASSUME NEW query \in Query, NEW e, e.words \in Seq(Word), AsciiCase(e), Meant(query, e)
    PROVE  Found(query, e)
<1>1. \A i \in 1..Len(e.words) : AsciiLower[e.words[i]] = Lower[e.words[i]]
  <2>1. DOMAIN e.words = 1..Len(e.words)
    BY LenProperties
  <2> QED
    BY <2>1 DEF AsciiCase
<1>2. \A q \in Seq(Word) : Includes(e.words, q) => Like(e.words, q)
  BY <1>1, IncludedIsLike
<1> QED
  BY <1>2, TokensTyped DEF Meant, Found

\* What a query without "_" and "%" finds is meant.
LEMMA FoundIsMeant ==
    ASSUME NEW query \in Query, NEW e, e.words \in Seq(Word), Plain(query), Found(query, e)
    PROVE  Meant(query, e)
<1>1. \A q \in Seq(Word) : Like(e.words, q) /\ Plain(q) => Includes(e.words, q)
  BY LikeIsIncluded
<1>2. ASSUME NEW w \in Tokens(query)
      PROVE  Plain(<<w>>) /\ <<w>> \in Seq(Word)
  <2>1. PICK i \in DOMAIN query : w = query[i] /\ <<w>> \in Seq(Word)
    BY <1>2, TokensTyped
  <2>2. Lower[w] \notin {AnyChar, AnyText}
    BY <2>1 DEF Plain
  <2>3. \A j \in DOMAIN <<w>> : <<w>>[j] = w
    OBVIOUS
  <2> QED
    BY <2>1, <2>2, <2>3 DEF Plain
<1> QED
  BY <1>1, <1>2, TokensTyped DEF Meant, Found

(***************************************************************************)
(* Sets of events.                                                         *)
(***************************************************************************)
\* Fewer elements in a smaller set.
LEMMA Fewer ==
    ASSUME NEW S, IsFiniteSet(S), NEW T, T \subseteq S
    PROVE  /\ Cardinality(T) \in Nat /\ Cardinality(S) \in Nat
           /\ IsFiniteSet(T) /\ Cardinality(T) <= Cardinality(S)
  BY FS_Subset, FS_CardinalityType

\* What is cut from a listing, in either order, has Limit others in it that are
\* not older.
LEMMA Cut ==
    ASSUME NEW M, IsFiniteSet(M), \A f \in M : f.at \in Nat /\ f.id \in Nat,
           NEW S, S \subseteq M, NEW e \in S,
           e \notin Listing(Limit, S) \/ e \notin Newest(Limit, S)
    PROVE  Buried(e, M)
<1> DEFINE later == {f \in M \ {e} : f.at >= e.at}
           listed == {f \in S : f.at > e.at \/ (f.at = e.at /\ f.id > e.id)}
           newest == {f \in S : f.at > e.at \/ (f.at = e.at /\ f.id < e.id)}
<1>1. listed \subseteq later /\ newest \subseteq later /\ later \subseteq M
  OBVIOUS
<1>2. ~ (Cardinality(listed) < Limit) \/ ~ (Cardinality(newest) < Limit)
  BY DEF Listing, Newest
<1> HIDE DEF later, listed, newest
<1>3. IsFiniteSet(later)
  BY <1>1, Fewer
<1>4. /\ Cardinality(later) \in Nat /\ Cardinality(listed) \in Nat /\ Cardinality(newest) \in Nat
      /\ Cardinality(listed) <= Cardinality(later)
      /\ Cardinality(newest) <= Cardinality(later)
  BY <1>1, <1>3, Fewer
<1>5. Limit \in Nat
  BY KnowledgeAssumption
<1>6. Cardinality(later) >= Limit
  BY <1>2, <1>4, <1>5
<1> QED
  BY <1>6 DEF Buried, later

\* Events of one type and workspace that a query finds.
Matching(type, ws, query) == {e \in Listed(type, ws) : Found(query, e)}

\* What a type yields was found.
LEMMA CandidatesMatch ==
    ASSUME NEW type, NEW ws, NEW query
    PROVE  Candidates(type, ws, query) \subseteq Matching(type, ws, query)
  BY DEF Candidates, Search, Listing, Newest, Listed, Matching, Found

\* What a query finds is a candidate, or one of two cuts found Limit others.
LEMMA CandidateOrBuried ==
    ASSUME LogTyped, NEW type, NEW ws, NEW query, NEW M \in SUBSET log,
           Matching(type, ws, query) \subseteq M,
           NEW e \in Matching(type, ws, query)
    PROVE  e \in Candidates(type, ws, query) \/ Buried(e, M)
<1> DEFINE found == UNION ({Search(type, ws, query)} \cup
                           {Search(type, ws, <<w>>) : w \in Tokens(query)})
           match(q) == {f \in Listed(type, ws) : Like(f.words, q)}
<1>1. PICK q : /\ q = query \/ \E w \in Tokens(query) : q = <<w>>
               /\ e \in match(q)
  BY DEF Matching, Found
<1>2. match(q) \subseteq M
  BY <1>1 DEF Matching, Found
<1>3. Search(type, ws, q) = Listing(Limit, match(q)) /\ Search(type, ws, q) \subseteq found
  <2>1. Search(type, ws, q) = Listing(Limit, match(q))
    BY DEF Search
  <2>2. Search(type, ws, query) \subseteq found
    OBVIOUS
  <2>3. \A w \in Tokens(query) : Search(type, ws, <<w>>) \subseteq found
    OBVIOUS
  <2> HIDE DEF found, match
  <2> QED
    BY <1>1, <2>1, <2>2, <2>3
<1>4. IsFiniteSet(M) /\ \A f \in M : f.at \in Nat /\ f.id \in Nat
  BY Fewer DEF LogTyped
<1>5. CASE e \notin found
  <2>1. e \notin Listing(Limit, match(q))
    BY <1>3, <1>5
  <2> HIDE DEF match
  <2> QED
    BY <1>1, <1>2, <1>4, <2>1, Cut
<1>6. CASE e \in found
  <2>1. found \subseteq M
    BY DEF Search, Listing, Matching, Found
  <2>2. Candidates(type, ws, query) = Newest(Limit, found)
    BY DEF Candidates
  <2> HIDE DEF found
  <2> QED
    BY <1>4, <1>6, <2>1, <2>2, Cut
<1> QED
  BY <1>5, <1>6

\* The types a recall of a kind goes through.
TypesOf(kind) == IF kind = None THEN Kinds ELSE {kind}
MatchingBy(kind, ws, query) == UNION {Matching(type, ws, query) : type \in TypesOf(kind)}

\* What is recalled was found.
LEMMA RecalledMatch ==
    ASSUME NEW kind, NEW ws, NEW query
    PROVE  RecallByType(kind, ws, query) \subseteq MatchingBy(kind, ws, query)
<1>1. CASE kind # None
  BY <1>1, CandidatesMatch DEF RecallByType, MatchingBy, TypesOf
<1>2. CASE kind = None
  <2>1. RecallByType(kind, ws, query) \subseteq UNION {Candidates(type, ws, query) : type \in Kinds}
    BY <1>2 DEF RecallByType, Newest
  <2> QED
    BY <1>2, <2>1, CandidatesMatch DEF MatchingBy, TypesOf
<1> QED
  BY <1>1, <1>2

\* What a query finds is recalled, or one of the cuts found Limit others.
LEMMA RecalledOrBuried ==
    ASSUME LogTyped, NEW kind, NEW ws, NEW query, NEW e \in MatchingBy(kind, ws, query)
    PROVE  e \in RecallByType(kind, ws, query) \/ Buried(e, MatchingBy(kind, ws, query))
<1> DEFINE M == MatchingBy(kind, ws, query)
           found == UNION {Candidates(type, ws, query) : type \in Kinds}
<1>1. PICK type \in TypesOf(kind) : e \in Matching(type, ws, query)
  BY DEF MatchingBy
<1>2. Matching(type, ws, query) \subseteq M /\ M \in SUBSET log
  BY DEF MatchingBy, Matching, Listed
<1>3. e \in Candidates(type, ws, query) \/ Buried(e, M)
  <2> HIDE DEF M
  <2> QED
    BY <1>1, <1>2, CandidateOrBuried
<1>4. CASE kind # None
  BY <1>3, <1>4 DEF RecallByType, TypesOf
<1>5. CASE kind = None /\ e \in Candidates(type, ws, query)
  <2>1. e \in found /\ RecallByType(kind, ws, query) = Newest(Limit, found)
    BY <1>5 DEF RecallByType, TypesOf
  <2>2. found \subseteq M
    BY <1>5, CandidatesMatch DEF MatchingBy, TypesOf
  <2>3. IsFiniteSet(M) /\ \A f \in M : f.at \in Nat /\ f.id \in Nat
    BY <1>2, Fewer DEF LogTyped
  <2> HIDE DEF found, M
  <2> QED
    BY <2>1, <2>2, <2>3, Cut DEF M
<1> QED
  BY <1>3, <1>4, <1>5

(***************************************************************************)
(* Ranks.                                                                  *)
(***************************************************************************)
\* A score is a number.
LEMMA ScoreTyped ==
    ASSUME NEW e, NEW query \in Query
    PROVE  Score(e, query) \in Nat
<1> DEFINE matches == {i \in DOMAIN query : Includes(e.words, <<query[i]>>)}
<1>1. Len(query) \in Nat /\ DOMAIN query = 1..Len(query)
  BY KnowledgeAssumption
<1>2. IsFiniteSet(1..Len(query))
  BY <1>1, FS_Interval
<1>3. Cardinality(matches) \in Nat
  BY <1>1, <1>2, Fewer
<1> HIDE DEF matches
<1>4. Score(e, query) =
        (IF query # <<>> /\ Includes(e.words, query) THEN 50 ELSE 10 * Cardinality(matches))
        + (CASE e.type = "memory" -> 0 [] e.type = "decision" -> 8 [] OTHER -> 4)
  BY DEF Score, matches
<1> QED
  BY <1>3, <1>4

\* R orders S.
Orders(R, S) ==
    /\ \A e \in S : <<e, e>> \notin R
    /\ \A e, f, g \in S : <<e, f>> \in R /\ <<f, g>> \in R => <<e, g>> \in R
    /\ \A e, f \in S : e # f => <<e, f>> \in R \/ <<f, e>> \in R

\* Every event of a finite set has a rank of its own, and every rank is taken.
LEMMA Ranks ==
    ASSUME NEW S, IsFiniteSet(S), NEW R, Orders(R, S)
    PROVE  LET below(e) == {f \in S : <<f, e>> \in R}
           IN  /\ \A k \in 1..Cardinality(S) : \E e \in S : Cardinality(below(e)) = k - 1
               /\ \A e \in S : \E k \in 1..Cardinality(S) : Cardinality(below(e)) = k - 1
               /\ \A e, f \in S : Cardinality(below(e)) = Cardinality(below(f)) => e = f
               /\ \A e, f \in S : <<e, f>> \in R => Cardinality(below(e)) < Cardinality(below(f))
<1> DEFINE below(e) == {f \in S : <<f, e>> \in R}
           n == Cardinality(S)
           rank == [e \in S |-> Cardinality(below(e)) + 1]
<1>1. n \in Nat
  BY FS_CardinalityType
<1>2. \A e \in S : below(e) \subseteq S /\ IsFiniteSet(below(e)) /\ Cardinality(below(e)) \in Nat
  BY Fewer
<1>3. \A e \in S : Cardinality(below(e)) < n
  <2> SUFFICES ASSUME NEW e \in S PROVE Cardinality(below(e)) < n
    OBVIOUS
  <2>1. Cardinality(below(e)) <= n /\ (n = Cardinality(below(e)) => S = below(e))
    BY <1>2, FS_Subset
  <2>2. e \notin below(e)
    BY DEF Orders
  <2> HIDE DEF below, n
  <2> QED
    BY <1>1, <1>2, <2>1, <2>2
<1>4. ASSUME NEW e \in S, NEW f \in S, <<e, f>> \in R
      PROVE  Cardinality(below(e)) < Cardinality(below(f))
  <2>1. below(e) \subseteq below(f) /\ e \in below(f) /\ e \notin below(e)
    BY <1>4 DEF Orders
  <2>2. /\ Cardinality(below(e)) <= Cardinality(below(f))
        /\ Cardinality(below(f)) = Cardinality(below(e)) => below(f) = below(e)
    <3> HIDE DEF below
    <3> QED
      BY <1>2, <2>1, FS_Subset
  <2> HIDE DEF below
  <2> QED
    BY <1>2, <2>1, <2>2
<1>5. rank \in [S -> 1..n]
  <2> HIDE DEF below, n
  <2> QED
    BY <1>1, <1>2, <1>3
<1>6. ASSUME NEW e \in S, NEW f \in S, rank[e] = rank[f]
      PROVE  e = f
  <2>1. Cardinality(below(e)) = Cardinality(below(f))
    <3> HIDE DEF below
    <3> QED
      BY <1>2, <1>6
  <2>2. ~ (<<e, f>> \in R) /\ ~ (<<f, e>> \in R)
    <3> HIDE DEF below
    <3> QED
      BY <1>2, <1>4, <2>1
  <2> QED
    BY <2>2 DEF Orders
<1>7. rank \in Injection(S, 1..n)
  <2> HIDE DEF rank
  <2> QED
    BY <1>5, <1>6 DEF Injection, IsInjective
<1>8. IsFiniteSet(1..n) /\ Cardinality(1..n) = n
  <2> HIDE DEF n
  <2> QED
    BY <1>1, FS_Interval
<1>9. rank \in Surjection(S, 1..n)
  <2> HIDE DEF rank
  <2> QED
    BY <1>7, <1>8, FS_Injection DEF n
<1>10. ASSUME NEW k \in 1..n
       PROVE  \E e \in S : rank[e] = k
  <2> HIDE DEF rank
  <2> QED
    BY <1>9 DEF Surjection
<1>11. ASSUME NEW k \in 1..n
       PROVE  \E e \in S : Cardinality(below(e)) = k - 1
  <2>1. PICK e \in S : rank[e] = k
    BY <1>10
  <2> HIDE DEF below, n
  <2> QED
    BY <1>1, <1>2, <2>1
<1>12. ASSUME NEW e \in S
       PROVE  \E k \in 1..n : Cardinality(below(e)) = k - 1
  <2>1. rank[e] \in 1..n /\ rank[e] = Cardinality(below(e)) + 1
    <3> HIDE DEF below, n
    <3> QED
      BY <1>5
  <2> HIDE DEF below, n, rank
  <2> QED
    BY <1>1, <1>2, <2>1
<1>13. ASSUME NEW e \in S, NEW f \in S, Cardinality(below(e)) = Cardinality(below(f))
       PROVE  e = f
  <2>1. rank[e] = rank[f]
    <3> HIDE DEF below
    <3> QED
      BY <1>13
  <2> HIDE DEF rank
  <2> QED
    BY <1>6, <2>1
<1> QED
  BY <1>4, <1>11, <1>12, <1>13

\* s sorts S by the order R: what Sorted does by an operator.
SortsBy(s, S, R) ==
    LET rank(e) == Cardinality({f \in S : <<f, e>> \in R})
    IN  /\ s = [k \in 1..Cardinality(S) |-> s[k]]
        /\ \A k \in 1..Cardinality(S) :
             (\E e \in S : rank(e) = k - 1) => s[k] \in S /\ rank(s[k]) = k - 1

\* Sorting loses nothing, repeats nothing, and puts in order.
LEMMA SortedFacts ==
    ASSUME NEW S, IsFiniteSet(S), NEW R, Orders(R, S), NEW s, SortsBy(s, S, R)
    PROVE  /\ Cardinality(S) \in Nat
           /\ s \in [1..Cardinality(S) -> S]
           /\ Len(s) = Cardinality(S)
           /\ \A e \in S : \E k \in 1..Cardinality(S) : s[k] = e
           /\ \A k, m \in 1..Cardinality(S) : k < m => <<s[k], s[m]>> \in R
<1> DEFINE n == Cardinality(S)
           below(e) == {f \in S : <<f, e>> \in R}
<1>1. n \in Nat
  BY FS_CardinalityType
<1>2. /\ \A k \in 1..n : \E e \in S : Cardinality(below(e)) = k - 1
      /\ \A e \in S : \E k \in 1..n : Cardinality(below(e)) = k - 1
      /\ \A e, f \in S : Cardinality(below(e)) = Cardinality(below(f)) => e = f
      /\ \A e, f \in S : <<e, f>> \in R => Cardinality(below(e)) < Cardinality(below(f))
  BY Ranks, ZenonT(30)
<1>3. /\ s = [k \in 1..n |-> s[k]]
      /\ \A k \in 1..n : (\E e \in S : Cardinality(below(e)) = k - 1) =>
                          s[k] \in S /\ Cardinality(below(s[k])) = k - 1
  BY DEF SortsBy
<1> HIDE DEF below, n
<1>4. \A k \in 1..n : s[k] \in S /\ Cardinality(below(s[k])) = k - 1
  BY <1>2, <1>3
<1>5. s \in [1..n -> S]
  BY <1>3, <1>4
<1>6. Len(s) = n
  BY <1>1, <1>5, SeqDef, LenProperties
<1>7. ASSUME NEW e \in S
      PROVE  \E k \in 1..n : s[k] = e
  <2>1. PICK k \in 1..n : Cardinality(below(e)) = k - 1
    BY <1>2
  <2> QED
    BY <1>2, <1>4, <2>1
<1>8. ASSUME NEW k \in 1..n, NEW m \in 1..n, k < m
      PROVE  <<s[k], s[m]>> \in R
  <2>1. /\ s[k] \in S /\ s[m] \in S
        /\ Cardinality(below(s[k])) = k - 1 /\ Cardinality(below(s[m])) = m - 1
    BY <1>4
  <2>2. k - 1 < m - 1 /\ ~ (m - 1 < k - 1) /\ k - 1 # m - 1
    BY <1>8
  <2>3. s[k] # s[m] /\ ~ (<<s[m], s[k]>> \in R)
    BY <1>2, <2>1, <2>2
  <2> QED
    BY <2>1, <2>3 DEF Orders
<1> QED
  BY <1>1, <1>5, <1>6, <1>7, <1>8 DEF n

\* A ranked recall holds what was recalled, each event once.
LEMMA RankedFacts ==
    ASSUME LogTyped, NEW kind, NEW ws, NEW query \in Query
    PROVE  /\ ToSet(RankedRecall(kind, ws, query)) = RecallByType(kind, ws, query)
           /\ Len(RankedRecall(kind, ws, query)) = Cardinality(RecallByType(kind, ws, query))
<1> DEFINE S == RecallByType(kind, ws, query)
           before(e, f) == \/ Score(e, query) > Score(f, query)
                           \/ /\ Score(e, query) = Score(f, query)
                              /\ e.at > f.at \/ (e.at = f.at /\ e.id < f.id)
           R == {pair \in S \X S : before(pair[1], pair[2])}
           ranked == RankedRecall(kind, ws, query)
<1>1. S \subseteq log
  BY RecalledMatch DEF MatchingBy, Matching, Listed
<1>2. IsFiniteSet(S)
  <2> HIDE DEF S
  <2> QED
    BY <1>1, Fewer DEF LogTyped
<1>3. /\ \A e \in S : Score(e, query) \in Nat /\ e.at \in Nat /\ e.id \in Nat
      /\ \A e, f \in S : e.id = f.id => e = f
  BY <1>1, ScoreTyped DEF LogTyped
<1> HIDE DEF S
<1>4. /\ \A e \in S : ~ before(e, e)
      /\ \A e, f, g \in S : before(e, f) /\ before(f, g) => before(e, g)
      /\ \A e, f \in S : e # f => before(e, f) \/ before(f, e)
  BY <1>3
<1>5. ranked = [k \in 1..Cardinality(S) |->
                  CHOOSE e \in S : Cardinality({f \in S : before(f, e)}) = k - 1]
  BY DEF RankedRecall, Sorted, S, before
<1> HIDE DEF before
<1>6. \A e, f \in S : <<e, f>> \in R <=> before(e, f)
  OBVIOUS
<1> HIDE DEF R
<1>7. SortsBy(ranked, S, R)
  <2>1. \A e \in S : {f \in S : before(f, e)} = {f \in S : <<f, e>> \in R}
    BY <1>6
  <2>2. /\ ranked = [k \in 1..Cardinality(S) |-> ranked[k]]
        /\ \A k \in 1..Cardinality(S) :
             (\E e \in S : Cardinality({f \in S : before(f, e)}) = k - 1) =>
                /\ ranked[k] \in S
                /\ Cardinality({f \in S : before(f, ranked[k])}) = k - 1
    BY <1>5
  <2> HIDE DEF ranked
  <2> QED
    BY <2>1, <2>2 DEF SortsBy
<1> HIDE DEF ranked
<1>8. Orders(R, S)
  BY <1>4, <1>6 DEF Orders
<1>9. /\ ranked \in [1..Cardinality(S) -> S] /\ Len(ranked) = Cardinality(S)
      /\ \A e \in S : \E k \in 1..Cardinality(S) : ranked[k] = e
  BY <1>2, <1>7, <1>8, SortedFacts
<1>10. ToSet(ranked) = S
  BY <1>9 DEF ToSet
<1> QED
  BY <1>9, <1>10 DEF S, ranked

(***************************************************************************)
(* Workspaces.                                                             *)
(***************************************************************************)
\* What a command or server does at its work: it keeps its workspace id and
\* may store an event under it.
Stores(p) ==
    /\ clock' = clock + 1
    /\ \E e : /\ log' = log \cup {e}
              /\ e.id \in Nat /\ (\A f \in log : f.id # e.id)
              /\ e.at \in {clock, clock'} /\ e.words \in Seq(Word)
              /\ e.ws = env[p].ws /\ e.settled = env[p].settled

Works(p) ==
    /\ Ready(p)
    /\ database => database'
    /\ UNCHANGED <<workspace, ids>>
    /\ \/ env' = env
       \/ env' = [env EXCEPT ![p] = None]
       \/ \E name \in AdapterId : env' = [env EXCEPT ![p].adapter = name]
    /\ \/ log' = log /\ (clock' = clock \/ clock' = clock + 1)
       \/ Stores(p)

\* An append is work.
LEMMA AppendWorks ==
    ASSUME NEW p \in Proc, NEW type, NEW words \in Seq(Word), AppendEvent(p, type, words)
    PROVE  Works(p)
<1>1. PICK at \in {clock, clock'}, id \in 1..MaxClock :
        /\ \A e \in log : e.id # id
        /\ log' = log \cup {[id |-> id, at |-> at, ws |-> env[p].ws, type |-> type,
                             words |-> words, settled |-> env[p].settled]}
  BY DEF AppendEvent
<1> DEFINE e == [id |-> id, at |-> at, ws |-> env[p].ws, type |-> type,
                 words |-> words, settled |-> env[p].settled]
<1>2. /\ Ready(p) /\ database' /\ UNCHANGED <<workspace, ids>>
      /\ env' = env \/ env' = [env EXCEPT ![p] = None]
      /\ clock' = clock + 1
  BY DEF AppendEvent, Command, Change, Done
<1>3. id \in Nat
  BY KnowledgeAssumption
<1>4. /\ e.id \in Nat /\ (\A f \in log : f.id # e.id)
      /\ e.at \in {clock, clock'} /\ e.words \in Seq(Word)
      /\ e.ws = env[p].ws /\ e.settled = env[p].settled
  BY <1>1, <1>3
<1>5. log' = log \cup {e}
  BY <1>1
<1> HIDE DEF e
<1>6. Stores(p)
  BY <1>2, <1>4, <1>5 DEF Stores
<1> QED
  BY <1>2, <1>6 DEF Works

\* So are the commands that only look, and those about adapters.
LEMMA OthersWork ==
    ASSUME NEW p \in Proc,
           \/ Look(p)
           \/ \E id, name \in AdapterId : Register(p, id, name)
           \/ \E name \in AdapterId : Doc2Lora(p, name)
           \/ GenerationFails(p) \/ Generated(p) \/ IndexProject(p)
           \/ \E all \in Listings : SelectForProject(p, all)
    PROVE  Works(p)
<1>1. Command(p) => Ready(p) /\ (database => database') /\ UNCHANGED <<workspace, ids>>
  BY DEF Command
<1>2. Done(p) = env \/ Done(p) = [env EXCEPT ![p] = None]
  BY DEF Done
<1>3. CASE Look(p) \/ IndexProject(p) \/ \E all \in Listings : SelectForProject(p, all)
  <2>1. Command(p) /\ env' = Done(p) /\ UNCHANGED <<clock, log>>
    BY <1>3 DEF Look, IndexProject, SelectForProject
  <2> QED
    BY <1>1, <1>2, <2>1 DEF Works
<1>4. CASE \E id, name \in AdapterId : Register(p, id, name)
  <2>1. Command(p) /\ env' = Done(p) /\ log' = log /\ clock' = clock + 1
    BY <1>4 DEF Register, Change
  <2> QED
    BY <1>1, <1>2, <2>1 DEF Works
<1>5. CASE \E name \in AdapterId : Doc2Lora(p, name)
  <2>1. PICK name \in AdapterId : Command(p) /\ env' = [env EXCEPT ![p].adapter = name]
                                   /\ UNCHANGED <<clock, log>>
    BY <1>5 DEF Doc2Lora
  <2> QED
    BY <1>1, <2>1 DEF Works
<1>6. CASE GenerationFails(p) \/ Generated(p)
  <2>1. /\ Ready(p) /\ env' = Done(p) /\ UNCHANGED <<database, workspace, ids, log>>
        /\ clock' = clock \/ clock' = clock + 1
    BY <1>6 DEF GenerationFails, Generated, Change
  <2> QED
    BY <1>2, <2>1 DEF Works
<1> QED
  BY <1>3, <1>4, <1>5, <1>6

\* What a process may do, by the operators that the actions share.
Acts(p) ==
    \/ Load(p) \/ OpenWorkspace(p) \/ WriteWorkspace(p) \/ Exit(p)
    \/ \E type, words : words \in Seq(Word) /\ AppendEvent(p, type, words)
    \/ Look(p)
    \/ \E id, name \in AdapterId : Register(p, id, name)
    \/ \E name \in AdapterId : Doc2Lora(p, name)
    \/ GenerationFails(p) \/ Generated(p) \/ IndexProject(p)
    \/ \E all \in Listings : SelectForProject(p, all)

\* A step is one of them.
LEMMA StepsAct ==
    ASSUME LogTyped, Next
    PROVE  \E p \in Proc : Acts(p)
<1>1. PICK p \in Proc :
        \/ Load(p) \/ OpenWorkspace(p) \/ WriteWorkspace(p) \/ Exit(p)
        \/ \E type, words : /\ words \in Text \/ \E e \in log : words = e.words
                            /\ AppendEvent(p, type, words)
        \/ Look(p)
        \/ \E id, name \in AdapterId : Register(p, id, name)
        \/ \E name \in AdapterId : Doc2Lora(p, name)
        \/ GenerationFails(p) \/ Generated(p) \/ IndexProject(p)
        \/ \E all \in Listings : SelectForProject(p, all)
  BY DEF Next, InitStore, Recall, ShowContext, Dashboard, RecallPosted, SearchTool, Send,
         Remember, RememberPosted, RememberTool, RememberMessage, Select, Export
<1>2. \A words : words \in Text \/ (\E e \in log : words = e.words) => words \in Seq(Word)
  BY KnowledgeAssumption DEF LogTyped
<1> QED
  BY <1>1, <1>2 DEF Acts

\* A step opens workspace.json, fills it, starts a process, or is the end of one
\* or its work.
LEMMA StepsOf ==
    ASSUME LogTyped, Next
    PROVE  \E p \in Proc : \/ Load(p) \/ OpenWorkspace(p) \/ WriteWorkspace(p)
                           \/ Exit(p) \/ Works(p)
  BY StepsAct, AppendWorks, OthersWork DEF Acts

\* A process reads workspace.json, or begins to create it.
LEMMA Load_Inv ==
    ASSUME KnowledgeInv, NEW p \in Proc, Load(p)
    PROVE  KnowledgeInv'
<1> DEFINE missing == database /\ workspace = None
           ws == IF ~database THEN Client ELSE IF missing THEN ids + 1 ELSE workspace
           step == IF missing THEN "create" ELSE "ready"
           new == Environment(ws, step)
<1>1. /\ env' = [env EXCEPT ![p] = new]
      /\ ids' = IF missing THEN ids + 1 ELSE ids
      /\ UNCHANGED <<clock, database, workspace, log>>
  BY DEF Load
<1>2. ws \in Nat /\ (Settled => ws = workspace /\ ~missing)
  <2>1. /\ workspace \in Nat \cup {None, Torn} /\ ids \in Nat
        /\ workspace # None => database
        /\ database => workspace # Torn
        /\ Settled => workspace # None
    BY DEF KnowledgeInv, EnvTyped, Created, Settled, Load
  <2> QED
    BY <2>1 DEF Client
<1>3. new \in Env /\ new.ws = ws /\ new.step = step /\ new.settled = Settled
  BY <1>2 DEF Environment, Env, Settled
<1>4. step = "create" => missing
  OBVIOUS
<1> HIDE DEF missing, ws, new
<1>5. EnvTyped'
  BY <1>1, <1>3 DEF KnowledgeInv, EnvTyped, missing
<1>6. \A q \in Proc : env'[q] = IF q = p THEN new ELSE env[q]
  BY <1>1 DEF KnowledgeInv, EnvTyped
<1>7. Settled => Settled'
  BY <1>1, <1>2, <1>3, <1>6 DEF Settled, Creating
<1>8. Created'
  BY <1>1, <1>3, <1>6 DEF KnowledgeInv, Created, Creating, missing
<1>9. SettledStays'
  BY <1>1, <1>2, <1>3, <1>6, <1>7 DEF KnowledgeInv, SettledStays
<1> QED
  BY <1>1, <1>5, <1>8, <1>9 DEF KnowledgeInv, LogTyped

\* The file is emptied, or filled: nothing was settled before.
LEMMA WriteWorkspace_Inv ==
    ASSUME KnowledgeInv, NEW p \in Proc, OpenWorkspace(p) \/ WriteWorkspace(p)
    PROVE  KnowledgeInv'
<1>1. /\ env[p] # None /\ env[p] \in Env /\ Creating(p)
      /\ UNCHANGED <<clock, database, ids, log>>
  BY DEF OpenWorkspace, WriteWorkspace, Creating, KnowledgeInv, EnvTyped
<1>2. database /\ ~ Settled
  BY <1>1 DEF KnowledgeInv, Created, Settled
<1>3. /\ workspace' \in Nat \cup {Torn}
      /\ \E step \in {"write", "ready"} : env' = [env EXCEPT ![p].step = step]
  BY <1>1 DEF OpenWorkspace, WriteWorkspace, Env
<1>4. PICK step \in {"write", "ready"} : env' = [env EXCEPT ![p].step = step]
  BY <1>3
<1> DEFINE new == [env[p] EXCEPT !.step = step]
<1>5. new \in Env /\ new.settled = env[p].settled
  BY <1>1 DEF Env
<1>6. env' = [env EXCEPT ![p] = new]
  BY <1>4
<1> HIDE DEF new
<1>7. EnvTyped'
  BY <1>1, <1>3, <1>5, <1>6 DEF KnowledgeInv, EnvTyped
<1>8. SettledStays'
  <2>1. \A q \in Proc : env[q] # None => ~ env[q].settled
    BY <1>2 DEF KnowledgeInv, SettledStays
  <2>2. \A q \in Proc : env'[q] # None => ~ env'[q].settled
    BY <1>1, <1>5, <1>6, <2>1 DEF KnowledgeInv, EnvTyped
  <2> QED
    BY <1>1, <1>2, <2>2 DEF KnowledgeInv, SettledStays
<1> QED
  BY <1>1, <1>2, <1>7, <1>8 DEF KnowledgeInv, LogTyped, Created

\* Whoever goes on keeps its environment, but for an adapter.
LEMMA Works_Inv ==
    ASSUME KnowledgeInv, NEW p \in Proc, Works(p) \/ Exit(p)
    PROVE  KnowledgeInv'
<1>1. UNCHANGED <<workspace, ids>> /\ (database => database')
  BY DEF Works, Exit
<1>2. ASSUME NEW q \in Proc
      PROVE  \/ env'[q] = None
             \/ /\ env[q] # None /\ env'[q] \in Env
                /\ env'[q].ws = env[q].ws /\ env'[q].settled = env[q].settled
                /\ env'[q].step = env[q].step
  <2>1. env[q] \in Env \cup {None}
    BY DEF KnowledgeInv, EnvTyped
  <2>2. env[p] \in Env /\ env[p] # None
    BY DEF Works, Exit, Ready, KnowledgeInv, EnvTyped
  <2>3. ASSUME NEW name \in AdapterId
        PROVE  LET new == [env[p] EXCEPT !.adapter = name]
               IN  /\ new \in Env
                   /\ new.ws = env[p].ws /\ new.settled = env[p].settled
                   /\ new.step = env[p].step
    BY <2>2 DEF Env
  <2>4. CASE env' = env \/ env' = [env EXCEPT ![p] = None]
    BY <2>1, <2>4 DEF KnowledgeInv, EnvTyped
  <2>5. ASSUME NEW name \in AdapterId, env' = [env EXCEPT ![p].adapter = name]
        PROVE  \/ env'[q] = None
               \/ /\ env[q] # None /\ env'[q] \in Env
                  /\ env'[q].ws = env[q].ws /\ env'[q].settled = env[q].settled
                  /\ env'[q].step = env[q].step
    <3>1. env'[q] = IF q = p THEN [env[p] EXCEPT !.adapter = name] ELSE env[q]
      BY <2>5 DEF KnowledgeInv, EnvTyped
    <3> QED
      BY <2>1, <2>2, <2>3, <3>1
  <2> QED
    BY <2>4, <2>5 DEF Works, Exit
<1>3. EnvTyped'
  <2>1. env' = [q \in Proc |-> env'[q]]
    BY DEF Works, Exit, KnowledgeInv, EnvTyped
  <2>2. \A q \in Proc : env'[q] \in Env \cup {None}
    BY <1>2
  <2> QED
    BY <1>1, <2>1, <2>2 DEF KnowledgeInv, EnvTyped
<1>4. Settled => Settled'
  BY <1>1, <1>2 DEF Settled, Creating
<1>5. Created'
  BY <1>1, <1>2 DEF KnowledgeInv, Created, Creating
<1>6. CASE log' = log /\ (clock' = clock \/ clock' = clock + 1)
  <2>1. LogTyped'
    BY <1>6 DEF KnowledgeInv, LogTyped
  <2>2. SettledStays'
    BY <1>1, <1>2, <1>4, <1>6 DEF KnowledgeInv, SettledStays
  <2> QED
    BY <1>3, <1>5, <2>1, <2>2 DEF KnowledgeInv
<1>7. ASSUME clock' = clock + 1, Ready(p),
             NEW e, log' = log \cup {e}, e.id \in Nat, \A f \in log : f.id # e.id,
             e.at \in {clock, clock'}, e.words \in Seq(Word),
             e.ws = env[p].ws, e.settled = env[p].settled
      PROVE  KnowledgeInv'
  <2>1. LogTyped'
    <3>1. IsFiniteSet(log')
      BY <1>7, FS_AddElement DEF KnowledgeInv, LogTyped
    <3>2. clock' \in Nat /\ e.at \in Nat
      BY <1>7 DEF KnowledgeInv, LogTyped
    <3> QED
      BY <1>7, <3>1, <3>2 DEF KnowledgeInv, LogTyped
  <2>2. SettledStays'
    BY <1>1, <1>2, <1>4, <1>7 DEF KnowledgeInv, SettledStays, Ready
  <2> QED
    BY <1>3, <1>5, <2>1, <2>2 DEF KnowledgeInv
<1> QED
  BY <1>6, <1>7 DEF Works, Stores, Exit

\* Every step keeps the invariant.
LEMMA KnowledgeInv_Step == KnowledgeInv /\ [Next]_vars => KnowledgeInv'
<1> SUFFICES ASSUME KnowledgeInv, [Next]_vars
             PROVE  KnowledgeInv'
  OBVIOUS
<1>1. CASE Next
  BY <1>1, StepsOf, Load_Inv, WriteWorkspace_Inv, Works_Inv DEF KnowledgeInv
<1>2. CASE UNCHANGED vars
  BY <1>2 DEF vars, KnowledgeInv, EnvTyped, LogTyped, Created, SettledStays, Settled, Creating
<1> QED
  BY <1>1, <1>2

\* An empty checkout satisfies it.
LEMMA KnowledgeInv_Init == Init => KnowledgeInv
<1> SUFFICES ASSUME Init
             PROVE  KnowledgeInv
  OBVIOUS
<1>1. log = {} /\ clock = 0 /\ ids = 0 /\ workspace = None /\ env = [p \in Proc |-> None]
  BY DEF Init
<1>2. EnvTyped /\ LogTyped
  BY <1>1, FS_EmptySet DEF EnvTyped, LogTyped
<1>3. Created /\ SettledStays
  BY <1>1 DEF Created, SettledStays, Creating
<1> QED
  BY <1>2, <1>3 DEF KnowledgeInv

\* The two parts of RememberedIsRecalled, for one recall.
RecallFinds(ws, kind, query) ==
    LET types == IF kind = None THEN Kinds ELSE {kind}
        matching == {e \in log : e.type \in types /\ e.ws = ws /\ Found(query, e)}
        found == RankedRecall(kind, ws, query)
        later == {e \in log : e.type \in types /\ e.settled /\ AsciiCase(e)
                              /\ Meant(query, e)}
    IN  /\ ToSet(found) \subseteq matching
        /\ Plain(query) => \A e \in ToSet(found) : Meant(query, e)
        /\ Len(found) = Cardinality(ToSet(found))
        /\ (\E p \in Proc : Ready(p) /\ env[p].ws = ws /\ env[p].settled) =>
             \A e \in later : e \in ToSet(found) \/ Buried(e, matching)

SearchFinds(query) ==
    LET matching == {e \in log : e.type = "memory" /\ Found(query, e)}
    IN  \A e \in log : e.type = "memory" /\ AsciiCase(e) /\ Meant(query, e) =>
            e \in SearchMemory(query) \/ Buried(e, matching)

(***************************************************************************)
(* What was remembered since workspace.json was there for good is found by *)
(* every later process that asks for a part or a word of it in any case of *)
(* ASCII letters, however LIKE and the recall match, cut and sort, unless  *)
(* it is buried under a whole listing of events that match and are not     *)
(* older; and nothing else is found, unless by a "_" or "%".  Code:        *)
(* recall_by_type and ranked_recall of memory.rs, list of store.rs,        *)
(* RuntimeEnv::load of stl.rs.                                             *)
(***************************************************************************)
THEOREM RecallsWhatWasRemembered == Spec => []RememberedIsRecalled
<1>1. ASSUME KnowledgeInv
      PROVE  RememberedIsRecalled
  <2>1. ASSUME NEW p \in Proc, Ready(p), NEW kind \in Kinds \cup {None}, NEW query \in Query
        PROVE  RecallFinds(env[p].ws, kind, query)
    <3> DEFINE ws == env[p].ws
               types == IF kind = None THEN Kinds ELSE {kind}
               matching == {e \in log : e.type \in types /\ e.ws = ws /\ Found(query, e)}
               found == RankedRecall(kind, ws, query)
    <3>1. ws # None
      BY <1>1, <2>1, KnowledgeAssumption DEF Ready, KnowledgeInv, EnvTyped, Env
    <3>2. matching = MatchingBy(kind, ws, query)
      BY <3>1 DEF MatchingBy, Matching, Listed, TypesOf
    <3>3. /\ ToSet(found) = RecallByType(kind, ws, query)
          /\ Len(found) = Cardinality(RecallByType(kind, ws, query))
      BY <1>1, RankedFacts DEF KnowledgeInv
    <3>4. LogTyped /\ \A e \in log : e.words \in Seq(Word)
      BY <1>1 DEF KnowledgeInv, LogTyped
    <3>5. ASSUME NEW q \in Proc, Ready(q), env[q].ws = ws, env[q].settled,
                 NEW e \in log, e.type \in types, e.settled, AsciiCase(e), Meant(query, e)
          PROVE  e \in ToSet(found) \/ Buried(e, matching)
      <4>1. e.ws = ws
        BY <1>1, <3>5 DEF KnowledgeInv, SettledStays, Ready
      <4>2. Found(query, e)
        BY <3>4, <3>5, MeantIsFound
      <4>3. e \in matching
        BY <3>5, <4>1, <4>2
      <4> HIDE DEF matching, found
      <4> QED
        BY <3>2, <3>3, <3>4, <4>3, RecalledOrBuried
    <3>6. \A e \in matching : e \in log /\ Found(query, e)
      OBVIOUS
    <3> HIDE DEF matching, found
    <3>7. ToSet(found) \subseteq matching
      BY <3>2, <3>3, RecalledMatch
    <3>8. Plain(query) => \A e \in ToSet(found) : Meant(query, e)
      BY <3>4, <3>6, <3>7, FoundIsMeant
    <3> QED
      BY <3>3, <3>5, <3>7, <3>8 DEF RecallFinds, matching, found
  <2>2. ASSUME NEW query \in Query
        PROVE  SearchFinds(query)
    <3> DEFINE matching == {f \in log : f.type = "memory" /\ Found(query, f)}
    <3>1. matching = Matching("memory", None, query) /\ matching \in SUBSET log
      BY DEF Matching, Listed
    <3>2. LogTyped /\ \A e \in log : e.words \in Seq(Word)
      BY <1>1 DEF KnowledgeInv, LogTyped
    <3>3. ASSUME NEW e \in log, e.type = "memory", AsciiCase(e), Meant(query, e)
          PROVE  e \in SearchMemory(query) \/ Buried(e, matching)
      <4>1. e \in matching
        BY <3>2, <3>3, MeantIsFound
      <4> HIDE DEF matching
      <4> QED
        BY <3>1, <3>2, <4>1, CandidateOrBuried DEF SearchMemory
    <3> QED
      BY <3>3 DEF SearchFinds
  <2>3. ASSUME NEW ws \in {env[p].ws : p \in {q \in Proc : Ready(q)}},
               NEW kind \in Kinds \cup {None}, NEW query \in Query
        PROVE  RecallFinds(ws, kind, query)
    BY <2>1
  <2>4. RememberedIsRecalled <=>
          /\ \A ws \in {env[p].ws : p \in {q \in Proc : Ready(q)}},
                kind \in Kinds \cup {None}, query \in Query : RecallFinds(ws, kind, query)
          /\ \A query \in Query : SearchFinds(query)
    BY DEF RememberedIsRecalled, RecallFinds, SearchFinds
  <2> QED
    BY <2>2, <2>3, <2>4
<1> QED
  BY <1>1, KnowledgeInv_Init, KnowledgeInv_Step, PTL DEF Spec

(***************************************************************************)
(* Sums.                                                                   *)
(***************************************************************************)
\* What the recursion of Sum gives after each of the first n elements.
PartialSums(s, n, sum) == sum = [i \in 0..n |-> IF i = 0 THEN 0 ELSE sum[i - 1] + s[i]]

\* A sequence has its partial sums, by induction on their number.
LEMMA PartialSumsExist ==
    ASSUME NEW s
    PROVE  \A n \in Nat : \E sum : PartialSums(s, n, sum)
<1> DEFINE S == {n \in Nat : \E sum : PartialSums(s, n, sum)}
<1>1. 0 \in S
  <2>1. PartialSums(s, 0, [i \in 0..0 |-> 0])
    BY DEF PartialSums
  <2> QED
    BY <2>1
<1>2. ASSUME NEW n \in Nat, n \in S
      PROVE  n + 1 \in S
  <2>1. PICK sum : PartialSums(s, n, sum)
    BY <1>2
  <2> DEFINE more == [i \in 0..(n + 1) |-> IF i = 0 THEN 0 ELSE sum[i - 1] + s[i]]
  <2>2. \A i \in 0..n : more[i] = sum[i]
    BY <2>1 DEF PartialSums
  <2>3. \A i \in 0..(n + 1) : i # 0 => i - 1 \in 0..n
    OBVIOUS
  <2>4. more = [i \in 0..(n + 1) |-> IF i = 0 THEN 0 ELSE more[i - 1] + s[i]]
    <3> HIDE DEF more
    <3>1. \A i \in 0..(n + 1) : i # 0 => more[i - 1] = sum[i - 1]
      BY <2>2, <2>3
    <3> QED
      BY <3>1 DEF more
  <2> HIDE DEF more
  <2>5. PartialSums(s, n + 1, more)
    BY <2>4 DEF PartialSums
  <2> QED
    BY <2>5
<1>3. \A n \in Nat : n \in S
  <2> HIDE DEF S
  <2> QED
    BY <1>1, <1>2, AllNumbers
<1> QED
  BY <1>3

\* The sum is the last of them.
LEMMA SumIsLast ==
    ASSUME NEW s, Len(s) \in Nat
    PROVE  \E sum : /\ Sum(s) = sum[Len(s)]
                   /\ sum[0] = 0
                   /\ \A i \in 1..Len(s) : sum[i] = sum[i - 1] + s[i]
<1>1. \E sum : PartialSums(s, Len(s), sum)
  BY PartialSumsExist
<1>2. PICK sum : PartialSums(s, Len(s), sum) /\ Sum(s) = sum[Len(s)]
  BY <1>1 DEF Sum, PartialSums
<1>3. \A i \in 0..Len(s) : sum[i] = IF i = 0 THEN 0 ELSE sum[i - 1] + s[i]
  BY <1>2 DEF PartialSums
<1>4. 0 \in 0..Len(s) /\ \A i \in 1..Len(s) : i \in 0..Len(s) /\ i # 0
  OBVIOUS
<1>5. sum[0] = 0 /\ \A i \in 1..Len(s) : sum[i] = sum[i - 1] + s[i]
  BY <1>3, <1>4
<1> QED
  BY <1>2, <1>5

\* Numbers sum to a number, and positive ones to a positive one.
LEMMA SumTyped ==
    ASSUME NEW s \in Seq(Int)
    PROVE  /\ Sum(s) \in Int
           /\ Len(s) > 0 /\ (\A i \in 1..Len(s) : s[i] > 0) => Sum(s) > 0
<1>1. Len(s) \in Nat /\ \A i \in 1..Len(s) : s[i] \in Int
  BY LenProperties
<1>2. PICK sum : /\ Sum(s) = sum[Len(s)]
                 /\ sum[0] = 0
                 /\ \A i \in 1..Len(s) : sum[i] = sum[i - 1] + s[i]
  BY <1>1, SumIsLast
<1> DEFINE positive == \A i \in 1..Len(s) : s[i] > 0
           S == {n \in Nat : n <= Len(s) =>
                   /\ sum[n] \in Int
                   /\ positive => sum[n] >= n}
<1>3. 0 \in S
  BY <1>2
<1>4. ASSUME NEW n \in Nat, n \in S
      PROVE  n + 1 \in S
  <2>1. SUFFICES ASSUME n + 1 <= Len(s)
                 PROVE  /\ sum[n + 1] \in Int
                        /\ positive => sum[n + 1] >= n + 1
    OBVIOUS
  <2>2. /\ sum[n] \in Int /\ (positive => sum[n] >= n)
        /\ s[n + 1] \in Int /\ (positive => s[n + 1] > 0)
        /\ sum[n + 1] = sum[n] + s[n + 1]
    BY <1>1, <1>2, <1>4, <2>1
  <2> HIDE DEF positive
  <2> QED
    BY <2>2
<1>5. Len(s) \in S
  <2> HIDE DEF S
  <2> QED
    BY <1>1, <1>3, <1>4, AllNumbers
<1> QED
  BY <1>1, <1>2, <1>5

\* What the first element gains, the sum gains.
LEMMA SumOfFirst ==
    ASSUME NEW s \in Seq(Int), NEW t \in Seq(Int), Len(t) = Len(s), Len(s) > 0,
           \A i \in 2..Len(s) : t[i] = s[i]
    PROVE  Sum(t) = Sum(s) + (t[1] - s[1])
<1>1. Len(s) \in Nat /\ \A i \in 1..Len(s) : s[i] \in Int /\ t[i] \in Int
  BY LenProperties
<1>2. PICK sum : /\ Sum(s) = sum[Len(s)]
                 /\ sum[0] = 0
                 /\ \A i \in 1..Len(s) : sum[i] = sum[i - 1] + s[i]
  BY <1>1, SumIsLast
<1>3. PICK other : /\ Sum(t) = other[Len(t)]
                   /\ other[0] = 0
                   /\ \A i \in 1..Len(t) : other[i] = other[i - 1] + t[i]
  <2>1. Len(t) \in Nat
    BY LenProperties
  <2> QED
    BY <2>1, SumIsLast
<1>4. /\ sum[0] = 0 /\ \A i \in 1..Len(s) : sum[i] = sum[i - 1] + s[i]
      /\ other[0] = 0 /\ \A i \in 1..Len(s) : other[i] = other[i - 1] + t[i]
  BY <1>2, <1>3
<1> DEFINE S == {n \in Nat : n + 1 <= Len(s) =>
                   /\ sum[n + 1] \in Int
                   /\ other[n + 1] = sum[n + 1] + (t[1] - s[1])}
<1>5. 0 \in S
  <2>1. sum[1] = sum[0] + s[1] /\ other[1] = other[0] + t[1]
    BY <1>1, <1>4
  <2> QED
    BY <1>1, <1>4, <2>1
<1>6. ASSUME NEW n \in Nat, n \in S
      PROVE  n + 1 \in S
  <2>1. SUFFICES ASSUME n + 2 <= Len(s)
                 PROVE  /\ sum[n + 2] \in Int
                        /\ other[n + 2] = sum[n + 2] + (t[1] - s[1])
    OBVIOUS
  <2>2. /\ sum[n + 1] \in Int /\ other[n + 1] = sum[n + 1] + (t[1] - s[1])
        /\ s[n + 2] \in Int /\ t[n + 2] = s[n + 2] /\ t[1] \in Int /\ s[1] \in Int
        /\ sum[n + 2] = sum[n + 1] + s[n + 2] /\ other[n + 2] = other[n + 1] + t[n + 2]
    BY <1>1, <1>4, <1>6, <2>1
  <2> QED
    BY <2>2
<1>7. Len(s) - 1 \in S
  <2>1. Len(s) - 1 \in Nat
    BY <1>1
  <2> HIDE DEF S
  <2> QED
    BY <1>5, <1>6, <2>1, AllNumbers
<1> QED
  BY <1>1, <1>2, <1>3, <1>7

(***************************************************************************)
(* Adapters.                                                               *)
(***************************************************************************)
Adapter == [id : AdapterId, name : AdapterId, path : AdapterId, base_model : AdapterId]

\* Adapters are kept by id.
RegistryTyped ==
    /\ IsFiniteSet(registry) /\ registry \subseteq Adapter
    /\ \A a, b \in registry : a.id = b.id => a = b

\* What is a list of the set S: each of its elements, once.
ListOf(s, S) ==
    /\ Cardinality(S) \in Nat
    /\ s \in [1..Cardinality(S) -> S] /\ Len(s) = Cardinality(S)
    /\ \A e \in S : \E k \in 1..Cardinality(S) : s[k] = e

\* list_adapters lists them all, in whatever order those of one name come.
LEMMA AdaptersListed ==
    ASSUME RegistryTyped, NEW all \in Listings
    PROVE  ListOf(all, registry)
<1> DEFINE n == Cardinality(registry)
<1>1. n \in Nat
  BY FS_CardinalityType DEF RegistryTyped
<1>2. all \in [1..n -> registry] /\ \A i, j \in 1..n : i < j => all[i] # all[j]
  BY DEF Listings
<1> HIDE DEF n
<1>3. IsFiniteSet(1..n) /\ Cardinality(1..n) = n
  BY <1>1, FS_Interval
<1>4. \A i, j \in 1..n : all[i] = all[j] => i = j
  BY <1>1, <1>2
<1>5. all \in Injection(1..n, registry)
  BY <1>2, <1>4 DEF Injection, IsInjective
<1>6. all \in Surjection(1..n, registry)
  BY <1>3, <1>5, FS_Injection DEF n, RegistryTyped
<1>7. Len(all) = n
  BY <1>1, <1>2, SeqDef, LenProperties
<1> QED
  BY <1>1, <1>2, <1>6, <1>7 DEF ListOf, n, Surjection

\* Looking an adapter up by a name that is registered finds one of that name.
LEMMA NamedFound ==
    ASSUME NEW all, ListOf(all, registry), NEW a \in registry
    PROVE  Named(all, a.name) \in registry /\ Named(all, a.name).name = a.name
<1> DEFINE I == {i \in 1..Len(all) : all[i].name = a.name}
<1>1. Named(all, a.name) = all[IF I # {} THEN Min(I) ELSE 0]
  BY DEF Named, SelectInSeq
<1>2. I # {} /\ I \subseteq Nat
  BY DEF ListOf
<1>3. Min(I) \in I
  <2> HIDE DEF I
  <2>1. \E i \in I : \A j \in I : i <= j
    BY <1>2, LeastNumber
  <2> QED
    BY <2>1 DEF Min
<1>4. all[Min(I)] \in registry /\ all[Min(I)].name = a.name
  BY <1>3 DEF ListOf
<1> QED
  BY <1>1, <1>2, <1>4

\* A selection: adapters by falling score.
Selection(sel) ==
    /\ Len(sel) \in Nat /\ DOMAIN sel = 1..Len(sel)
    /\ \A k \in 1..Len(sel) : /\ sel[k].score \in Int
                              /\ \E a \in registry : sel[k].name = a.name
    /\ \A k, m \in 1..Len(sel) : k < m => sel[k].score >= sel[m].score

\* select_adapters yields one.
LEMMA SelectionSorted ==
    ASSUME RegistryTyped, NEW all, ListOf(all, registry), NEW fit \in ProjectFits
    PROVE  Selection(SelectAdapters(all, fit))
<1> DEFINE n == Cardinality(registry)
           of(i) == fit[all[i].id]
           before(i, j) == of(i) > of(j) \/ (of(i) = of(j) /\ i < j)
           S == DOMAIN all
           R == {pair \in S \X S : before(pair[1], pair[2])}
           order == Sorted(S, before)
           sel == SelectAdapters(all, fit)
<1>1. n \in Nat /\ all \in [1..n -> registry] /\ S = 1..n
  BY DEF ListOf
<1>2. \A i \in S : of(i) \in Int /\ i \in Nat
  <2>1. \A i \in S : i \in Nat /\ all[i] \in registry
    BY <1>1
  <2>2. \A a \in registry : fit[a.id] \in Int
    BY KnowledgeAssumption DEF ProjectFits
  <2> QED
    BY <2>1, <2>2
<1>3. sel = [k \in DOMAIN order |-> [name |-> all[order[k]].name, score |-> of(order[k])]]
  BY DEF SelectAdapters
<1> HIDE DEF of
<1>4. /\ \A i \in S : ~ before(i, i)
      /\ \A i, j, k \in S : before(i, j) /\ before(j, k) => before(i, k)
      /\ \A i, j \in S : i # j => before(i, j) \/ before(j, i)
  BY <1>2
<1>5. IsFiniteSet(S) /\ Cardinality(S) = n
  BY <1>1, FS_Interval
<1>6. \A i, j \in S : before(i, j) => of(i) >= of(j)
  BY <1>2
<1>7. order = [k \in 1..Cardinality(S) |->
                 CHOOSE i \in S : Cardinality({j \in S : before(j, i)}) = k - 1]
  BY DEF Sorted
<1> HIDE DEF before, S
<1>8. \A i, j \in S : <<i, j>> \in R <=> before(i, j)
  OBVIOUS
<1> HIDE DEF R
<1>9. SortsBy(order, S, R)
  <2>1. \A i \in S : {j \in S : before(j, i)} = {j \in S : <<j, i>> \in R}
    BY <1>8
  <2>2. /\ order = [k \in 1..Cardinality(S) |-> order[k]]
        /\ \A k \in 1..Cardinality(S) :
             (\E i \in S : Cardinality({j \in S : before(j, i)}) = k - 1) =>
                /\ order[k] \in S
                /\ Cardinality({j \in S : before(j, order[k])}) = k - 1
    BY <1>7
  <2> HIDE DEF order
  <2> QED
    BY <2>1, <2>2 DEF SortsBy
<1> HIDE DEF order
<1>10. Orders(R, S)
  BY <1>4, <1>8 DEF Orders
<1>11. /\ order \in [1..n -> S]
       /\ \A k, m \in 1..n : k < m => <<order[k], order[m]>> \in R
  BY <1>5, <1>9, <1>10, SortedFacts
<1>12. /\ sel = [k \in 1..n |-> [name |-> all[order[k]].name, score |-> of(order[k])]]
       /\ Len(sel) = n
  BY <1>1, <1>3, <1>11
<1>13. \A k \in 1..n : sel[k].score = of(order[k]) /\ sel[k].name = all[order[k]].name
  BY <1>12
<1>14. \A k \in 1..n : order[k] \in S /\ all[order[k]] \in registry
  BY <1>1, <1>11
<1> HIDE DEF sel
<1>15. \A k \in 1..n : sel[k].score \in Int /\ \E a \in registry : sel[k].name = a.name
  BY <1>2, <1>13, <1>14
<1>16. \A k, m \in 1..n : k < m => sel[k].score >= sel[m].score
  BY <1>6, <1>8, <1>11, <1>13, <1>14
<1>17. Selection(sel)
  BY <1>1, <1>12, <1>15, <1>16 DEF Selection
<1> QED
  BY <1>17 DEF sel

\* The k-th of a set of places without gaps is k: it is k or later, and the first
\* that is later would be in the place of an earlier one.
LEMMA PlacesStay ==
    ASSUME NEW n \in Nat, NEW F \in SUBSET (1..n), \A i \in F : 1..i \subseteq F,
           NEW kept, NEW R, \A i, j \in F : <<i, j>> \in R <=> i < j,
           SortsBy(kept, F, R)
    PROVE  /\ Len(kept) \in Nat
           /\ \A k \in 1..Len(kept) : k \in F /\ kept[k] = k
<1>1. IsFiniteSet(1..n) /\ Cardinality(1..n) = n
  BY FS_Interval
<1>2. IsFiniteSet(F)
  BY <1>1, Fewer
<1>3. \A i \in F : i \in Nat /\ i > 0
  OBVIOUS
<1>4. Orders(R, F)
  BY <1>3 DEF Orders
<1>5. /\ Len(kept) = Cardinality(F) /\ Cardinality(F) \in Nat
      /\ kept \in [1..Cardinality(F) -> F]
      /\ \A i \in F : \E k \in 1..Cardinality(F) : kept[k] = i
      /\ \A k, m \in 1..Cardinality(F) : k < m => <<kept[k], kept[m]>> \in R
  BY <1>2, <1>4, SortedFacts
<1> DEFINE S == {k \in Nat : k + 1 <= Len(kept) => k + 1 <= kept[k + 1]}
<1>6. 0 \in S
  <2>1. ASSUME 1 <= Len(kept)
        PROVE  1 <= kept[1]
    <3>1. 1 \in 1..Cardinality(F)
      BY <1>5, <2>1
    <3>2. kept[1] \in F
      BY <1>5, <3>1
    <3>3. kept[1] \in Nat /\ kept[1] > 0
      BY <1>3, <3>2
    <3> QED
      BY <3>3
  <2> QED
    BY <2>1
<1>7. ASSUME NEW k \in Nat, k \in S
      PROVE  k + 1 \in S
  <2>1. SUFFICES ASSUME k + 2 <= Len(kept)
                 PROVE  k + 2 <= kept[k + 2]
    OBVIOUS
  <2>2. k + 1 \in 1..Len(kept) /\ k + 2 \in 1..Len(kept) /\ k + 1 <= kept[k + 1]
    BY <1>5, <1>7, <2>1
  <2>3. kept[k + 1] \in F /\ kept[k + 2] \in F /\ <<kept[k + 1], kept[k + 2]>> \in R
    BY <1>5, <2>2
  <2>4. kept[k + 1] < kept[k + 2] /\ kept[k + 1] \in Nat /\ kept[k + 2] \in Nat
    BY <1>3, <2>3
  <2> QED
    BY <2>2, <2>4
<1>8. \A k \in Nat : k \in S
  <2> HIDE DEF S
  <2> QED
    BY <1>6, <1>7, AllNumbers
<1>9. ASSUME NEW k \in 1..Len(kept)
      PROVE  k <= kept[k] /\ kept[k] \in F /\ k \in F
  <2>1. k - 1 \in S /\ k - 1 \in Nat /\ (k - 1) + 1 = k
    BY <1>5, <1>8
  <2>2. k <= kept[k] /\ kept[k] \in F
    BY <1>5, <2>1
  <2>3. k \in 1..kept[k]
    BY <1>3, <1>5, <2>2
  <2> QED
    BY <2>2, <2>3
<1> DEFINE L == {k \in 1..Len(kept) : kept[k] # k}
<1>10. ASSUME NEW k \in L
       PROVE  \E m \in L : m < k
  <2>1. k \in 1..Len(kept) /\ k \in F /\ kept[k] # k
    BY <1>9
  <2>2. PICK m \in 1..Len(kept) : kept[m] = k
    BY <1>5, <2>1
  <2>3. m <= k /\ m # k
    BY <1>9, <2>1, <2>2
  <2> QED
    BY <1>5, <2>1, <2>2, <2>3
<1>11. L = {}
  <2> SUFFICES ASSUME L # {} PROVE FALSE
    OBVIOUS
  <2>1. L \in SUBSET Nat
    BY <1>5
  <2> HIDE DEF L
  <2>2. PICK k \in L : \A m \in L : k <= m
    BY <2>1, LeastNumber
  <2>3. PICK m \in L : m < k
    BY <1>10
  <2> QED
    BY <2>1, <2>2, <2>3
<1> QED
  BY <1>5, <1>9, <1>11

\* What a merge retains of a selection: its first adapters, all of which fit.
Retains(ret, sel) ==
    /\ Len(ret) \in Nat /\ DOMAIN ret = 1..Len(ret)
    /\ \A i \in 1..Len(ret) :
         /\ ret[i] = sel[i]
         /\ ret[i].score \in Int /\ ret[i].score > 0
         /\ \E a \in registry : ret[i].name = a.name

\* That is what merge_plan does before it divides.
LEMMA MergeRetains ==
    ASSUME NEW sel, Selection(sel), NEW k \in Nat, NEW min \in Int
    PROVE  Retains(Retained(sel, k, min), sel)
<1> DEFINE F == {i \in DOMAIN sel : sel[i].score > 0 /\ sel[i].score >= min}
           kept == Sorted(F, <)
           m == IF k < Len(kept) THEN k ELSE Len(kept)
           R == {pair \in F \X F : pair[1] < pair[2]}
           ret == Retained(sel, k, min)
<1>1. ret = [i \in 1..m |-> sel[kept[i]]]
  BY DEF Retained
<1>2. Len(sel) \in Nat /\ DOMAIN sel = 1..Len(sel) /\ F \in SUBSET (1..Len(sel))
  BY DEF Selection
<1>3. \A i \in F : sel[i].score > 0
  OBVIOUS
<1>4. ASSUME NEW i \in F, NEW j \in 1..i
      PROVE  j \in F
  <2>1. i \in 1..Len(sel) /\ j \in 1..Len(sel) /\ (j < i \/ j = i)
    BY <1>2
  <2>2. /\ sel[i].score \in Int /\ sel[j].score \in Int
        /\ sel[i].score > 0 /\ sel[i].score >= min
        /\ j < i => sel[j].score >= sel[i].score
    BY <2>1 DEF Selection
  <2>3. sel[j].score > 0 /\ sel[j].score >= min
    BY <2>1, <2>2
  <2> QED
    BY <1>2, <2>1, <2>3
<1>5. kept = [i \in 1..Cardinality(F) |->
                CHOOSE j \in F : Cardinality({h \in F : h < j}) = i - 1]
  BY DEF Sorted
<1> HIDE DEF F
<1>6. \A i, j \in F : <<i, j>> \in R <=> i < j
  OBVIOUS
<1> HIDE DEF R
<1>7. SortsBy(kept, F, R)
  <2>1. \A j \in F : {h \in F : h < j} = {h \in F : <<h, j>> \in R}
    BY <1>6
  <2> HIDE DEF kept
  <2>2. kept = [i \in 1..Cardinality(F) |-> kept[i]]
    <3> DEFINE ranked(i) == CHOOSE j \in F : Cardinality({h \in F : h < j}) = i - 1
    <3>1. kept = [i \in 1..Cardinality(F) |-> ranked(i)]
      BY <1>5
    <3> HIDE DEF ranked
    <3> QED
      BY <3>1
  <2>3. ASSUME NEW i \in 1..Cardinality(F),
               \E j \in F : Cardinality({h \in F : h < j}) = i - 1
        PROVE  kept[i] \in F /\ Cardinality({h \in F : h < kept[i]}) = i - 1
    <3>1. kept[i] = CHOOSE j \in F : Cardinality({h \in F : h < j}) = i - 1
      BY <1>5
    <3> QED
      BY <2>3, <3>1
  <2> QED
    BY <2>1, <2>2, <2>3 DEF SortsBy
<1> HIDE DEF kept
<1>8. /\ Len(kept) \in Nat
      /\ \A i \in 1..Len(kept) : i \in F /\ kept[i] = i
  BY <1>2, <1>4, <1>6, <1>7, PlacesStay
<1>9. m \in Nat /\ m <= Len(kept)
  BY <1>8
<1> HIDE DEF m
<1>10. Len(ret) = m /\ DOMAIN ret = 1..m /\ \A i \in 1..m : ret[i] = sel[kept[i]]
  BY <1>1, <1>9
<1> HIDE DEF ret
<1>11. ASSUME NEW i \in 1..m
       PROVE  /\ ret[i] = sel[i]
              /\ ret[i].score \in Int /\ ret[i].score > 0
              /\ \E a \in registry : ret[i].name = a.name
  <2>1. i \in 1..Len(kept)
    BY <1>8, <1>9
  <2>2. i \in F /\ i \in 1..Len(sel) /\ ret[i] = sel[i]
    BY <1>2, <1>8, <1>10, <2>1
  <2> QED
    BY <1>3, <2>2 DEF Selection
<1>12. Retains(ret, sel)
  BY <1>9, <1>10, <1>11 DEF Retains
<1> QED
  BY <1>12 DEF ret

\* A rounded share is a number.
LEMMA RoundTyped ==
    ASSUME NEW a \in Nat, NEW b \in Nat, b > 0
    PROVE  Round2(a, b) \in Nat
<1>1. 200 * a + b \in Nat /\ 2 * b \in Nat /\ 2 * b > 0
  OBVIOUS
<1>2. \A x, y \in Nat : y > 0 => x \div y \in Nat
  OBVIOUS
<1> QED
  BY <1>1, <1>2 DEF Round2

\* The weights of adapters that fit are one hundred hundredths, and each but the
\* first has its rounded share.
LEMMA WeightsWhole ==
    ASSUME NEW ret, Len(ret) \in Nat, Len(ret) > 0, DOMAIN ret = 1..Len(ret),
           \A i \in 1..Len(ret) : ret[i].score \in Int /\ ret[i].score > 0
    PROVE  /\ Weights(ret) \in [DOMAIN ret -> Int]
           /\ Sum(Weights(ret)) = 100
           /\ \A i \in DOMAIN ret : i > 1 => Weights(ret)[i] = Round2(ret[i].score, Total(ret))
<1> DEFINE n == Len(ret)
           scores == [i \in DOMAIN ret |-> ret[i].score]
           total == Total(ret)
           rounded == [i \in DOMAIN ret |-> Round2(ret[i].score, total)]
           rest == 100 - Sum(rounded)
           weights == Weights(ret)
<1>1. scores \in Seq(Int) /\ Len(scores) = n /\ \A i \in 1..n : scores[i] > 0
  <2>1. scores \in [1..n -> Int]
    OBVIOUS
  <2> HIDE DEF scores
  <2>2. scores \in Seq(Int) /\ Len(scores) = n
    BY <2>1, SeqDef, LenProperties
  <2> QED
    BY <2>2 DEF scores
<1>2. total \in Int /\ total > 0
  <2>1. total = Sum(scores)
    BY DEF Total
  <2> HIDE DEF scores
  <2> QED
    BY <1>1, <2>1, SumTyped
<1> HIDE DEF total
<1>3. \A i \in 1..n : Round2(ret[i].score, total) \in Nat
  <2>1. total \in Nat
    BY <1>2
  <2>2. \A x \in Int : x > 0 => x \in Nat
    OBVIOUS
  <2> QED
    BY <1>2, <2>1, <2>2, RoundTyped
<1>4. rounded \in [1..n -> Nat]
  BY <1>3
<1>5. weights = [i \in DOMAIN ret |-> IF i = 1 THEN rounded[1] + rest ELSE rounded[i]]
  BY DEF Weights, total
<1>6. \A i \in 1..n : rounded[i] = Round2(ret[i].score, total)
  OBVIOUS
<1> HIDE DEF rounded, rest
<1>7. rounded \in Seq(Int) /\ Len(rounded) = n
  <2>1. rounded \in [1..n -> Int]
    BY <1>4
  <2> QED
    BY <2>1, SeqDef, LenProperties
<1>8. Sum(rounded) \in Int
  BY <1>7, SumTyped
<1>9. rest \in Int /\ rest = 100 - Sum(rounded)
  BY <1>8 DEF rest
<1> HIDE DEF weights
<1>10. weights \in [1..n -> Int]
  BY <1>4, <1>5, <1>9
<1>11. weights \in Seq(Int) /\ Len(weights) = n
  BY <1>10, SeqDef, LenProperties
<1>12. weights[1] = rounded[1] + rest /\ \A i \in 2..n : weights[i] = rounded[i]
  BY <1>5
<1>13. Sum(weights) = Sum(rounded) + (weights[1] - rounded[1])
  <2>1. Len(weights) = Len(rounded) /\ Len(rounded) > 0
        /\ \A i \in 2..Len(rounded) : weights[i] = rounded[i]
    BY <1>7, <1>11, <1>12
  <2> QED
    BY <1>7, <1>11, <2>1, SumOfFirst
<1>14. rounded[1] \in Int
  BY <1>4
<1>15. Sum(weights) = 100
  BY <1>8, <1>9, <1>12, <1>13, <1>14
<1>16. \A i \in 1..n : i > 1 => weights[i] = Round2(ret[i].score, total)
  BY <1>12, <1>6
<1> QED
  BY <1>10, <1>15, <1>16 DEF weights, total

(***************************************************************************)
(* Manifests.                                                              *)
(***************************************************************************)
\* An adapter that is registered replaces the one of its id.
LEMMA UpsertTyped ==
    ASSUME RegistryTyped, NEW x \in Adapter, registry' = Upsert(x)
    PROVE  RegistryTyped'
<1> DEFINE others == {a \in registry : a.id # x.id}
<1>1. IsFiniteSet(others)
  BY Fewer DEF RegistryTyped
<1>2. registry' = others \cup {x}
  BY DEF Upsert
<1>3. IsFiniteSet(registry')
  <2> HIDE DEF others
  <2> QED
    BY <1>1, <1>2, FS_AddElement
<1>4. registry' \subseteq Adapter
  BY <1>2 DEF RegistryTyped
<1>5. \A a, b \in registry' : a.id = b.id => a = b
  BY <1>2 DEF RegistryTyped
<1> QED
  BY <1>3, <1>4, <1>5 DEF RegistryTyped

\* Only a registration and a generated adapter change the registry.
LEMMA Registers ==
    ASSUME LogTyped, Next
    PROVE  \/ registry' = registry
           \/ \E id, name \in AdapterId :
                registry' = Upsert([id |-> id, name |-> name, path |-> id, base_model |-> id])
           \/ \E p \in Proc :
                /\ env[p] # None /\ env[p].adapter # None
                /\ LET name == env[p].adapter
                   IN  registry' = Upsert([id |-> name, name |-> name, path |-> name,
                                           base_model |-> name])
<1>1. PICK p \in Proc : Acts(p)
  BY StepsAct
<1>2. CASE \E id, name \in AdapterId : Register(p, id, name)
  BY <1>2 DEF Register
<1>3. CASE Generated(p)
  BY <1>3 DEF Generated, Ready
<1>4. CASE Load(p) \/ OpenWorkspace(p) \/ WriteWorkspace(p) \/ Exit(p)
  BY <1>4 DEF Load, OpenWorkspace, WriteWorkspace, Exit
<1>5. CASE (\E type, words : AppendEvent(p, type, words)) \/ Look(p)
  BY <1>5 DEF AppendEvent, Look
<1>6. CASE (\E name \in AdapterId : Doc2Lora(p, name)) \/ GenerationFails(p)
  BY <1>6 DEF Doc2Lora, GenerationFails
<1>7. CASE IndexProject(p) \/ \E all \in Listings : SelectForProject(p, all)
  BY <1>7 DEF IndexProject, SelectForProject
<1> QED
  BY <1>1, <1>2, <1>3, <1>4, <1>5, <1>6, <1>7 DEF Acts

\* The registry keeps its type.
LEMMA RegistryTyped_Step == KnowledgeInv /\ RegistryTyped /\ [Next]_vars => RegistryTyped'
<1> SUFFICES ASSUME KnowledgeInv, RegistryTyped, [Next]_vars
             PROVE  RegistryTyped'
  OBVIOUS
<1>1. CASE registry' = registry
  BY <1>1 DEF RegistryTyped
<1>2. ASSUME NEW id \in AdapterId, NEW name \in AdapterId,
             registry' = Upsert([id |-> id, name |-> name, path |-> id, base_model |-> id])
      PROVE  RegistryTyped'
  <2>1. [id |-> id, name |-> name, path |-> id, base_model |-> id] \in Adapter
    BY DEF Adapter
  <2> QED
    BY <1>2, <2>1, UpsertTyped
<1>3. \A p \in Proc : env[p] # None /\ env[p].adapter # None => env[p].adapter \in AdapterId
  BY DEF KnowledgeInv, EnvTyped, Env
<1> QED
  BY <1>1, <1>2, <1>3, Registers DEF vars, KnowledgeInv

\* Only an export prints a manifest.
LEMMA Exports ==
    ASSUME [Next]_vars, manifest' # manifest
    PROVE  \E all \in Listings, fit \in ProjectFits, k \in TopK, min \in MinScore :
             /\ cache' = SelectAdapters(all, fit)
             /\ manifest' = ExportManifest(all, MergePlan(all, cache', k, min))
<1>1. Next
  BY DEF vars
<1>2. PICK p \in Proc : \E k \in TopK, min \in MinScore : Export(p, k, min)
  <2>1. PICK p \in Proc :
          \/ Load(p) \/ OpenWorkspace(p) \/ WriteWorkspace(p) \/ Exit(p)
          \/ \E type, words : AppendEvent(p, type, words)
          \/ Look(p)
          \/ \E id, name \in AdapterId : Register(p, id, name)
          \/ \E name \in AdapterId : Doc2Lora(p, name)
          \/ GenerationFails(p) \/ Generated(p) \/ IndexProject(p) \/ Select(p)
          \/ \E k \in TopK, min \in MinScore : Export(p, k, min)
    BY <1>1 DEF Next, InitStore, Recall, ShowContext, Dashboard, RecallPosted, SearchTool,
                Send, Remember, RememberPosted, RememberTool, RememberMessage
  <2>2. ~ (Load(p) \/ OpenWorkspace(p) \/ WriteWorkspace(p) \/ Exit(p))
    BY DEF Load, OpenWorkspace, WriteWorkspace, Exit
  <2>3. ~ ((\E type, words : AppendEvent(p, type, words)) \/ Look(p))
    BY DEF AppendEvent, Look
  <2>4. ~ ((\E id, name \in AdapterId : Register(p, id, name)) \/ Generated(p))
    BY DEF Register, Generated
  <2>5. ~ ((\E name \in AdapterId : Doc2Lora(p, name)) \/ GenerationFails(p))
    BY DEF Doc2Lora, GenerationFails
  <2>6. ~ (IndexProject(p) \/ Select(p))
    BY DEF IndexProject, Select
  <2> QED
    BY <2>1, <2>2, <2>3, <2>4, <2>5, <2>6
<1> QED
  BY <1>2 DEF Export, SelectForProject, PutProjectCache

\* ExportIsWhole, of one manifest.
Whole(m, selection) ==
    LET listed == m.adapters
        total == Sum([i \in DOMAIN listed |-> selection[i].score])
        unique == \A a, b \in registry : a.name = b.name => a = b
        of(x) == {a \in registry : a.name = x.name /\ a.path = x.path}
    IN  /\ Sum([i \in DOMAIN listed |-> listed[i].weight]) = 100
        /\ \A i \in DOMAIN listed :
             /\ listed[i].name = selection[i].name
             /\ selection[i].score > 0
             /\ i > 1 => listed[i].weight = Round2(selection[i].score, total)
             /\ of(listed[i]) # {}
        /\ unique => \A a \in of(listed[1]) : a.base_model = m.base_model

\* Every manifest that lists adapters is whole.
LEMMA ManifestWhole ==
    ASSUME NEW all, ListOf(all, registry), NEW sel, Selection(sel),
           NEW k \in Nat, NEW min \in Int,
           NEW m, m = ExportManifest(all, MergePlan(all, sel, k, min)), m.adapters # <<>>
    PROVE  Whole(m, sel)
<1> DEFINE ret == Retained(sel, k, min)
           weights == Weights(ret)
           plan == MergePlan(all, sel, k, min)
           listed == m.adapters
<1>1. Retains(ret, sel)
  BY MergeRetains
<1>2. plan = [base_model |-> IF ret = <<>> THEN None ELSE Named(all, ret[1].name).base_model,
              adapters |-> [i \in DOMAIN ret |-> [name |-> ret[i].name, weight |-> weights[i]]]]
  BY DEF MergePlan
<1> HIDE DEF ret, weights, plan
<1>3. /\ m.base_model = plan.base_model
      /\ listed = [i \in DOMAIN plan.adapters |->
                     [name |-> plan.adapters[i].name, weight |-> plan.adapters[i].weight,
                      path |-> Named(all, plan.adapters[i].name).path]]
  BY <1>2 DEF ExportManifest, plan
<1>4. listed = [i \in DOMAIN ret |-> [name |-> ret[i].name, weight |-> weights[i],
                                      path |-> Named(all, ret[i].name).path]]
  <2>1. /\ DOMAIN plan.adapters = DOMAIN ret
        /\ \A i \in DOMAIN ret : /\ plan.adapters[i].name = ret[i].name
                                 /\ plan.adapters[i].weight = weights[i]
    BY <1>2
  <2> QED
    BY <1>3, <2>1
<1> HIDE DEF listed
<1>5. Len(ret) > 0
  <2>1. ASSUME Len(ret) = 0
        PROVE  listed = <<>>
    <3>1. DOMAIN ret = {}
      BY <1>1, <2>1 DEF Retains
    <3>2. listed \in [1..0 -> {}]
      BY <1>4, <3>1
    <3> QED
      BY <3>2, SeqDef, EmptySeq, LenProperties
  <2> QED
    BY <1>1, <2>1 DEF Retains, listed
<1>6. /\ Len(ret) \in Nat /\ DOMAIN ret = 1..Len(ret) /\ 1 \in DOMAIN ret /\ ret # <<>>
      /\ \A i \in 1..Len(ret) : ret[i].score \in Int /\ ret[i].score > 0
  BY <1>1, <1>5 DEF Retains
<1>7. /\ weights \in [DOMAIN ret -> Int]
      /\ Sum(weights) = 100
      /\ \A i \in DOMAIN ret : i > 1 => weights[i] = Round2(ret[i].score, Total(ret))
  BY <1>5, <1>6, WeightsWhole DEF weights
<1>8. /\ DOMAIN listed = DOMAIN ret
      /\ \A i \in DOMAIN ret : /\ listed[i].name = ret[i].name
                               /\ listed[i].weight = weights[i]
                               /\ listed[i].path = Named(all, ret[i].name).path
  BY <1>4
<1>9. Sum([i \in DOMAIN listed |-> listed[i].weight]) = 100
  <2>1. [i \in DOMAIN listed |-> listed[i].weight] = weights
    BY <1>7, <1>8
  <2> QED
    BY <1>7, <2>1
<1>10. ASSUME NEW i \in DOMAIN listed
       PROVE  /\ Named(all, listed[i].name) \in registry
              /\ Named(all, listed[i].name).name = listed[i].name
              /\ Named(all, listed[i].name).path = listed[i].path
              /\ listed[i].name = sel[i].name
              /\ sel[i].score > 0
              /\ i > 1 => listed[i].weight = Round2(sel[i].score, Total(ret))
  <2>1. /\ i \in 1..Len(ret) /\ listed[i].name = ret[i].name /\ listed[i].weight = weights[i]
        /\ listed[i].path = Named(all, ret[i].name).path
    BY <1>6, <1>8
  <2>2. PICK a \in registry : ret[i].name = a.name
    BY <1>1, <2>1 DEF Retains
  <2>3. Named(all, a.name) \in registry /\ Named(all, a.name).name = a.name
    BY NamedFound
  <2>4. ret[i] = sel[i] /\ ret[i].score > 0
    BY <1>1, <2>1 DEF Retains
  <2>5. i > 1 => listed[i].weight = Round2(ret[i].score, Total(ret))
    BY <1>6, <1>7, <2>1
  <2> QED
    BY <2>1, <2>2, <2>3, <2>4, <2>5
<1>11. ASSUME \A a, b \in registry : a.name = b.name => a = b,
              NEW a \in registry, a.name = listed[1].name
       PROVE  a.base_model = m.base_model
  <2>1. a = Named(all, listed[1].name)
    BY <1>6, <1>8, <1>10, <1>11
  <2>2. m.base_model = Named(all, ret[1].name).base_model
    BY <1>2, <1>3, <1>6
  <2> QED
    BY <1>6, <1>8, <2>1, <2>2
<1>12. Total(ret) = Sum([i \in DOMAIN listed |-> sel[i].score])
  <2>1. \A i \in DOMAIN ret : ret[i].score = sel[i].score
    BY <1>1 DEF Retains
  <2>2. [i \in DOMAIN ret |-> ret[i].score] = [i \in DOMAIN listed |-> sel[i].score]
    BY <1>8, <2>1
  <2> QED
    BY <2>2 DEF Total
<1> QED
  BY <1>9, <1>10, <1>11, <1>12 DEF Whole, listed

(***************************************************************************)
(* A manifest that lists adapters divides exactly one among them, gives    *)
(* each but the first the rounded share of the score that the selection    *)
(* has for it, names registered ones that fit, and runs on the base model  *)
(* of the first, for any number of adapters, any scores and any order of   *)
(* adapters of one name.  Code: merge_plan of merge.rs, select_adapters of *)
(* select.rs, export_manifest of export.rs.                                *)
(***************************************************************************)
THEOREM ManifestsWhole == Spec => ExportIsWhole
<1>1. Init => RegistryTyped
  BY FS_EmptySet DEF Init, RegistryTyped
<1>2. ASSUME RegistryTyped, [Next]_vars, manifest' # manifest, manifest'.adapters # <<>>
      PROVE  Whole(manifest', cache')
  <2>1. PICK all \in Listings, fit \in ProjectFits, k \in TopK, min \in MinScore :
          /\ cache' = SelectAdapters(all, fit)
          /\ manifest' = ExportManifest(all, MergePlan(all, cache', k, min))
    BY <1>2, Exports
  <2>2. ListOf(all, registry) /\ Selection(cache')
    BY <1>2, <2>1, AdaptersListed, SelectionSorted
  <2>3. k \in Nat /\ min \in Int
    BY KnowledgeAssumption
  <2> QED
    BY <1>2, <2>1, <2>2, <2>3, ManifestWhole
<1>3. ASSUME RegistryTyped, [Next]_vars
      PROVE  [manifest' # manifest /\ manifest'.adapters # <<>> =>
                LET listed == manifest'.adapters
                    total == Sum([i \in DOMAIN listed |-> cache'[i].score])
                    unique == \A a, b \in registry : a.name = b.name => a = b
                    of(x) == {a \in registry : a.name = x.name /\ a.path = x.path}
                IN  /\ Sum([i \in DOMAIN listed |-> listed[i].weight]) = 100
                    /\ \A i \in DOMAIN listed :
                         /\ listed[i].name = cache'[i].name
                         /\ cache'[i].score > 0
                         /\ i > 1 => listed[i].weight = Round2(cache'[i].score, total)
                         /\ of(listed[i]) # {}
                    /\ unique => \A a \in of(listed[1]) :
                                   a.base_model = manifest'.base_model]_vars
  BY <1>2, <1>3 DEF Whole
<1> QED
  BY <1>1, <1>3, KnowledgeInv_Init, KnowledgeInv_Step, RegistryTyped_Step, PTL
     DEF Spec, ExportIsWhole
=============================================================================
