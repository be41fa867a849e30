--------------------------- MODULE Resolver_proofs ---------------------------
(***************************************************************************)
(* That the rounds of resolveConstants end, that they leave nothing out,   *)
(* and that aliases never form a cycle, for any program, any number of     *)
(* files on the fast path and any number of fast paths.                    *)
(***************************************************************************)
EXTENDS Resolver, FiniteSetTheorems, NaturalsInduction, WellFoundedInduction, TLAPS

Rounds == {"ancestors", "constants", "classAliases", "typeAliases"}
Ended == {"done", "finalized", "resolved"}

RType ==
  /\ choice \in DOMAIN Programs
  /\ phase \in {"walk", "failed", "lastClassAliases", "lastAncestors"} \cup Rounds \cup Ended
  /\ progress \in BOOLEAN /\ retries \in Nat
  /\ symbol \in [DOMAIN prog.constants -> Symbols]
  /\ resultType \in [ClassAliases \cup TypeAliases -> Symbols \cup {NoType, "todo"}]
  /\ \A a \in ClassAliases : resultType[a] \in Symbols \cup {NoType}
  /\ todo \subseteq DOMAIN prog.constants /\ todoAncestors \subseteq DOMAIN prog.ancestors
  /\ todoClassAliases \subseteq DOMAIN prog.classAliases
  /\ todoTypeAliases \subseteq DOMAIN prog.typeAliases
  /\ phase = "walk" => pass \subseteq DOMAIN prog.constants

\* What a pass has yet to visit is on its list, and the last passes empty theirs.
PassIsOnList ==
  /\ phase = "ancestors" => pass \subseteq todoAncestors
  /\ phase = "constants" => pass \subseteq todo
  /\ phase = "classAliases" => pass \subseteq todoClassAliases
  /\ phase = "typeAliases" => pass \subseteq todoTypeAliases
  /\ phase = "failed" => todo = pass
  /\ phase = "lastClassAliases" => todo = {} /\ todoClassAliases = pass
  /\ phase = "lastAncestors" => todo = {} /\ todoClassAliases = {} /\ todoAncestors = pass
  /\ phase \in Ended => todo = {} /\ todoClassAliases = {} /\ todoAncestors = {}

\* What has no symbol or type yet is on a list.
lhsOf(a) == prog.classAliases[a].lhs
typeOf(t) == prog.typeAliases[t].lhs
MissingIsOnList ==
  /\ \A i \in DOMAIN prog.constants :
       symbol[i] = NoSymbol => i \in todo \/ (phase = "walk" /\ i \in pass)
  /\ \A a \in DOMAIN prog.classAliases :
       resultType[lhsOf(a)] = NoType => \E b \in todoClassAliases : lhsOf(b) = lhsOf(a)
  /\ \A t \in DOMAIN prog.typeAliases :
       resultType[typeOf(t)] = NoType =>
         \E i \in todo : isDefinition(prog, i, typeOf(t)) /\ symbol[i] = typeOf(t)

\* Constants that were visited in a round without progress are not resolvable.
VisitedIsUnresolvable ==
  /\ phase \in {"constants", "classAliases", "typeAliases"} /\ ~progress =>
       \A i \in todo : (phase = "constants" => i \notin pass) => ~isResolvable(i)
  /\ NothingIsMissed

\* A round that made progress has one item less for every round so far.
ProgressIsCounted ==
  /\ phase = "walk" => retries = 0
  /\ EveryRoundResolves
  /\ phase \in Rounds /\ progress => retries <= allItems - itemsLeft

RInv ==
  RType /\ PassIsOnList /\ MissingIsOnList /\ VisitedIsUnresolvable /\ ProgressIsCounted

-----------------------------------------------------------------------------
(***************************************************************************)
(* The programs, and sets of numbers.                                      *)
(***************************************************************************)

\* The least element of a set of numbers.
LEMMA MinIsLeast ==
  ASSUME NEW S \in SUBSET Nat, S # {}
  PROVE  Min(S) \in S /\ \A n \in S : Min(S) <= n
<1>1. IsWellFoundedOn(OpToRel(<, Nat), Nat)
  BY NatLessThanWellFounded, Zenon
<1>2. PICK x \in S : \A y \in S : ~(<<y, x>> \in OpToRel(<, Nat))
  BY <1>1, WFMin, Zenon
<1>3. \A y \in S : x <= y
  <2> SUFFICES ASSUME NEW y \in S, ~(x <= y) PROVE FALSE
    BY Zenon
  <2>1. x \in Nat /\ y \in Nat /\ y < x
    OBVIOUS
  <2>2. <<y, x>> \in OpToRel(<, Nat)
    BY <2>1, Zenon DEF OpToRel
  <2> QED
    BY <1>2, <2>2, Zenon
<1> QED
  BY <1>3, Zenon DEF Min

\* Induction over the natural numbers, for a set.
LEMMA SetInduction ==
  ASSUME NEW S \in SUBSET Nat, 0 \in S, \A n \in S : n + 1 \in S
  PROVE  S = Nat
<1> DEFINE T == Nat \ S
           x == Min(T)
<1> SUFFICES ASSUME T # {} PROVE FALSE
  BY Zenon
<1> HIDE DEF x
<1>1. x \in T /\ \A n \in T : x <= n
  BY MinIsLeast, Zenon DEF x
<1>2. x \in Nat /\ x # 0 /\ x - 1 \in Nat /\ ~(x <= x - 1)
  BY <1>1
<1>3. x - 1 \in S
  BY <1>1, <1>2, Zenon
<1>4. x - 1 + 1 = x
  BY <1>2
<1> QED
  BY <1>1, <1>3, <1>4, Zenon

\* The positions of a sequence.
LEMMA SequenceDomain ==
  ASSUME NEW s, isSequence(s)
  PROVE  Len(s) \in Nat /\ DOMAIN s = 1 .. Len(s)
BY DEF isSequence

\* What the namer leaves is well-formed.
LEMMA ProgramFacts ==
  ASSUME choice \in DOMAIN Programs
  PROVE  /\ isProgram(prog)
         /\ DOMAIN prog.constants = 1 .. Len(prog.constants) /\ Len(prog.constants) \in Nat
         /\ DOMAIN prog.ancestors = 1 .. Len(prog.ancestors) /\ Len(prog.ancestors) \in Nat
         /\ DOMAIN prog.classAliases = 1 .. Len(prog.classAliases) /\ Len(prog.classAliases) \in Nat
         /\ DOMAIN prog.typeAliases = 1 .. Len(prog.typeAliases) /\ Len(prog.typeAliases) \in Nat
<1>1. isProgram(prog)
  BY ProgramsAssumption, Zenon DEF prog
<1>2. /\ isSequence(prog.constants) /\ isSequence(prog.ancestors)
      /\ isSequence(prog.classAliases) /\ isSequence(prog.typeAliases)
  BY <1>1, Zenon DEF isProgram
<1> QED
  BY <1>1, <1>2, SequenceDomain, Zenon

\* Sets of positions are finite.
LEMMA SubsetOfInterval ==
  ASSUME NEW n \in Nat, NEW S \in SUBSET (1 .. n)
  PROVE  /\ IsFiniteSet(S) /\ Cardinality(S) \in Nat /\ Cardinality(S) <= n
         /\ \A x \in S : Cardinality(S \ {x}) = Cardinality(S) - 1
         /\ \A x : Cardinality(S \ {x}) <= Cardinality(S) /\ Cardinality(S \ {x}) \in Nat
<1>1. IsFiniteSet(1 .. n) /\ Cardinality(1 .. n) = n
  BY FS_Interval
<1>2. IsFiniteSet(S) /\ Cardinality(S) <= n
  BY <1>1, FS_Subset, Zenon
<1>3. Cardinality(S) \in Nat
  BY <1>2, FS_CardinalityType, Zenon
<1>4. \A x \in S : Cardinality(S \ {x}) = Cardinality(S) - 1
  BY <1>2, FS_RemoveElement, Zenon
<1>5. \A x : Cardinality(S \ {x}) <= Cardinality(S) /\ Cardinality(S \ {x}) \in Nat
  <2> TAKE x
  <2>1. S \ {x} \in SUBSET S
    BY Zenon
  <2>2. IsFiniteSet(S \ {x}) /\ Cardinality(S \ {x}) <= Cardinality(S)
    BY <1>2, <2>1, FS_Subset, Zenon
  <2> QED
    BY <2>2, FS_CardinalityType, Zenon
<1> QED
  BY <1>2, <1>3, <1>4, <1>5, Zenon

\* The four lists, and what an item less on one of them means.
LEMMA ListSizes ==
  ASSUME RType
  PROVE  /\ Cardinality(todo) \in Nat /\ Cardinality(todo) <= Len(prog.constants)
         /\ Cardinality(todoAncestors) \in Nat /\ Cardinality(todoAncestors) <= Len(prog.ancestors)
         /\ Cardinality(todoClassAliases) \in Nat
         /\ Cardinality(todoClassAliases) <= Len(prog.classAliases)
         /\ Cardinality(todoTypeAliases) \in Nat
         /\ Cardinality(todoTypeAliases) <= Len(prog.typeAliases)
         /\ allItems \in Nat /\ itemsLeft \in Nat /\ itemsLeft <= allItems
<1>1. /\ DOMAIN prog.constants = 1 .. Len(prog.constants) /\ Len(prog.constants) \in Nat
      /\ DOMAIN prog.ancestors = 1 .. Len(prog.ancestors) /\ Len(prog.ancestors) \in Nat
      /\ DOMAIN prog.classAliases = 1 .. Len(prog.classAliases) /\ Len(prog.classAliases) \in Nat
      /\ DOMAIN prog.typeAliases = 1 .. Len(prog.typeAliases) /\ Len(prog.typeAliases) \in Nat
  BY ProgramFacts, Zenon DEF RType
<1>2. Cardinality(todo) \in Nat /\ Cardinality(todo) <= Len(prog.constants)
  BY <1>1, SubsetOfInterval, Zenon DEF RType
<1>3. Cardinality(todoAncestors) \in Nat /\ Cardinality(todoAncestors) <= Len(prog.ancestors)
  BY <1>1, SubsetOfInterval, Zenon DEF RType
<1>4. Cardinality(todoClassAliases) \in Nat /\ Cardinality(todoClassAliases) <= Len(prog.classAliases)
  BY <1>1, SubsetOfInterval, Zenon DEF RType
<1>5. Cardinality(todoTypeAliases) \in Nat /\ Cardinality(todoTypeAliases) <= Len(prog.typeAliases)
  BY <1>1, SubsetOfInterval, Zenon DEF RType
<1>6. allItems \in Nat /\ itemsLeft \in Nat
  <2>1. \A a, b, c, d \in Nat : a + b + c + d \in Nat
    OBVIOUS
  <2>2. allItems \in Nat
    BY <1>1, <2>1, Zenon DEF allItems
  <2>3. itemsLeft \in Nat
    BY <1>2, <1>3, <1>4, <1>5, <2>1, Zenon DEF itemsLeft
  <2> QED
    BY <2>2, <2>3, Zenon
<1>7. itemsLeft <= allItems
  <2>1. \A a, b, c, d, p, q, r, s \in Nat :
          a <= p /\ b <= q /\ c <= r /\ d <= s => a + b + c + d <= p + q + r + s
    OBVIOUS
  <2>2. Len(prog.constants) \in Nat /\ Len(prog.ancestors) \in Nat /\ Len(prog.classAliases) \in Nat
        /\ Len(prog.typeAliases) \in Nat
    BY <1>1, Zenon
  <2> QED
    BY <1>2, <1>3, <1>4, <1>5, <2>1, <2>2, ZenonT(60) DEF allItems, itemsLeft
<1> QED
  BY <1>2, <1>3, <1>4, <1>5, <1>6, <1>7, Zenon

\* Lists only get shorter.
LEMMA ListsShrink ==
  ASSUME RType, RType', choice' = choice,
         Cardinality(todo') <= Cardinality(todo),
         Cardinality(todoAncestors') <= Cardinality(todoAncestors),
         Cardinality(todoClassAliases') <= Cardinality(todoClassAliases),
         Cardinality(todoTypeAliases') <= Cardinality(todoTypeAliases)
  PROVE  /\ allItems' = allItems /\ itemsLeft' <= itemsLeft
         /\ (\/ Cardinality(todo') < Cardinality(todo)
             \/ Cardinality(todoAncestors') < Cardinality(todoAncestors)
             \/ Cardinality(todoClassAliases') < Cardinality(todoClassAliases)
             \/ Cardinality(todoTypeAliases') < Cardinality(todoTypeAliases))
            => itemsLeft' <= itemsLeft - 1
<1>1. /\ Cardinality(todo) \in Nat /\ Cardinality(todo') \in Nat
      /\ Cardinality(todoAncestors) \in Nat /\ Cardinality(todoAncestors') \in Nat
      /\ Cardinality(todoClassAliases) \in Nat /\ Cardinality(todoClassAliases') \in Nat
      /\ Cardinality(todoTypeAliases) \in Nat /\ Cardinality(todoTypeAliases') \in Nat
  <2>1. prog' = prog
    BY Zenon DEF prog
  <2>2. /\ todo' \subseteq DOMAIN prog.constants /\ todoAncestors' \subseteq DOMAIN prog.ancestors
        /\ todoClassAliases' \subseteq DOMAIN prog.classAliases
        /\ todoTypeAliases' \subseteq DOMAIN prog.typeAliases
    BY <2>1, Zenon DEF RType
  <2>3. /\ DOMAIN prog.constants = 1 .. Len(prog.constants) /\ Len(prog.constants) \in Nat
        /\ DOMAIN prog.ancestors = 1 .. Len(prog.ancestors) /\ Len(prog.ancestors) \in Nat
        /\ DOMAIN prog.classAliases = 1 .. Len(prog.classAliases) /\ Len(prog.classAliases) \in Nat
        /\ DOMAIN prog.typeAliases = 1 .. Len(prog.typeAliases) /\ Len(prog.typeAliases) \in Nat
    BY ProgramFacts, Zenon DEF RType
  <2>4. Cardinality(todo') \in Nat /\ Cardinality(todoAncestors') \in Nat
    BY <2>2, <2>3, SubsetOfInterval, Zenon
  <2>5. Cardinality(todoClassAliases') \in Nat /\ Cardinality(todoTypeAliases') \in Nat
    BY <2>2, <2>3, SubsetOfInterval, Zenon
  <2> QED
    BY <2>4, <2>5, ListSizes, Zenon
<1>2. allItems' = allItems
  BY Zenon DEF allItems, prog
<1> QED
  BY <1>1, <1>2 DEF itemsLeft

-----------------------------------------------------------------------------
(***************************************************************************)
(* Looking up constants.                                                   *)
(***************************************************************************)

\* The symbol of a member exists; stubs have no members.
LEMMA MemberExists ==
  ASSUME choice \in DOMAIN Programs, NEW k, NEW name
  PROVE  /\ findMemberNoDealias(k, name) \in Symbols
         /\ <<k, name>> \in DOMAIN prog.members =>
              k \in Classes /\ findMemberNoDealias(k, name) # NoSymbol
         /\ k \in {Untyped, StubModule} => findMemberNoDealias(k, name) = NoSymbol
<1>1. \A m \in DOMAIN prog.members :
        m[1] \in Classes /\ prog.members[m] \in Classes \cup ClassAliases \cup TypeAliases
  BY ProgramFacts, Zenon DEF isProgram
<1>2. <<k, name>> \in DOMAIN prog.members =>
        k \in Classes /\ prog.members[<<k, name>>] \in Classes \cup ClassAliases \cup TypeAliases
  BY <1>1, Zenon
<1> QED
  BY <1>2, SymbolsAssumption, Zenon DEF findMemberNoDealias, Symbols, ClassesAndModules

\* dealias follows the aliases one by one, up to its limit.
LEMMA DealiasUnfolds ==
  ASSUME NEW types, \A a \in ClassAliases : types[a] \in Symbols \cup {NoType}
  PROVE  \E f : /\ \A s : dealiasIn(types, s) = f[<<depthLimit, s>>]
                /\ \A n \in 0 .. depthLimit, s \in Symbols :
                     f[<<n, s>>] = IF ~isAlias(types, s) THEN s
                                   ELSE IF n = 0 THEN Untyped ELSE f[<<n - 1, types[s]>>]
<1> DEFINE value(f, n, s) == IF ~isAlias(types, s) THEN s
                             ELSE IF n = 0 THEN Untyped ELSE f[<<n - 1, types[s]>>]
           Known == {m \in Nat : \E f : \A n \in 0 .. m, s \in Symbols : f[<<n, s>>] = value(f, n, s)}
<1>0. \A s \in Symbols : isAlias(types, s) => types[s] \in Symbols
  BY Zenon DEF isAlias
<1>1. 0 \in Known
  <2> DEFINE f == [x \in {0} \X Symbols |-> IF isAlias(types, x[2]) THEN Untyped ELSE x[2]]
  <2>1. \A s \in Symbols : f[<<0, s>>] = IF isAlias(types, s) THEN Untyped ELSE s
    BY Zenon
  <2> HIDE DEF f
  <2>2. ASSUME NEW n \in 0 .. 0, NEW s \in Symbols PROVE f[<<n, s>>] = value(f, n, s)
    <3>1. n = 0
      OBVIOUS
    <3> QED
      BY <2>1, <3>1, Zenon
  <2> HIDE DEF value
  <2>3. \A n \in 0 .. 0, s \in Symbols : f[<<n, s>>] = value(f, n, s)
    BY <2>2, Zenon
  <2> QED
    BY <2>3, Zenon
<1>2. ASSUME NEW m \in Known PROVE m + 1 \in Known
  <2>1. PICK f : \A n \in 0 .. m, s \in Symbols : f[<<n, s>>] = value(f, n, s)
    BY Zenon
  <2> DEFINE g == [x \in (0 .. m + 1) \X Symbols |->
                     IF x[1] = m + 1 THEN value(f, m + 1, x[2]) ELSE f[x]]
  <2>2. /\ \A s \in Symbols : g[<<m + 1, s>>] = value(f, m + 1, s)
        /\ \A n \in 0 .. m, s \in Symbols : g[<<n, s>>] = f[<<n, s>>]
    <3> HIDE DEF value
    <3> QED
      OBVIOUS
  <2> HIDE DEF g
  <2>3. ASSUME NEW n \in 0 .. m + 1, NEW s \in Symbols
        PROVE  value(g, n, s) = value(f, n, s)
    <3>1. n # 0 => n - 1 \in 0 .. m
      OBVIOUS
    <3> QED
      BY <1>0, <2>2, <3>1, Zenon
  <2>4. ASSUME NEW n \in 0 .. m + 1, NEW s \in Symbols
        PROVE  g[<<n, s>>] = value(g, n, s)
    <3> HIDE DEF value
    <3>1. n = m + 1 \/ n \in 0 .. m
      OBVIOUS
    <3> QED
      BY <2>1, <2>2, <2>3, <3>1
  <2> HIDE DEF value
  <2>5. \A n \in 0 .. m + 1, s \in Symbols : g[<<n, s>>] = value(g, n, s)
    BY <2>4, Zenon
  <2> QED
    BY <2>5
<1>3. depthLimit \in Known
  <2> HIDE DEF Known
  <2>1. Known \in SUBSET Nat
    BY Zenon DEF Known
  <2> QED
    BY <1>1, <1>2, <2>1, SetInduction, Zenon DEF depthLimit
<1>4. PICK f : \A n \in 0 .. depthLimit, s \in Symbols : f[<<n, s>>] = value(f, n, s)
  BY <1>3, Zenon
<1> DEFINE Domain == (0 .. depthLimit) \X Symbols
           next(t, x) == IF ~isAlias(types, x[2]) THEN x[2]
                         ELSE IF x[1] = 0 THEN Untyped ELSE t[<<x[1] - 1, types[x[2]]>>]
           good(t) == t = [x \in Domain |-> next(t, x)]
           target == CHOOSE t : good(t)
           h == [x \in Domain |-> f[x]]
<1>5. good(h)
  <2>1. \A x \in Domain : h[x] = f[x]
    BY Zenon
  <2>2. ASSUME NEW x \in Domain PROVE f[x] = next(h, x)
    <3>1. PICK n \in 0 .. depthLimit, s \in Symbols : x = <<n, s>>
      OBVIOUS
    <3>2. n # 0 => n - 1 \in 0 .. depthLimit
      BY DEF depthLimit
    <3>3. f[<<n, s>>] = value(f, n, s)
      BY <1>4, Zenon
    <3> HIDE DEF h
    <3>4. isAlias(types, s) /\ n # 0 => h[<<n - 1, types[s]>>] = f[<<n - 1, types[s]>>]
      BY <1>0, <2>1, <3>2, Zenon
    <3> QED
      BY <3>1, <3>3, <3>4, Zenon
  <2> HIDE DEF next
  <2> QED
    BY <2>2, Zenon
<1>6. \A s : dealiasIn(types, s) = target[<<depthLimit, s>>]
  BY Zenon DEF dealiasIn
<1> HIDE DEF good, h
<1>7. good(target)
  BY <1>5, Zenon
<1> HIDE DEF target
<1>8. ASSUME NEW n \in 0 .. depthLimit, NEW s \in Symbols
      PROVE  target[<<n, s>>] = value(target, n, s)
  <2>1. <<n, s>> \in Domain
    BY Zenon
  <2>2. target[<<n, s>>] = next(target, <<n, s>>)
    BY <1>7, <2>1, Zenon DEF good
  <2> QED
    BY <2>2, Zenon
<1> QED
  BY <1>6, <1>8

\* What is not a class alias stands for itself.
LEMMA OthersHaveNoAlias ==
  ASSUME RType, NEW s \in Symbols, s \notin ClassAliases
  PROVE  dealias(s) = s
<1>1. \A a \in ClassAliases : aliases[a] \in Symbols \cup {NoType}
  BY Zenon DEF RType, aliases
<1>2. PICK f : /\ \A t : dealiasIn(aliases, t) = f[<<depthLimit, t>>]
               /\ \A n \in 0 .. depthLimit, t \in Symbols :
                    f[<<n, t>>] = IF ~isAlias(aliases, t) THEN t
                                  ELSE IF n = 0 THEN Untyped ELSE f[<<n - 1, aliases[t]>>]
  BY <1>1, DealiasUnfolds, Zenon
<1>3. ~isAlias(aliases, s) /\ depthLimit \in 0 .. depthLimit
  BY DEF isAlias, depthLimit
<1> QED
  BY <1>2, <1>3, Zenon DEF dealias

\* A lookup changes only when what it reads does.
LEMMA LookupUnchanged ==
  ASSUME UNCHANGED <<choice, symbol, resultType, superClass, mixins, linearized>>, NEW i
  PROVE  /\ resolveConstant(i)' = resolveConstant(i)
         /\ isResolvable(i)' <=> isResolvable(i)
<1>1. resolveConstant(i)' = resolveConstant(i)
  BY DEF resolveConstant, resolveLhs, hasScope, scopeOf, findMemberTransitiveNoDealias,
         findParentMemberTransitive, foundInMixins, foundInSuperClass, findMemberNoDealias,
         dealias, aliases, prog
<1> QED
  BY <1>1, Zenon DEF isResolvable, isAlreadyResolved, isPendingTypeAlias

\* The left hand side of a type alias stands for the alias, and is not resolvable
\* as long as the alias is not.
LEMMA DefinitionIsFound ==
  ASSUME choice \in DOMAIN Programs, NEW i, NEW s \in TypeAliases, isDefinition(prog, i, s)
  PROVE  /\ resolveConstant(i) = s
         /\ symbol[i] = s /\ resultType[s] = NoType => ~isResolvable(i)
<1> DEFINE c == prog.constants[i]
           hits == {n \in DOMAIN c.nesting : findMemberNoDealias(c.nesting[n], c.name) # NoSymbol}
<1>1. /\ c.scope = EmptyTree /\ isSequence(c.nesting) /\ c.nesting # <<>>
      /\ <<c.nesting[1], c.name>> \in DOMAIN prog.members
      /\ prog.members[<<c.nesting[1], c.name>>] = s
  BY Zenon DEF isDefinition
<1>2. findMemberNoDealias(c.nesting[1], c.name) = s /\ s # NoSymbol
  BY <1>1, SymbolsAssumption, Zenon DEF findMemberNoDealias
<1>3. DOMAIN c.nesting \subseteq Nat /\ 1 \in DOMAIN c.nesting
      /\ \A n \in DOMAIN c.nesting : 1 <= n
  <2>1. Len(c.nesting) \in Nat /\ DOMAIN c.nesting = 1 .. Len(c.nesting)
    BY <1>1, SequenceDomain, Zenon
  <2>2. Len(c.nesting) # 0
    BY <1>1, <2>1 DEF isSequence
  <2> QED
    BY <2>1, <2>2
<1>4. 1 \in hits /\ hits \subseteq Nat /\ \A n \in hits : 1 <= n
  BY <1>2, <1>3, Zenon
<1>5. Min(hits) = 1
  <2> HIDE DEF hits
  <2>1. Min(hits) \in hits /\ Min(hits) <= 1
    BY <1>4, MinIsLeast, Zenon
  <2>2. Min(hits) \in Nat /\ 1 <= Min(hits)
    BY <1>4, <2>1, Zenon
  <2> QED
    BY <2>1, <2>2
<1>6. resolveConstant(i) = s
  BY <1>1, <1>2, <1>4, <1>5, Zenon DEF resolveConstant, resolveLhs
<1> QED
  BY <1>6, Zenon DEF isResolvable, isAlreadyResolved, isPendingTypeAlias

\* Stubbing a constant makes no other one resolvable.
LEMMA StubResolvesNothing ==
  ASSUME RType, UNCHANGED <<choice, superClass, mixins, linearized>>, aliases' = aliases,
         NEW i, NEW v \in TypeAliases \cup {Untyped, StubModule},
         symbol' = [symbol EXCEPT ![i] = v], NEW k, exists(resolveConstant(k)')
  PROVE  resolveConstant(k)' = resolveConstant(k)
<1> DEFINE c == prog.constants[k]
<1>1. prog' = prog
  BY Zenon DEF prog
<1>2. CASE c.scope = EmptyTree
  <2>1. resolveLhs(c.nesting, c.name)' = resolveLhs(c.nesting, c.name)
    BY DEF resolveLhs, findMemberTransitiveNoDealias, findParentMemberTransitive, foundInMixins,
           foundInSuperClass, findMemberNoDealias, prog
  <2> QED
    BY <1>1, <1>2, <2>1, Zenon DEF resolveConstant
<1>3. CASE c.scope # EmptyTree /\ hasScope(k) /\ c.scope = i
  <2>1. symbol'[c.scope] = v
    BY <1>3, Zenon DEF RType, hasScope, scopeOf
  <2>2. v \notin ClassAliases /\ v \in Symbols
    BY SymbolsAssumption, Zenon DEF ClassesAndModules, Symbols
  <2>3. dealias(symbol[c.scope])' = v
    <3>1. dealias(v) = v
      BY <2>2, OthersHaveNoAlias, Zenon
    <3> QED
      BY <1>1, <2>1, <3>1, Zenon DEF dealias
  <2>4. findMemberNoDealias(v, c.name)' = findMemberNoDealias(v, c.name)
    BY <1>1, Zenon DEF findMemberNoDealias
  <2>5. v \in ClassesAndModules => findMemberNoDealias(v, c.name) = NoSymbol
    BY SymbolsAssumption, MemberExists, Zenon DEF RType
  <2>6. resolveConstant(k)' = NoSymbol
    BY <1>1, <1>3, <2>3, <2>4, <2>5, Zenon DEF resolveConstant, findMemberNoDealias
  <2> QED
    BY <2>6, Zenon DEF exists
<1>4. CASE c.scope # EmptyTree /\ ~(hasScope(k) /\ c.scope = i)
  <2>1. hasScope(k)' <=> hasScope(k)
    BY <1>1, Zenon DEF hasScope, scopeOf
  <2>2. hasScope(k) => symbol'[c.scope] = symbol[c.scope]
    BY <1>4, Zenon DEF RType, hasScope, scopeOf
  <2>3. hasScope(k) => dealias(symbol[c.scope])' = dealias(symbol[c.scope])
    BY <1>1, <2>2, Zenon DEF dealias
  <2> DEFINE owner == dealias(symbol[c.scope])
  <2>4. findMemberNoDealias(owner, c.name)' = findMemberNoDealias(owner', c.name)
    BY <1>1 DEF findMemberNoDealias
  <2>5. resolveConstant(k) =
          IF hasScope(k) /\ owner \in ClassesAndModules THEN findMemberNoDealias(owner, c.name)
          ELSE NoSymbol
    BY <1>4, Zenon DEF resolveConstant
  <2>6. resolveConstant(k)' =
          IF hasScope(k)' /\ owner' \in ClassesAndModules THEN findMemberNoDealias(owner', c.name)
          ELSE NoSymbol
    BY <1>1, <1>4, <2>4 DEF resolveConstant
  <2> QED
    BY <2>1, <2>3, <2>5, <2>6, Zenon
<1> QED
  BY <1>2, <1>3, <1>4, Zenon

-----------------------------------------------------------------------------
(***************************************************************************)
(* The invariant holds at first, and every action preserves it.            *)
(***************************************************************************)

SizesFit == allItems \in Nat /\ itemsLeft \in Nat /\ itemsLeft <= allItems
\* The lists are no longer than the program, after a step too.
LEMMA SizesFitLater == RType' => SizesFit'
<1>1. RType => SizesFit
  BY ListSizes, Zenon DEF SizesFit
<1> QED
  BY <1>1, PTL

\* Before the first round there is nothing to count.
LEMMA NoRoundYet ==
  ASSUME RType', phase' = "walk", retries' = 0
  PROVE  ProgressIsCounted'
<1>1. allItems' \in Nat /\ itemsLeft' \in Nat /\ itemsLeft' <= allItems'
  BY SizesFitLater, Zenon DEF SizesFit
<1>2. \A a, b \in Nat : b <= a => 0 <= a - b + 1
  OBVIOUS
<1>3. retries' <= allItems' - itemsLeft' + 1
  BY <1>1, <1>2, Zenon
<1> QED
  BY <1>3, Zenon DEF ProgressIsCounted, EveryRoundResolves, Rounds

\* Lists get shorter, and by one item at least when a round makes progress.
LEMMA CountKept ==
  ASSUME RType, RType', ProgressIsCounted, UNCHANGED <<choice, retries>>, phase' # "walk",
         Cardinality(todo') <= Cardinality(todo),
         Cardinality(todoAncestors') <= Cardinality(todoAncestors),
         Cardinality(todoClassAliases') <= Cardinality(todoClassAliases),
         Cardinality(todoTypeAliases') <= Cardinality(todoTypeAliases),
         phase' \in Rounds /\ progress' =>
           \/ phase \in Rounds /\ progress
           \/ Cardinality(todo') < Cardinality(todo)
           \/ Cardinality(todoAncestors') < Cardinality(todoAncestors)
           \/ Cardinality(todoClassAliases') < Cardinality(todoClassAliases)
           \/ Cardinality(todoTypeAliases') < Cardinality(todoTypeAliases)
  PROVE  ProgressIsCounted'
<1>1. /\ allItems' = allItems /\ itemsLeft' <= itemsLeft
      /\ (\/ Cardinality(todo') < Cardinality(todo)
          \/ Cardinality(todoAncestors') < Cardinality(todoAncestors)
          \/ Cardinality(todoClassAliases') < Cardinality(todoClassAliases)
          \/ Cardinality(todoTypeAliases') < Cardinality(todoTypeAliases))
         => itemsLeft' <= itemsLeft - 1
  BY ListsShrink, Zenon
<1>2. /\ allItems \in Nat /\ itemsLeft \in Nat /\ itemsLeft' \in Nat /\ retries \in Nat
  BY ListSizes, SizesFitLater, Zenon DEF SizesFit, RType
<1>3. retries <= allItems - itemsLeft + 1
  BY Zenon DEF ProgressIsCounted, EveryRoundResolves
<1>4. phase \in Rounds /\ progress => retries <= allItems - itemsLeft
  BY Zenon DEF ProgressIsCounted
<1>5. /\ \A r, a, b, c \in Nat : r <= a - b + 1 /\ c <= b => r <= a - c + 1
      /\ \A r, a, b, c \in Nat : r <= a - b + 1 /\ c <= b - 1 => r <= a - c
      /\ \A r, a, b, c \in Nat : r <= a - b /\ c <= b => r <= a - c
  OBVIOUS
<1>6. retries' = retries
  BY Zenon
<1>7. retries' <= allItems' - itemsLeft' + 1
  BY <1>1, <1>2, <1>3, <1>5, <1>6, ZenonT(60)
<1>8. phase' \in Rounds /\ progress' => retries' <= allItems' - itemsLeft'
  <2> SUFFICES ASSUME phase' \in Rounds, progress' PROVE retries <= allItems - itemsLeft'
    BY <1>1, <1>6, Zenon
  <2>1. CASE phase \in Rounds /\ progress
    BY <1>1, <1>2, <1>4, <1>5, <2>1, Zenon
  <2>2. CASE itemsLeft' <= itemsLeft - 1
    BY <1>2, <1>3, <1>5, <2>2, Zenon
  <2> QED
    BY <1>1, <2>1, <2>2, Zenon
<1> QED
  BY <1>7, <1>8, Zenon DEF ProgressIsCounted, EveryRoundResolves

\* A list that loses an item leaves one item less.
LEMMA SmallerListsCount ==
  ASSUME RType, RType', ProgressIsCounted, UNCHANGED <<choice, retries>>, phase' # "walk",
         todo' \subseteq todo, todoAncestors' \subseteq todoAncestors,
         todoClassAliases' \subseteq todoClassAliases, todoTypeAliases' \subseteq todoTypeAliases,
         phase' \in Rounds /\ progress' =>
           \/ phase \in Rounds /\ progress
           \/ todo' # todo \/ todoAncestors' # todoAncestors
           \/ todoClassAliases' # todoClassAliases \/ todoTypeAliases' # todoTypeAliases
  PROVE  ProgressIsCounted'
<1>1. ASSUME NEW n \in Nat, NEW S \in SUBSET (1 .. n), NEW T \in SUBSET S
      PROVE  Cardinality(T) <= Cardinality(S) /\ (T # S => Cardinality(T) < Cardinality(S))
  <2>1. /\ IsFiniteSet(S) /\ Cardinality(S) \in Nat /\ Cardinality(T) \in Nat
    BY SubsetOfInterval, Zenon
  <2>2. Cardinality(T) <= Cardinality(S) /\ (Cardinality(S) = Cardinality(T) => S = T)
    BY <2>1, FS_Subset, Zenon
  <2> QED
    BY <2>1, <2>2
<1>2. /\ DOMAIN prog.constants = 1 .. Len(prog.constants) /\ Len(prog.constants) \in Nat
      /\ DOMAIN prog.ancestors = 1 .. Len(prog.ancestors) /\ Len(prog.ancestors) \in Nat
      /\ DOMAIN prog.classAliases = 1 .. Len(prog.classAliases) /\ Len(prog.classAliases) \in Nat
      /\ DOMAIN prog.typeAliases = 1 .. Len(prog.typeAliases) /\ Len(prog.typeAliases) \in Nat
  BY ProgramFacts, Zenon DEF RType
<1>3. /\ Cardinality(todo') <= Cardinality(todo)
      /\ todo' # todo => Cardinality(todo') < Cardinality(todo)
  BY <1>1, <1>2, Zenon DEF RType
<1>4. /\ Cardinality(todoAncestors') <= Cardinality(todoAncestors)
      /\ todoAncestors' # todoAncestors => Cardinality(todoAncestors') < Cardinality(todoAncestors)
  BY <1>1, <1>2, Zenon DEF RType
<1>5. /\ Cardinality(todoClassAliases') <= Cardinality(todoClassAliases)
      /\ todoClassAliases' # todoClassAliases =>
           Cardinality(todoClassAliases') < Cardinality(todoClassAliases)
  BY <1>1, <1>2, Zenon DEF RType
<1>6. /\ Cardinality(todoTypeAliases') <= Cardinality(todoTypeAliases)
      /\ todoTypeAliases' # todoTypeAliases =>
           Cardinality(todoTypeAliases') < Cardinality(todoTypeAliases)
  BY <1>1, <1>2, Zenon DEF RType
<1> QED
  BY <1>3, <1>4, <1>5, <1>6, CountKept, Zenon

\* The trees are about to be walked.
LEMMA RInitInv == RInit => RInv
<1> SUFFICES ASSUME RInit PROVE RInv
  BY Zenon
<1> USE DEF RInit, Init
<1>1. isProgram(prog)
  BY ProgramFacts, Zenon
<1>2. RType
  <2>1. symbol \in [DOMAIN prog.constants -> Symbols]
    BY <1>1, Zenon DEF isProgram, Symbols
  <2>2. /\ resultType \in [ClassAliases \cup TypeAliases -> Symbols \cup {NoType, "todo"}]
        /\ \A a \in ClassAliases : resultType[a] \in Symbols \cup {NoType}
    BY Zenon
  <2> QED
    BY <2>1, <2>2, Zenon DEF RType
<1>3. PassIsOnList
  BY Zenon DEF PassIsOnList, Ended
<1>4. MissingIsOnList
  <2>1. \A i \in DOMAIN prog.constants :
          symbol[i] = NoSymbol => i \in todo \/ (phase = "walk" /\ i \in pass)
    BY Zenon
  <2>2. \A t \in DOMAIN prog.typeAliases :
          \E i \in todo : isDefinition(prog, i, typeOf(t)) /\ symbol[i] = typeOf(t)
    <3> TAKE t \in DOMAIN prog.typeAliases
    <3>1. PICK i \in DOMAIN prog.constants : isDefinition(prog, i, typeOf(t))
      BY <1>1, Zenon DEF isProgram, typeOf
    <3>2. symbol[i] = typeOf(t) /\ typeOf(t) # NoSymbol
      BY <1>1, <3>1, SymbolsAssumption, ZenonT(60) DEF isDefinition, isProgram, typeOf
    <3> QED
      BY <3>1, <3>2, Zenon
  <2>3. \A a \in DOMAIN prog.classAliases : \E b \in todoClassAliases : lhsOf(b) = lhsOf(a)
    BY Zenon
  <2> QED
    BY <2>1, <2>2, <2>3, Zenon DEF MissingIsOnList
<1>5. VisitedIsUnresolvable
  BY Zenon DEF VisitedIsUnresolvable, NothingIsMissed
<1>6. ProgressIsCounted
  BY <1>2, ListSizes DEF ProgressIsCounted, EveryRoundResolves, Rounds
<1> QED
  BY <1>2, <1>3, <1>4, <1>5, <1>6, Zenon DEF RInv

\* A pass has visited its list and the next one begins.
LEMMA EndPassInv ==
  ASSUME RInv, phase \notin Ended, endPass
  PROVE  RInv'
<1>a. /\ RType /\ PassIsOnList /\ MissingIsOnList /\ VisitedIsUnresolvable /\ ProgressIsCounted
  BY Zenon DEF RInv
<1>b. /\ pass = {} /\ phase' = nextPhase /\ pass' = items(nextPhase)
      /\ progress' = (progress /\ nextPhase # "ancestors")
      /\ retries' = IF nextPhase = "ancestors" THEN retries + 1 ELSE retries
      /\ UNCHANGED <<choice, symbol, resolutionFailed, lists, ancestry, resultType>>
  BY Zenon DEF endPass
<1>c. /\ UNCHANGED <<choice, symbol, resultType, superClass, mixins, linearized>>
      /\ UNCHANGED <<todo, todoAncestors, todoClassAliases, todoTypeAliases>>
  BY <1>b, Zenon DEF lists, ancestry
<1>d. prog' = prog
  BY <1>c, Zenon DEF prog
<1>e. phase \in {"walk", "failed", "lastClassAliases", "lastAncestors"} \cup Rounds
  BY <1>a, Zenon DEF RType
<1>1. /\ phase = "walk" => phase' = "ancestors" /\ pass' = todoAncestors
      /\ phase = "ancestors" => phase' = "constants" /\ pass' = todo
      /\ phase = "constants" => phase' = "classAliases" /\ pass' = todoClassAliases
      /\ phase = "classAliases" => phase' = "typeAliases" /\ pass' = todoTypeAliases
      /\ phase = "typeAliases" =>
           \/ loopsAgain /\ phase' = "ancestors" /\ pass' = todoAncestors
           \/ ~loopsAgain /\ phase' = "failed" /\ pass' = todo
      /\ phase = "failed" => phase' = "lastClassAliases" /\ pass' = todoClassAliases
      /\ phase = "lastClassAliases" => phase' = "lastAncestors" /\ pass' = todoAncestors
      /\ phase = "lastAncestors" => phase' = "done" /\ pass' = {}
  BY <1>b, <1>e, Zenon DEF nextPhase, items, Rounds
<1>2. /\ phase' = "ancestors" => ~progress' /\ retries' = retries + 1
      /\ phase' # "ancestors" => (progress' <=> progress) /\ retries' = retries
  BY <1>b, Zenon
<1>3. RType'
  <2>1. progress' \in BOOLEAN /\ retries' \in Nat
    BY <1>a, <1>b DEF RType
  <2>2. phase' \in {"walk", "failed", "lastClassAliases", "lastAncestors"} \cup Rounds \cup Ended
        /\ phase' # "walk"
    BY <1>e, <1>1, Zenon DEF Rounds, Ended
  <2> QED
    BY <1>a, <1>c, <1>d, <2>1, <2>2, Zenon DEF RType
<1>4. PassIsOnList'
  BY <1>a, <1>b, <1>c, <1>e, <1>1, Zenon DEF PassIsOnList, Rounds, Ended
<1>5. MissingIsOnList'
  BY <1>a, <1>b, <1>c, <1>d DEF MissingIsOnList, lhsOf, typeOf
<1>6. VisitedIsUnresolvable'
  <2>1. \A i : /\ resolveConstant(i)' = resolveConstant(i)
               /\ isResolvable(i)' <=> isResolvable(i)
    BY <1>c, LookupUnchanged, Zenon
  <2>2. CASE phase \in {"constants", "classAliases"}
    <3>1. /\ phase' \in {"classAliases", "typeAliases"} /\ (progress' <=> progress)
      BY <1>1, <1>2, <2>2, Zenon
    <3>2. ~progress => \A i \in todo : ~isResolvable(i)
      BY <1>a, <1>b, <2>2, Zenon DEF VisitedIsUnresolvable
    <3> QED
      BY <1>c, <2>1, <3>1, <3>2, Zenon DEF VisitedIsUnresolvable, NothingIsMissed
  <2>3. CASE phase = "ancestors"
    BY <1>c, <1>1, <2>3, Zenon DEF VisitedIsUnresolvable, NothingIsMissed
  <2>4. CASE phase = "typeAliases" /\ ~loopsAgain
    <3>1. phase' = "failed" /\ pass' = todo
      BY <1>1, <2>4, Zenon
    <3>2. \A i \in todo : ~isResolvable(i)
      BY <1>a, <2>4, Zenon DEF VisitedIsUnresolvable, loopsAgain
    <3>3. \A i \in todo : /\ exists(resolveConstant(i)) => resolveConstant(i) \in TypeAliases
                          /\ exists(symbol[i]) => symbol[i] \in TypeAliases
      BY <3>2, Zenon DEF isResolvable, isAlreadyResolved, isPendingTypeAlias, exists
    <3> QED
      BY <1>c, <2>1, <3>1, <3>3, Zenon DEF VisitedIsUnresolvable, NothingIsMissed, exists
  <2>5. CASE phase \notin {"ancestors", "constants", "classAliases"} /\ ~(phase = "typeAliases" /\ ~loopsAgain)
    <3>1. phase' \notin {"constants", "classAliases", "typeAliases", "failed"}
      BY <1>e, <1>1, <2>5, Zenon DEF Rounds
    <3> QED
      BY <3>1, Zenon DEF VisitedIsUnresolvable, NothingIsMissed
  <2> QED
    BY <2>2, <2>3, <2>4, <2>5, Zenon
<1>7. ProgressIsCounted'
  <2>1. itemsLeft' = itemsLeft /\ allItems' = allItems
    BY <1>c, <1>d, Zenon DEF itemsLeft, allItems
  <2>2. allItems \in Nat /\ itemsLeft \in Nat /\ itemsLeft <= allItems /\ retries \in Nat
    BY <1>a, ListSizes, Zenon DEF RType
  <2>3. phase' # "walk"
    BY <1>e, <1>1, Zenon DEF Rounds
  <2>4. CASE phase' = "ancestors"
    <3>1. phase = "walk" \/ (phase = "typeAliases" /\ progress)
      BY <1>e, <1>1, <2>4, Zenon DEF Rounds, loopsAgain
    <3>2. retries <= allItems - itemsLeft
      BY <1>a, <2>2, <3>1 DEF ProgressIsCounted, Rounds
    <3>3. retries' <= allItems' - itemsLeft' + 1
      BY <1>2, <2>1, <2>2, <2>4, <3>2
    <3> QED
      BY <1>2, <2>4, <3>3, Zenon DEF ProgressIsCounted, EveryRoundResolves
  <2>5. CASE phase' # "ancestors"
    <3>1. phase' \in Rounds => phase \in Rounds
      BY <1>e, <1>1, <2>5, Zenon DEF Rounds
    <3> QED
      BY <1>a, <1>2, <2>1, <2>3, <2>5, <3>1, Zenon DEF ProgressIsCounted, EveryRoundResolves
  <2> QED
    BY <2>4, <2>5, Zenon
<1> QED
  BY <1>3, <1>4, <1>5, <1>6, <1>7, Zenon DEF RInv

\* The item that is visited next is one the pass has yet to visit.
LEMMA FirstIsOnPass ==
  ASSUME RInv, phase \in {"walk", "lastClassAliases"} \cup Rounds, pass # {}
  PROVE  Min(pass) \in pass
<1>1. /\ DOMAIN prog.constants \subseteq Nat /\ DOMAIN prog.ancestors \subseteq Nat
      /\ DOMAIN prog.classAliases \subseteq Nat /\ DOMAIN prog.typeAliases \subseteq Nat
  BY ProgramFacts DEF RInv, RType
<1>2. pass \subseteq Nat
  BY <1>1, Zenon DEF RInv, RType, PassIsOnList, Rounds
<1> QED
  BY <1>2, MinIsLeast, Zenon

\* The walk of the trees, constant by constant.
LEMMA ResolveConstantsInv ==
  ASSUME RInv, resolveConstants
  PROVE  RInv'
<1>a. /\ RType /\ PassIsOnList /\ MissingIsOnList /\ VisitedIsUnresolvable /\ ProgressIsCounted
  BY Zenon DEF RInv
<1> DEFINE i == Min(pass)
<1>b. /\ phase \in {"walk", "constants"} /\ pass # {}
      /\ visit(i) /\ resolveConstantJob(i)
      /\ phase = "walk" => transformAncestor(i)
      /\ phase # "walk" => todoAncestors' = todoAncestors
      /\ UNCHANGED <<todoClassAliases, todoTypeAliases, ancestry, resultType>>
  BY Zenon DEF resolveConstants
<1>c. i \in pass
  BY <1>b, FirstIsOnPass, Zenon DEF Rounds
<1> HIDE DEF i
<1>d. /\ pass' = pass \ {i} /\ UNCHANGED <<choice, phase, retries>>
      /\ UNCHANGED <<todoClassAliases, todoTypeAliases, resultType, superClass, mixins, linearized>>
      /\ todoAncestors' \subseteq todoAncestors
  BY <1>b, Zenon DEF visit, ancestry, transformAncestor
<1>e. prog' = prog
  BY <1>d, Zenon DEF prog
<1>f. i \in DOMAIN prog.constants
  BY <1>a, <1>b, <1>c, Zenon DEF RType, PassIsOnList
<1>1. \/ /\ isResolvable(i) /\ symbol' = [symbol EXCEPT ![i] = symbol'[i]]
         /\ symbol'[i] \in Symbols \ {NoSymbol}
         /\ todo' = todo \ {i} /\ progress' = TRUE
      \/ /\ ~isResolvable(i) /\ todo' = todo \cup {i} /\ UNCHANGED <<symbol, progress>>
  <2>1. CASE ~isResolvable(i)
    BY <1>b, <2>1, Zenon DEF resolveConstantJob
  <2>2. CASE isResolvable(i)
    <3> DEFINE v == IF isAlreadyResolved(i) THEN symbol[i] ELSE resolveConstant(i)
    <3>1. symbol' = [symbol EXCEPT ![i] = v] /\ todo' = todo \ {i} /\ progress' = TRUE
      BY <1>b, <2>2, Zenon DEF resolveConstantJob
    <3>2. v \in Symbols \ {NoSymbol}
      BY <1>a, <1>f, <2>2, Zenon DEF isResolvable, isAlreadyResolved, exists, RType
    <3> HIDE DEF v
    <3>3. symbol'[i] = v
      BY <1>a, <1>f, <3>1, Zenon DEF RType
    <3> QED
      BY <2>2, <3>1, <3>2, <3>3, Zenon
  <2> QED
    BY <2>1, <2>2, Zenon
<1>2. \A k \in DOMAIN prog.constants : k # i => symbol'[k] = symbol[k]
  BY <1>a, <1>1, Zenon DEF RType
<1>3. RType'
  <2>1. symbol' \in [DOMAIN prog.constants -> Symbols]
    BY <1>a, <1>1, <1>f, Zenon DEF RType
  <2>2. progress' \in BOOLEAN /\ todo' \subseteq DOMAIN prog.constants
    BY <1>a, <1>1, <1>f, Zenon DEF RType
  <2> QED
    BY <1>a, <1>d, <1>e, <2>1, <2>2, Zenon DEF RType
<1>4. PassIsOnList'
  BY <1>a, <1>b, <1>d, <1>1, Zenon DEF PassIsOnList, Ended
<1>5. MissingIsOnList'
  <2>1. \A k \in DOMAIN prog.constants :
          symbol'[k] = NoSymbol => k \in todo' \/ (phase = "walk" /\ k \in pass')
    BY <1>a, <1>d, <1>1, <1>2, Zenon DEF MissingIsOnList
  <2>2. \A a \in DOMAIN prog.classAliases :
          resultType'[lhsOf(a)] = NoType => \E b \in todoClassAliases' : lhsOf(b) = lhsOf(a)
    BY <1>a, <1>d, Zenon DEF MissingIsOnList
  <2>3. \A t \in DOMAIN prog.typeAliases :
          resultType'[typeOf(t)] = NoType =>
            \E k \in todo' : isDefinition(prog, k, typeOf(t)) /\ symbol'[k] = typeOf(t)
    <3> SUFFICES ASSUME NEW t \in DOMAIN prog.typeAliases, resultType[typeOf(t)] = NoType
                 PROVE  \E k \in todo' : isDefinition(prog, k, typeOf(t)) /\ symbol'[k] = typeOf(t)
      BY <1>d, Zenon
    <3>1. PICK d \in todo : isDefinition(prog, d, typeOf(t)) /\ symbol[d] = typeOf(t)
      BY <1>a, Zenon DEF MissingIsOnList
    <3>2. typeOf(t) \in TypeAliases
      BY <1>a, ProgramFacts, Zenon DEF RType, isProgram, typeOf
    <3>3. ~isResolvable(d)
      BY <1>a, <3>1, <3>2, DefinitionIsFound, Zenon DEF RType
    <3>4. d \in todo' /\ symbol'[d] = symbol[d]
      BY <1>a, <1>1, <1>2, <3>1, <3>3, Zenon DEF RType
    <3> QED
      BY <3>1, <3>4, Zenon
  <2> QED
    BY <1>d, <1>e, <2>1, <2>2, <2>3, Zenon DEF MissingIsOnList, lhsOf, typeOf
<1>6. VisitedIsUnresolvable'
  <2>1. CASE phase = "walk"
    BY <1>d, <2>1, Zenon DEF VisitedIsUnresolvable, NothingIsMissed
  <2>2. CASE phase = "constants" /\ ~progress'
    <3>1. /\ ~isResolvable(i) /\ todo' = todo \cup {i} /\ UNCHANGED <<symbol, progress>>
      BY <1>1, <2>2, Zenon
    <3>2. todo' = todo
      BY <1>a, <1>c, <2>2, <3>1, Zenon DEF PassIsOnList
    <3>3. \A k \in todo : k \notin pass' => ~isResolvable(k)
      BY <1>a, <1>d, <2>2, <3>1, Zenon DEF VisitedIsUnresolvable
    <3>4. \A k : isResolvable(k)' <=> isResolvable(k)
      BY <1>d, <3>1, LookupUnchanged, Zenon
    <3> QED
      BY <1>d, <2>2, <3>2, <3>3, <3>4, Zenon DEF VisitedIsUnresolvable, NothingIsMissed
  <2>3. CASE phase = "constants" /\ progress'
    BY <1>d, <2>3, Zenon DEF VisitedIsUnresolvable, NothingIsMissed
  <2> QED
    BY <1>b, <2>1, <2>2, <2>3, Zenon
<1>7. ProgressIsCounted'
  <2>1. CASE phase = "walk"
    BY <1>a, <1>d, <1>3, <2>1, NoRoundYet, Zenon DEF ProgressIsCounted
  <2>2. CASE phase = "constants"
    <3>1. i \in todo
      BY <1>a, <1>c, <2>2, Zenon DEF PassIsOnList
    <3>2. todo' \subseteq todo /\ (todo' # todo \/ progress' = progress)
      BY <1>1, <3>1, Zenon
    <3> QED
      BY <1>a, <1>d, <1>3, <2>2, <3>2, SmallerListsCount
  <2> QED
    BY <1>b, <2>1, <2>2, Zenon
<1> QED
  BY <1>3, <1>4, <1>5, <1>6, <1>7, Zenon DEF RInv

\* The pass over the ancestors.
LEMMA ResolveAncestorsInv ==
  ASSUME RInv, resolveAncestors
  PROVE  RInv'
<1>a. /\ RType /\ PassIsOnList /\ MissingIsOnList /\ VisitedIsUnresolvable /\ ProgressIsCounted
  BY Zenon DEF RInv
<1> DEFINE j == Min(pass)
<1>b. /\ phase = "ancestors" /\ pass # {} /\ visit(j) /\ resolveAncestorJob(j)
      /\ UNCHANGED <<symbol, todo, todoClassAliases, todoTypeAliases, resultType>>
  BY Zenon DEF resolveAncestors
<1>c. j \in pass
  BY <1>b, FirstIsOnPass, Zenon DEF Rounds
<1> HIDE DEF j
<1>d. pass' = pass \ {j} /\ UNCHANGED <<choice, phase, retries>>
  BY <1>b, Zenon DEF visit
<1>e. prog' = prog
  BY <1>d, Zenon DEF prog
<1>1. \/ todoAncestors' = todoAncestors \ {j} /\ progress' = TRUE
      \/ UNCHANGED <<todoAncestors, progress>>
  BY <1>b, Zenon DEF resolveAncestorJob, addAncestor
<1>2. j \in todoAncestors
  BY <1>a, <1>b, <1>c, Zenon DEF PassIsOnList
<1>3. RType'
  BY <1>a, <1>b, <1>d, <1>e, <1>1, Zenon DEF RType
<1>4. PassIsOnList'
  BY <1>a, <1>b, <1>d, <1>1, Zenon DEF PassIsOnList, Ended
<1>5. MissingIsOnList'
  BY <1>a, <1>b, <1>d, <1>e, Zenon DEF MissingIsOnList, lhsOf, typeOf
<1>6. VisitedIsUnresolvable'
  BY <1>b, <1>d, Zenon DEF VisitedIsUnresolvable, NothingIsMissed
<1>7. ProgressIsCounted'
  <2>1. todoAncestors' \subseteq todoAncestors /\ (todoAncestors' # todoAncestors \/ progress' = progress)
    BY <1>1, <1>2, Zenon
  <2> QED
    BY <1>a, <1>b, <1>d, <1>3, <2>1, SmallerListsCount
<1> QED
  BY <1>3, <1>4, <1>5, <1>6, <1>7, Zenon DEF RInv

\* The ancestors that are left get stubs.
LEMMA ReportAncestorsInv ==
  ASSUME RInv, reportAncestors
  PROVE  RInv'
<1>a. /\ RType /\ PassIsOnList /\ MissingIsOnList /\ VisitedIsUnresolvable /\ ProgressIsCounted
  BY Zenon DEF RInv
<1>b. PICK j : /\ phase = "lastAncestors" /\ visit(j) /\ addAncestor(j)
               /\ UNCHANGED <<symbol, todo, todoClassAliases, todoTypeAliases, resultType>>
  BY Zenon DEF reportAncestors
<1>d. pass' = pass \ {j} /\ UNCHANGED <<choice, phase, retries>>
  BY <1>b, Zenon DEF visit
<1>e. prog' = prog
  BY <1>d, Zenon DEF prog
<1>1. todoAncestors' = todoAncestors \ {j} /\ progress' = TRUE
  BY <1>b, Zenon DEF addAncestor
<1>3. RType'
  BY <1>a, <1>b, <1>d, <1>e, <1>1, Zenon DEF RType
<1>4. PassIsOnList'
  BY <1>a, <1>b, <1>d, <1>1, Zenon DEF PassIsOnList, Ended
<1>5. MissingIsOnList'
  BY <1>a, <1>b, <1>d, <1>e, Zenon DEF MissingIsOnList, lhsOf, typeOf
<1>6. VisitedIsUnresolvable'
  BY <1>b, <1>d, Zenon DEF VisitedIsUnresolvable, NothingIsMissed
<1>7. ProgressIsCounted'
  BY <1>a, <1>b, <1>d, <1>1, <1>3, SmallerListsCount, Zenon DEF Rounds
<1> QED
  BY <1>3, <1>4, <1>5, <1>6, <1>7, Zenon DEF RInv

\* The pass over the class aliases.
LEMMA ResolveClassAliasesInv ==
  ASSUME RInv, resolveClassAliases
  PROVE  RInv'
<1>a. /\ RType /\ PassIsOnList /\ MissingIsOnList /\ VisitedIsUnresolvable /\ ProgressIsCounted
  BY Zenon DEF RInv
<1> DEFINE i == Min(pass)
<1>b. /\ phase \in {"classAliases", "lastClassAliases"} /\ pass # {}
      /\ visit(i) /\ resolveClassAliasJob(i)
      /\ UNCHANGED <<symbol, todo, todoAncestors, todoTypeAliases, ancestry>>
  BY Zenon DEF resolveClassAliases
<1>c. i \in pass
  BY <1>b, FirstIsOnPass, Zenon DEF Rounds
<1> HIDE DEF i
<1>d. /\ pass' = pass \ {i} /\ UNCHANGED <<choice, phase, retries>>
      /\ UNCHANGED <<superClass, mixins, linearized>>
  BY <1>b, Zenon DEF visit, ancestry
<1>e. prog' = prog
  BY <1>d, Zenon DEF prog
<1>f. i \in todoClassAliases /\ i \in DOMAIN prog.classAliases
  BY <1>a, <1>b, <1>c, Zenon DEF RType, PassIsOnList
<1>g. /\ \A a \in DOMAIN prog.classAliases :
           lhsOf(a) \in ClassAliases /\ prog.classAliases[a].rhs \in DOMAIN prog.constants
      /\ \A t \in DOMAIN prog.typeAliases : typeOf(t) \in TypeAliases
  BY <1>a, ProgramFacts, Zenon DEF RType, isProgram, lhsOf, typeOf
<1> DEFINE rhs == prog.classAliases[i].rhs
<1>1. \/ /\ symbol[rhs] # NoSymbol
         /\ resultType' = [resultType EXCEPT ![lhsOf(i)] = resultType'[lhsOf(i)]]
         /\ resultType'[lhsOf(i)] \in Symbols
         /\ todoClassAliases' = todoClassAliases \ {i} /\ progress' = TRUE
      \/ symbol[rhs] = NoSymbol /\ UNCHANGED <<resultType, todoClassAliases, progress>>
  <2>1. CASE symbol[rhs] # NoSymbol
    <3> DEFINE v == aliasTarget(lhsOf(i), symbol[rhs])
    <3>1. /\ resultType' = [resultType EXCEPT ![lhsOf(i)] = v]
          /\ todoClassAliases' = todoClassAliases \ {i} /\ progress' = TRUE
      BY <1>b, <2>1, Zenon DEF resolveClassAliasJob, lhsOf
    <3>2. v \in Symbols
      BY <1>a, <1>f, <1>g, Zenon DEF aliasTarget, RType, Symbols, ClassesAndModules
    <3> HIDE DEF v
    <3>3. resultType'[lhsOf(i)] = v
      BY <1>a, <1>f, <1>g, <3>1, Zenon DEF RType
    <3> QED
      BY <2>1, <3>1, <3>2, <3>3, Zenon
  <2>2. CASE symbol[rhs] = NoSymbol
    BY <1>b, <2>2, Zenon DEF resolveClassAliasJob
  <2> QED
    BY <2>1, <2>2, Zenon
<1>2. \A s \in ClassAliases \cup TypeAliases : s # lhsOf(i) => resultType'[s] = resultType[s]
  BY <1>a, <1>1, Zenon DEF RType
<1>3. RType'
  <2>1. /\ resultType' \in [ClassAliases \cup TypeAliases -> Symbols \cup {NoType, "todo"}]
        /\ \A a \in ClassAliases : resultType'[a] \in Symbols \cup {NoType}
    BY <1>a, <1>f, <1>g, <1>1, <1>2, Zenon DEF RType
  <2>2. progress' \in BOOLEAN /\ todoClassAliases' \subseteq DOMAIN prog.classAliases
    BY <1>a, <1>1, Zenon DEF RType
  <2> QED
    BY <1>a, <1>b, <1>d, <1>e, <2>1, <2>2, Zenon DEF RType
<1>4. PassIsOnList'
  <2>1. phase = "lastClassAliases" => symbol[rhs] # NoSymbol
    BY <1>a, <1>f, <1>g, Zenon DEF MissingIsOnList, PassIsOnList
  <2> QED
    BY <1>a, <1>b, <1>d, <1>1, <2>1, Zenon DEF PassIsOnList, Ended
<1>5. MissingIsOnList'
  <2>1. \A k \in DOMAIN prog.constants :
          symbol'[k] = NoSymbol => k \in todo' \/ (phase = "walk" /\ k \in pass')
    BY <1>a, <1>b, Zenon DEF MissingIsOnList
  <2>2. ASSUME NEW a \in DOMAIN prog.classAliases, resultType'[lhsOf(a)] = NoType
        PROVE  \E b \in todoClassAliases' : lhsOf(b) = lhsOf(a)
    <3>1. CASE symbol[rhs] # NoSymbol
      <4>1. resultType'[lhsOf(i)] # NoType
        BY <1>1, <3>1, SymbolsAssumption, Zenon
      <4>2. resultType[lhsOf(a)] = NoType /\ lhsOf(a) # lhsOf(i)
        BY <1>g, <1>2, <2>2, <4>1, Zenon
      <4>3. PICK b \in todoClassAliases : lhsOf(b) = lhsOf(a)
        BY <1>a, <4>2, Zenon DEF MissingIsOnList
      <4>4. b # i
        BY <4>2, <4>3, Zenon
      <4> QED
        BY <1>1, <3>1, <4>3, <4>4, Zenon
    <3>2. CASE symbol[rhs] = NoSymbol
      BY <1>a, <1>1, <2>2, <3>2, Zenon DEF MissingIsOnList
    <3> QED
      BY <3>1, <3>2, Zenon
  <2>3. \A t \in DOMAIN prog.typeAliases :
          resultType'[typeOf(t)] = NoType =>
            \E k \in todo' : isDefinition(prog, k, typeOf(t)) /\ symbol'[k] = typeOf(t)
    <3>1. \A t \in DOMAIN prog.typeAliases : resultType'[typeOf(t)] = resultType[typeOf(t)]
      BY <1>f, <1>g, <1>2, SymbolsAssumption, Zenon
    <3> QED
      BY <1>a, <1>b, <3>1, Zenon DEF MissingIsOnList
  <2> QED
    BY <1>d, <1>e, <2>1, <2>2, <2>3, Zenon DEF MissingIsOnList, lhsOf, typeOf
<1>6. VisitedIsUnresolvable'
  <2>1. CASE phase = "classAliases" /\ ~progress'
    <3>1. UNCHANGED <<resultType, progress>>
      BY <1>1, <2>1, Zenon
    <3>2. \A k : isResolvable(k)' <=> isResolvable(k)
      BY <1>b, <1>d, <3>1, LookupUnchanged, Zenon
    <3> QED
      BY <1>a, <1>b, <1>d, <2>1, <3>1, <3>2, Zenon DEF VisitedIsUnresolvable, NothingIsMissed
  <2>2. CASE phase = "lastClassAliases" \/ progress'
    BY <1>b, <1>d, <2>2, Zenon DEF VisitedIsUnresolvable, NothingIsMissed
  <2> QED
    BY <1>b, <2>1, <2>2, Zenon
<1>7. ProgressIsCounted'
  <2>1. /\ todoClassAliases' \subseteq todoClassAliases
        /\ todoClassAliases' # todoClassAliases \/ progress' = progress
    BY <1>f, <1>1, Zenon
  <2> QED
    BY <1>a, <1>b, <1>d, <1>3, <2>1, SmallerListsCount
<1> QED
  BY <1>3, <1>4, <1>5, <1>6, <1>7, Zenon DEF RInv

\* The pass over the type aliases.
LEMMA ResolveTypeAliasesInv ==
  ASSUME RInv, resolveTypeAliases
  PROVE  RInv'
<1>a. /\ RType /\ PassIsOnList /\ MissingIsOnList /\ VisitedIsUnresolvable /\ ProgressIsCounted
  BY Zenon DEF RInv
<1> DEFINE i == Min(pass)
<1>b. /\ phase = "typeAliases" /\ pass # {} /\ visit(i) /\ resolveTypeAliasJob(i)
      /\ UNCHANGED <<symbol, todo, todoAncestors, todoClassAliases, ancestry>>
  BY Zenon DEF resolveTypeAliases
<1>c. i \in pass
  BY <1>b, FirstIsOnPass, Zenon DEF Rounds
<1> HIDE DEF i
<1>d. /\ pass' = pass \ {i} /\ UNCHANGED <<choice, phase, retries>>
      /\ UNCHANGED <<superClass, mixins, linearized>>
  BY <1>b, Zenon DEF visit, ancestry
<1>e. prog' = prog
  BY <1>d, Zenon DEF prog
<1>f. i \in todoTypeAliases /\ i \in DOMAIN prog.typeAliases
  BY <1>a, <1>b, <1>c, Zenon DEF RType, PassIsOnList
<1>g. /\ \A a \in DOMAIN prog.classAliases : lhsOf(a) \in ClassAliases
      /\ \A t \in DOMAIN prog.typeAliases : typeOf(t) \in TypeAliases
  BY <1>a, ProgramFacts, Zenon DEF RType, isProgram, lhsOf, typeOf
<1>1. \/ /\ resultType' = [resultType EXCEPT ![typeOf(i)] = "todo"]
         /\ todoTypeAliases' = todoTypeAliases \ {i} /\ progress' = TRUE
      \/ UNCHANGED <<resultType, todoTypeAliases, progress>>
  BY <1>b, Zenon DEF resolveTypeAliasJob, typeOf
<1>2. \A s \in ClassAliases \cup TypeAliases :
        resultType'[s] = NoType => resultType[s] = NoType
  BY <1>a, <1>1, Zenon DEF RType, NoType
<1>3. RType'
  <2>1. /\ resultType' \in [ClassAliases \cup TypeAliases -> Symbols \cup {NoType, "todo"}]
        /\ \A a \in ClassAliases : resultType'[a] \in Symbols \cup {NoType}
    BY <1>a, <1>f, <1>g, <1>1, SymbolsAssumption, ZenonT(60) DEF RType
  <2>2. progress' \in BOOLEAN /\ todoTypeAliases' \subseteq DOMAIN prog.typeAliases
    BY <1>a, <1>1, Zenon DEF RType
  <2> QED
    BY <1>a, <1>b, <1>d, <1>e, <2>1, <2>2, Zenon DEF RType
<1>4. PassIsOnList'
  BY <1>a, <1>b, <1>d, <1>1, Zenon DEF PassIsOnList, Ended
<1>5. MissingIsOnList'
  <2>1. \A k \in DOMAIN prog.constants :
          symbol'[k] = NoSymbol => k \in todo' \/ (phase = "walk" /\ k \in pass')
    BY <1>a, <1>b, Zenon DEF MissingIsOnList
  <2>2. \A a \in DOMAIN prog.classAliases :
          resultType'[lhsOf(a)] = NoType => \E b \in todoClassAliases' : lhsOf(b) = lhsOf(a)
    BY <1>a, <1>b, <1>g, <1>2, Zenon DEF MissingIsOnList
  <2>3. \A t \in DOMAIN prog.typeAliases :
          resultType'[typeOf(t)] = NoType =>
            \E k \in todo' : isDefinition(prog, k, typeOf(t)) /\ symbol'[k] = typeOf(t)
    BY <1>a, <1>b, <1>g, <1>2, Zenon DEF MissingIsOnList
  <2> QED
    BY <1>d, <1>e, <2>1, <2>2, <2>3, Zenon DEF MissingIsOnList, lhsOf, typeOf
<1>6. VisitedIsUnresolvable'
  <2>1. CASE ~progress'
    <3>1. UNCHANGED <<resultType, progress>>
      BY <1>1, <2>1, Zenon
    <3>2. \A k : isResolvable(k)' <=> isResolvable(k)
      BY <1>b, <1>d, <3>1, LookupUnchanged, Zenon
    <3> QED
      BY <1>a, <1>b, <1>d, <2>1, <3>1, <3>2, Zenon DEF VisitedIsUnresolvable, NothingIsMissed
  <2>2. CASE progress'
    BY <1>b, <1>d, <2>2, Zenon DEF VisitedIsUnresolvable, NothingIsMissed
  <2> QED
    BY <2>1, <2>2, Zenon
<1>7. ProgressIsCounted'
  <2>1. /\ todoTypeAliases' \subseteq todoTypeAliases
        /\ todoTypeAliases' # todoTypeAliases \/ progress' = progress
    BY <1>f, <1>1, Zenon
  <2> QED
    BY <1>a, <1>b, <1>d, <1>3, <2>1, SmallerListsCount
<1> QED
  BY <1>3, <1>4, <1>5, <1>6, <1>7, Zenon DEF RInv

\* The constants that are left get stubs.
LEMMA ReportConstantsInv ==
  ASSUME RInv, reportConstants
  PROVE  RInv'
<1>a. /\ RType /\ PassIsOnList /\ MissingIsOnList /\ VisitedIsUnresolvable /\ ProgressIsCounted
  BY Zenon DEF RInv
<1>b. PICK i : /\ phase = "failed" /\ visit(i) /\ constantResolutionFailed(i) /\ todo' = todo \ {i}
               /\ UNCHANGED <<progress, todoAncestors, todoClassAliases, todoTypeAliases, ancestry>>
  BY Zenon DEF reportConstants
<1>d. /\ pass' = pass \ {i} /\ UNCHANGED <<choice, phase, retries>>
      /\ UNCHANGED <<superClass, mixins, linearized>>
  BY <1>b, Zenon DEF visit, ancestry
<1>e. prog' = prog
  BY <1>d, Zenon DEF prog
<1>f. /\ \A a \in DOMAIN prog.classAliases : lhsOf(a) \in ClassAliases
      /\ \A t \in DOMAIN prog.typeAliases : typeOf(t) \in TypeAliases
  BY <1>a, ProgramFacts, Zenon DEF RType, isProgram, lhsOf, typeOf
<1> DEFINE found == resolveConstant(i)
           stub == IF i \in resolutionFailed' THEN Untyped ELSE StubModule
           v == IF found \in TypeAliases THEN found ELSE stub
<1>1. /\ symbol' = [symbol EXCEPT ![i] = v]
      /\ found \in TypeAliases =>
           resultType' = [resultType EXCEPT ![found] =
                            IF resultType[found] = NoType THEN Untyped ELSE resultType[found]]
      /\ found \notin TypeAliases => resultType' = resultType
  BY <1>b, Zenon DEF constantResolutionFailed
<1>2. v \in TypeAliases \cup {Untyped, StubModule} /\ v \in Symbols \ {NoSymbol}
  BY SymbolsAssumption, Zenon DEF Symbols, ClassesAndModules
<1> HIDE DEF v
<1>3. /\ \A k \in DOMAIN prog.constants : k # i => symbol'[k] = symbol[k]
      /\ i \in DOMAIN prog.constants => symbol'[i] = v
  BY <1>a, <1>1, Zenon DEF RType
<1>4. /\ \A s \in ClassAliases : resultType'[s] = resultType[s]
      /\ \A s \in TypeAliases : resultType'[s] = NoType => resultType[s] = NoType /\ s # found
  <2>1. Untyped # NoType
    BY SymbolsAssumption, Zenon DEF Symbols, ClassesAndModules
  <2> QED
    BY <1>a, <1>1, <2>1, SymbolsAssumption, Zenon DEF RType
<1>5. RType'
  <2>1. symbol' \in [DOMAIN prog.constants -> Symbols]
    BY <1>a, <1>1, <1>2, Zenon DEF RType
  <2>2. /\ resultType' \in [ClassAliases \cup TypeAliases -> Symbols \cup {NoType, "todo"}]
        /\ \A a \in ClassAliases : resultType'[a] \in Symbols \cup {NoType}
    BY <1>a, <1>1, <1>4, Zenon DEF RType, Symbols, ClassesAndModules
  <2> QED
    BY <1>a, <1>b, <1>d, <1>e, <2>1, <2>2, Zenon DEF RType
<1>6. PassIsOnList'
  BY <1>a, <1>b, <1>d, Zenon DEF PassIsOnList, Ended
<1>7. MissingIsOnList'
  <2>1. \A k \in DOMAIN prog.constants :
          symbol'[k] = NoSymbol => k \in todo' \/ (phase = "walk" /\ k \in pass')
    BY <1>a, <1>b, <1>2, <1>3, Zenon DEF MissingIsOnList
  <2>2. \A a \in DOMAIN prog.classAliases :
          resultType'[lhsOf(a)] = NoType => \E b \in todoClassAliases' : lhsOf(b) = lhsOf(a)
    BY <1>a, <1>b, <1>f, <1>4, Zenon DEF MissingIsOnList
  <2>3. ASSUME NEW t \in DOMAIN prog.typeAliases, resultType'[typeOf(t)] = NoType
        PROVE  \E k \in todo' : isDefinition(prog, k, typeOf(t)) /\ symbol'[k] = typeOf(t)
    <3>1. resultType[typeOf(t)] = NoType /\ typeOf(t) # found
      BY <1>f, <1>4, <2>3, Zenon
    <3>2. PICK d \in todo : isDefinition(prog, d, typeOf(t)) /\ symbol[d] = typeOf(t)
      BY <1>a, <3>1, Zenon DEF MissingIsOnList
    <3>3. d # i
      BY <1>a, <1>f, <3>1, <3>2, DefinitionIsFound, Zenon DEF RType
    <3>4. d \in todo' /\ symbol'[d] = symbol[d]
      BY <1>a, <1>b, <1>3, <3>3, Zenon DEF RType
    <3> QED
      BY <3>2, <3>4, Zenon
  <2> QED
    BY <1>d, <1>e, <2>1, <2>2, <2>3, Zenon DEF MissingIsOnList, lhsOf, typeOf
<1>8. VisitedIsUnresolvable'
  <2>1. aliases' = aliases
    BY <1>4, Zenon DEF aliases
  <2>2. \A k : exists(resolveConstant(k)') => resolveConstant(k)' = resolveConstant(k)
    BY <1>a, <1>d, <1>1, <1>2, <2>1, StubResolvesNothing, Zenon
  <2>3. \A k \in pass' : /\ exists(resolveConstant(k)) => resolveConstant(k) \in TypeAliases
                         /\ exists(symbol[k]) => symbol[k] \in TypeAliases
                         /\ symbol'[k] = symbol[k]
    BY <1>a, <1>b, <1>d, <1>3, Zenon DEF VisitedIsUnresolvable, NothingIsMissed, PassIsOnList, RType
  <2>4. \A k \in pass' : /\ exists(resolveConstant(k)') => resolveConstant(k)' \in TypeAliases
                         /\ exists(symbol'[k]) => symbol'[k] \in TypeAliases
    BY <2>2, <2>3, Zenon
  <2> QED
    BY <1>b, <1>d, <2>4, Zenon DEF VisitedIsUnresolvable, NothingIsMissed, exists
<1>9. ProgressIsCounted'
  BY <1>a, <1>b, <1>d, <1>5, SmallerListsCount, Zenon DEF Rounds
<1> QED
  BY <1>5, <1>6, <1>7, <1>8, <1>9, Zenon DEF RInv

\* What follows resolveConstants leaves its lists alone.
LEMMA AfterwardsInv ==
  ASSUME RInv, phase \in Ended, phase' \in Ended,
         UNCHANGED <<choice, progress, retries, symbol, lists, resultType>>
  PROVE  RInv'
<1>a. /\ RType /\ PassIsOnList /\ MissingIsOnList /\ VisitedIsUnresolvable /\ ProgressIsCounted
  BY Zenon DEF RInv
<1>b. UNCHANGED <<todo, todoAncestors, todoClassAliases, todoTypeAliases>>
  BY Zenon DEF lists
<1>c. prog' = prog
  BY Zenon DEF prog
<1>1. RType'
  BY <1>a, <1>b, <1>c, Zenon DEF RType, Ended
<1>2. PassIsOnList'
  BY <1>a, <1>b, Zenon DEF PassIsOnList, Ended
<1>3. MissingIsOnList'
  BY <1>a, <1>b, <1>c, Zenon DEF MissingIsOnList, lhsOf, typeOf, Ended
<1>4. VisitedIsUnresolvable'
  BY Zenon DEF VisitedIsUnresolvable, NothingIsMissed, Ended
<1>5. ProgressIsCounted'
  BY <1>a, <1>b, <1>1, SmallerListsCount, Zenon DEF Rounds, Ended
<1> QED
  BY <1>1, <1>2, <1>3, <1>4, <1>5, Zenon DEF RInv

\* A fast path begins over some of the files.
LEMMA RunIncrementalInv ==
  ASSUME RInv, NEW files, runIncremental(files)
  PROVE  RInv'
<1>a. /\ RType /\ PassIsOnList /\ MissingIsOnList
  BY Zenon DEF RInv
<1> DEFINE mine == isIn(files, prog.constants)
<1>b. /\ phase = "resolved" /\ phase' = "walk" /\ progress' = FALSE /\ retries' = 0
      /\ choice' = choice
      /\ symbol' = [i \in DOMAIN symbol |->
                      IF i \in mine THEN prog.constants[i].symbol ELSE symbol[i]]
      /\ todo' = {i \in mine : prog.constants[i].symbol # NoSymbol}
      /\ pass' = mine \ todo'
      /\ todoAncestors' = isIn(files, prog.ancestors)
      /\ todoClassAliases' = isIn(files, prog.classAliases)
      /\ todoTypeAliases' = isIn(files, prog.typeAliases)
      /\ resultType' = [s \in DOMAIN resultType |->
                          IF reset(files, prog.classAliases, s) \/ reset(files, prog.typeAliases, s)
                            THEN NoType ELSE resultType[s]]
  BY Zenon DEF runIncremental
<1>c. prog' = prog
  BY <1>b, Zenon DEF prog
<1>d. isProgram(prog)
  BY <1>a, ProgramFacts, Zenon DEF RType
<1>e. DOMAIN symbol = DOMAIN prog.constants /\ DOMAIN resultType = ClassAliases \cup TypeAliases
  BY <1>a, Zenon DEF RType
<1>f. todo = {} /\ todoClassAliases = {}
  BY <1>a, <1>b, Zenon DEF PassIsOnList, Ended
<1>1. /\ \A i \in DOMAIN prog.constants : symbol[i] # NoSymbol
      /\ \A a \in DOMAIN prog.classAliases : resultType[lhsOf(a)] # NoType
      /\ \A t \in DOMAIN prog.typeAliases : resultType[typeOf(t)] # NoType
  BY <1>a, <1>b, <1>f, Zenon DEF MissingIsOnList
<1>2. /\ \A a \in DOMAIN prog.classAliases : lhsOf(a) \in ClassAliases
      /\ \A t \in DOMAIN prog.typeAliases : typeOf(t) \in TypeAliases
  BY <1>d, Zenon DEF isProgram, lhsOf, typeOf
<1>3. RType'
  <2>1. symbol' \in [DOMAIN prog.constants -> Symbols]
    BY <1>a, <1>b, <1>d, <1>e, Zenon DEF RType, isProgram, Symbols
  <2>2. /\ resultType' \in [ClassAliases \cup TypeAliases -> Symbols \cup {NoType, "todo"}]
        /\ \A a \in ClassAliases : resultType'[a] \in Symbols \cup {NoType}
    BY <1>a, <1>b, <1>e, Zenon DEF RType
  <2>3. /\ todo' \subseteq DOMAIN prog.constants /\ todoAncestors' \subseteq DOMAIN prog.ancestors
        /\ todoClassAliases' \subseteq DOMAIN prog.classAliases
        /\ todoTypeAliases' \subseteq DOMAIN prog.typeAliases
        /\ pass' \subseteq DOMAIN prog.constants
    BY <1>b, Zenon DEF isIn
  <2> QED
    BY <1>a, <1>b, <1>c, <2>1, <2>2, <2>3, Zenon DEF RType
<1>4. PassIsOnList'
  BY <1>b, Zenon DEF PassIsOnList, Ended
<1>5. MissingIsOnList'
  <2>1. \A k \in DOMAIN prog.constants :
          symbol'[k] = NoSymbol => k \in todo' \/ k \in pass'
    BY <1>b, <1>e, <1>1, Zenon
  <2>2. ASSUME NEW a \in DOMAIN prog.classAliases, resultType'[lhsOf(a)] = NoType
        PROVE  \E b \in todoClassAliases' : lhsOf(b) = lhsOf(a)
    <3>1. /\ resultType[lhsOf(a)] # NoType /\ lhsOf(a) \in ClassAliases
      BY <1>1, <1>2, Zenon
    <3>2. \/ reset(files, prog.classAliases, lhsOf(a)) \/ reset(files, prog.typeAliases, lhsOf(a))
      BY <1>b, <1>e, <2>2, <3>1, Zenon
    <3>3. ~reset(files, prog.typeAliases, lhsOf(a))
      BY <1>2, <3>1, SymbolsAssumption, Zenon DEF reset, isIn, typeOf
    <3> QED
      BY <1>b, <3>2, <3>3, Zenon DEF reset, lhsOf
  <2>3. ASSUME NEW t \in DOMAIN prog.typeAliases, resultType'[typeOf(t)] = NoType
        PROVE  \E k \in todo' : isDefinition(prog, k, typeOf(t)) /\ symbol'[k] = typeOf(t)
    <3>1. /\ resultType[typeOf(t)] # NoType /\ typeOf(t) \in TypeAliases
      BY <1>1, <1>2, Zenon
    <3>2. \/ reset(files, prog.classAliases, typeOf(t)) \/ reset(files, prog.typeAliases, typeOf(t))
      BY <1>b, <1>e, <2>3, <3>1, Zenon
    <3>3. ~reset(files, prog.classAliases, typeOf(t))
      BY <1>2, <3>1, SymbolsAssumption, Zenon DEF reset, isIn, lhsOf
    <3>4. PICK u \in isIn(files, prog.typeAliases) : typeOf(u) = typeOf(t)
      BY <3>2, <3>3, Zenon DEF reset, typeOf
    <3>5. u \in DOMAIN prog.typeAliases /\ prog.typeAliases[u].file \in files
      BY <3>4, Zenon DEF isIn
    <3>6. PICK d \in DOMAIN prog.constants :
            prog.constants[d].file = prog.typeAliases[u].file /\ isDefinition(prog, d, typeOf(u))
      BY <1>d, <3>5, Zenon DEF isProgram, typeOf
    <3>7. d \in mine /\ prog.constants[d].symbol = typeOf(t) /\ typeOf(t) # NoSymbol
      BY <3>1, <3>4, <3>5, <3>6, SymbolsAssumption, Zenon DEF isIn, isDefinition
    <3>8. d \in todo' /\ symbol'[d] = typeOf(t)
      BY <1>b, <1>e, <3>6, <3>7, Zenon
    <3> QED
      BY <3>4, <3>6, <3>8, Zenon
  <2> QED
    BY <1>b, <1>c, <2>1, <2>2, <2>3, ZenonT(60) DEF MissingIsOnList, lhsOf, typeOf
<1>6. VisitedIsUnresolvable'
  BY <1>b, Zenon DEF VisitedIsUnresolvable, NothingIsMissed
<1>7. ProgressIsCounted'
  BY <1>b, <1>3, NoRoundYet, Zenon
<1> QED
  BY <1>3, <1>4, <1>5, <1>6, <1>7, Zenon DEF RInv

\* A step that changes nothing.
LEMMA RStutterInv ==
  ASSUME RInv, UNCHANGED resolverVars
  PROVE  RInv'
<1>a. /\ RType /\ PassIsOnList /\ MissingIsOnList /\ VisitedIsUnresolvable /\ ProgressIsCounted
  BY Zenon DEF RInv
<1>b. UNCHANGED vars
  BY Zenon DEF resolverVars
<1>c. prog' = prog
  BY <1>b, Zenon DEF prog, vars
<1>1. RType'
  BY <1>a, <1>b, <1>c, Zenon DEF RType, vars
<1>2. PassIsOnList'
  BY <1>a, <1>b, Zenon DEF PassIsOnList, vars
<1>3. MissingIsOnList'
  BY <1>a, <1>b, <1>c, Zenon DEF MissingIsOnList, lhsOf, typeOf, vars
<1>4. VisitedIsUnresolvable'
  <2>1. \A k : /\ resolveConstant(k)' = resolveConstant(k)
               /\ isResolvable(k)' <=> isResolvable(k)
    BY <1>b, LookupUnchanged, Zenon DEF vars
  <2> QED
    BY <1>a, <1>b, <2>1, Zenon DEF VisitedIsUnresolvable, NothingIsMissed, exists, vars
<1>5. ProgressIsCounted'
  <2>1. itemsLeft' = itemsLeft /\ allItems' = allItems
    BY <1>b, <1>c, Zenon DEF itemsLeft, allItems, vars
  <2> QED
    BY <1>a, <1>b, <2>1, Zenon DEF ProgressIsCounted, EveryRoundResolves, vars
<1> QED
  BY <1>1, <1>2, <1>3, <1>4, <1>5, Zenon DEF RInv

(***************************************************************************)
(* At every step of Resolver::run and of any runIncremental after it, what *)
(* has no symbol or type yet is on one of the four lists, a pass visits    *)
(* only what is on its list, and what a round without progress has visited *)
(* cannot be resolved (resolver.cc:1571-1745).                             *)
(***************************************************************************)
THEOREM ResolverInvariant == RSpec => []RInv
<1>1. RInv /\ [RNext]_resolverVars => RInv'
  <2> SUFFICES ASSUME RInv, [RNext]_resolverVars PROVE RInv'
    BY Zenon
  <2>1. CASE resolveConstantsStep
    <3>1. phase \notin Ended /\ Next
      BY <2>1, Zenon DEF resolveConstantsStep, Ended
    <3>2. CASE endPass
      BY <3>1, <3>2, EndPassInv, Zenon
    <3>3. CASE resolveConstants
      BY <3>3, ResolveConstantsInv, Zenon
    <3>4. CASE resolveAncestors
      BY <3>4, ResolveAncestorsInv, Zenon
    <3>5. CASE resolveClassAliases
      BY <3>5, ResolveClassAliasesInv, Zenon
    <3>6. CASE resolveTypeAliases
      BY <3>6, ResolveTypeAliasesInv, Zenon
    <3>7. CASE reportConstants
      BY <3>7, ReportConstantsInv, Zenon
    <3>8. CASE reportAncestors
      BY <3>8, ReportAncestorsInv, Zenon
    <3> QED
      BY <3>1, <3>2, <3>3, <3>4, <3>5, <3>6, <3>7, <3>8, Zenon DEF Next
  <2>2. CASE finalizeAncestors
    BY <2>2, AfterwardsInv, Zenon DEF finalizeAncestors, Ended
  <2>3. CASE computeLinearization
    <3>1. /\ phase = "finalized" /\ phase' = "resolved"
          /\ UNCHANGED <<choice, progress, retries, symbol, lists, resultType>>
      BY <2>3, Zenon DEF computeLinearization
    <3> QED
      BY <3>1, AfterwardsInv, Zenon DEF Ended
  <2>4. CASE endIncremental
    BY <2>4, AfterwardsInv, Zenon DEF endIncremental, Ended
  <2>5. CASE \E files \in (SUBSET (1 .. Len(prog.strictness))) \ {{}} : runIncremental(files)
    BY <2>5, RunIncrementalInv, Zenon
  <2>6. CASE UNCHANGED resolverVars
    BY <2>6, RStutterInv, Zenon
  <2> QED
    BY <2>1, <2>2, <2>3, <2>4, <2>5, <2>6, Zenon DEF RNext
<1> QED
  BY <1>1, RInitInv, PTL DEF RSpec

(***************************************************************************)
(* The fixed point misses nothing, and nothing is left without a symbol or *)
(* a type in the end, in any program and on any number of fast paths: when *)
(* the loop stops, no constant on the list could be resolved with the      *)
(* ancestors and aliases known by then (resolver.cc:447-448, 1571-1745).   *)
(***************************************************************************)
THEOREM NothingIsLeftOut == RSpec => []FixedPointIsComplete
<1>1. RInv => FixedPointIsComplete
  <2> SUFFICES ASSUME RInv PROVE FixedPointIsComplete
    BY Zenon
  <2>1. NothingIsMissed
    BY Zenon DEF RInv, VisitedIsUnresolvable
  <2>2. ASSUME phase = "done"
        PROVE  /\ todo = {} /\ todoAncestors = {} /\ todoClassAliases = {}
               /\ DOMAIN symbol = DOMAIN prog.constants
    BY <2>2, Zenon DEF RInv, RType, PassIsOnList, Ended
  <2>3. EverythingIsResolved
    BY <2>2, Zenon DEF EverythingIsResolved, RInv, MissingIsOnList, lhsOf, typeOf
  <2> QED
    BY <2>1, <2>3, Zenon DEF FixedPointIsComplete
<1> QED
  BY <1>1, ResolverInvariant, PTL

(***************************************************************************)
(* The loop of resolveConstants ends, whatever waits for whatever else: it *)
(* makes no more rounds than there are items that were resolved, and one   *)
(* more (resolver.cc:1571-1647).                                           *)
(***************************************************************************)
THEOREM RoundsAreBounded == RSpec => []EveryRoundResolves
<1>1. RInv => EveryRoundResolves
  BY Zenon DEF RInv, ProgressIsCounted
<1> QED
  BY <1>1, ResolverInvariant, PTL

-----------------------------------------------------------------------------
(***************************************************************************)
(* Aliases.  A chain of aliases is found out by resolveClassAliasJob only  *)
(* if dealias gets to its end: no constant is assigned twice, and there    *)
(* are no more aliases than dealias expands.                               *)
(***************************************************************************)

AssignedOnce ==
  \A n \in DOMAIN Programs : \A a, b \in DOMAIN Programs[n].classAliases :
    Programs[n].classAliases[a].lhs = Programs[n].classAliases[b].lhs => a = b
FewAliases == IsFiniteSet(ClassAliases) /\ Cardinality(ClassAliases) <= depthLimit + 1

AInv ==
  /\ AliasChainsEnd
  /\ \A a \in todoClassAliases : resultType[lhsOf(a)] = NoType

\* A chain that does not lead to lhs within the limit does not lead to lhs.
LEMMA NewAliasClosesNoChain ==
  ASSUME NEW types, \A a \in ClassAliases : types[a] \in Symbols \cup {NoType},
         \A S \in (SUBSET ClassAliases) \ {{}} : \E a \in S : types[a] \notin S,
         FewAliases,
         NEW lhs \in ClassAliases, types[lhs] = NoType,
         NEW s \in ClassAliases, dealiasIn(types, s) # lhs,
         NEW S \in SUBSET ClassAliases, lhs \in S, s \in S
  PROVE  \E a \in S \ {lhs} : types[a] \notin S
<1> SUFFICES ASSUME \A a \in S \ {lhs} : types[a] \in S PROVE FALSE
  BY Zenon
<1>1. PICK f : /\ \A t : dealiasIn(types, t) = f[<<depthLimit, t>>]
               /\ \A n \in 0 .. depthLimit, t \in Symbols :
                    f[<<n, t>>] = IF ~isAlias(types, t) THEN t
                                  ELSE IF n = 0 THEN Untyped ELSE f[<<n - 1, types[t]>>]
  BY DealiasUnfolds, Zenon
<1>2. /\ ClassAliases \subseteq Symbols /\ NoType \notin ClassAliases /\ Untyped \notin ClassAliases
  BY SymbolsAssumption, Zenon DEF Symbols, ClassesAndModules
<1>3. /\ ~isAlias(types, lhs) /\ \A a \in S \ {lhs} : isAlias(types, a)
  BY <1>2, Zenon DEF isAlias
<1> DEFINE L == depthLimit
           H(n) == {a \in S : f[<<n, a>>] = lhs}
<1>4. L \in Nat /\ L - 1 \in Nat /\ L - 1 + 1 = L
  BY DEF depthLimit
<1>5. H(0) = {lhs}
  <2>1. 0 \in 0 .. depthLimit
    BY <1>4
  <2>2. f[<<0, lhs>>] = lhs /\ \A a \in S \ {lhs} : f[<<0, a>>] = Untyped
    BY <1>1, <1>2, <1>3, <2>1, Zenon
  <2> QED
    BY <1>2, <2>2
<1>6. ASSUME NEW n \in Nat, n + 1 <= L
      PROVE  \A a \in S : a \in H(n + 1) <=> (a = lhs \/ types[a] \in H(n))
  <2>1. n + 1 \in 0 .. depthLimit /\ n + 1 # 0 /\ n + 1 - 1 = n
    BY <1>4, <1>6
  <2>2. f[<<n + 1, lhs>>] = lhs
    BY <1>1, <1>2, <1>3, <2>1, Zenon
  <2>3. \A a \in S \ {lhs} : f[<<n + 1, a>>] = f[<<n, types[a]>>]
    BY <1>1, <1>2, <1>3, <2>1
  <2>4. types[lhs] \notin S
    BY <1>2, Zenon
  <2> QED
    BY <2>2, <2>3, <2>4, Zenon
<1>7. IsFiniteSet(S) /\ \A n : H(n) \in SUBSET S
  BY FS_Subset, Zenon DEF FewAliases
<1> HIDE DEF H
<1>8. \A n : IsFiniteSet(H(n)) /\ Cardinality(H(n)) \in Nat
  BY <1>7, FS_Subset, FS_CardinalityType, Zenon
<1> DEFINE Grows == {n \in Nat : n + 1 <= L =>
                       /\ H(n) \subseteq H(n + 1)
                       /\ H(n) = H(n + 1) \/ Cardinality(H(n + 1)) >= n + 2}
<1>9. \A n : H(n) \subseteq H(n + 1) /\ H(n) # H(n + 1) => Cardinality(H(n + 1)) >= Cardinality(H(n)) + 1
  <2> SUFFICES ASSUME NEW n, H(n) \subseteq H(n + 1), H(n) # H(n + 1)
               PROVE  Cardinality(H(n + 1)) >= Cardinality(H(n)) + 1
    BY Zenon
  <2>1. /\ Cardinality(H(n)) <= Cardinality(H(n + 1))
        /\ Cardinality(H(n + 1)) = Cardinality(H(n)) => H(n + 1) = H(n)
    BY <1>8, FS_Subset, Zenon
  <2> QED
    BY <1>8, <2>1
<1>10. 0 \in Grows
  <2>1. Cardinality(H(0)) = 1
    BY <1>5, FS_Singleton, Zenon
  <2>2. 0 + 1 <= L => H(0) \subseteq H(0 + 1)
    BY <1>5, <1>6, <1>7, Zenon
  <2>3. 0 + 1 <= L => H(0) = H(0 + 1) \/ Cardinality(H(0 + 1)) >= 0 + 2
    BY <1>8, <1>9, <2>1, <2>2
  <2> QED
    BY <2>2, <2>3, Zenon
<1>11. ASSUME NEW n \in Grows PROVE n + 1 \in Grows
  <2> SUFFICES ASSUME n + 1 + 1 <= L
               PROVE  /\ H(n + 1) \subseteq H(n + 1 + 1)
                      /\ H(n + 1) = H(n + 1 + 1) \/ Cardinality(H(n + 1 + 1)) >= n + 1 + 2
    OBVIOUS
  <2>1. n \in Nat /\ n + 1 \in Nat /\ n + 1 <= L
    BY <1>4
  <2>2. H(n) \subseteq H(n + 1) /\ (H(n) = H(n + 1) \/ Cardinality(H(n + 1)) >= n + 2)
    BY <2>1, Zenon
  <2>3. /\ \A a \in S : a \in H(n + 1) <=> (a = lhs \/ types[a] \in H(n))
        /\ \A a \in S : a \in H(n + 1 + 1) <=> (a = lhs \/ types[a] \in H(n + 1))
    BY <1>6, <2>1, Zenon
  <2>4. H(n + 1) \subseteq H(n + 1 + 1)
    BY <1>7, <2>2, <2>3, Zenon
  <2>5. H(n) = H(n + 1) => H(n + 1) = H(n + 1 + 1)
    BY <1>7, <2>3, ZenonT(60)
  <2>6. ASSUME Cardinality(H(n + 1)) >= n + 2, H(n + 1) # H(n + 1 + 1)
        PROVE  Cardinality(H(n + 1 + 1)) >= n + 1 + 2
    <3>1. Cardinality(H(n + 1 + 1)) >= Cardinality(H(n + 1)) + 1
      BY <1>9, <2>4, <2>6, Zenon
    <3> QED
      BY <1>8, <2>1, <2>6, <3>1
  <2> QED
    BY <2>2, <2>4, <2>5, <2>6, Zenon
<1>12. L - 1 \in Grows
  <2>1. Grows \in SUBSET Nat
    BY Zenon
  <2> HIDE DEF Grows
  <2> QED
    BY <1>4, <1>10, <1>11, <2>1, SetInduction, Zenon
<1>13. H(L - 1) = H(L) \/ Cardinality(H(L)) >= L + 1
  BY <1>4, <1>12
<1>14. s \notin H(L)
  BY <1>1, Zenon DEF H
<1>15. PICK a \in S \ H(L) : types[a] \notin S \ H(L)
  <2>1. S \ H(L) \in (SUBSET ClassAliases) \ {{}}
    BY <1>14, Zenon
  <2> QED
    BY <2>1, Zenon
<1>16. \A b \in S : b \in H(L) <=> (b = lhs \/ types[b] \in H(L - 1))
  BY <1>4, <1>6
<1>17. a # lhs /\ types[a] \in H(L) /\ types[a] \notin H(L - 1)
  BY <1>15, <1>16, Zenon
<1>18. Cardinality(H(L)) >= L + 1
  BY <1>13, <1>17, Zenon
<1>19. Cardinality(H(L) \cup {a}) = Cardinality(H(L)) + 1 /\ IsFiniteSet(H(L) \cup {a})
  BY <1>8, <1>15, FS_AddElement
<1>20. Cardinality(H(L) \cup {a}) <= Cardinality(ClassAliases)
  BY <1>7, <1>15, FS_Subset DEF FewAliases
<1>21. Cardinality(H(L)) + 1 <= L + 1
  <2>1. Cardinality(ClassAliases) \in Nat /\ Cardinality(ClassAliases) <= L + 1
    BY FS_CardinalityType, Zenon DEF FewAliases
  <2> QED
    BY <1>4, <1>8, <1>19, <1>20, <2>1
<1> QED
  BY <1>4, <1>8, <1>18, <1>21

\* Steps that leave the aliases alone.
LEMMA AliasesKept ==
  ASSUME RInv, AInv, choice' = choice, todoClassAliases' \subseteq todoClassAliases,
         \A s \in ClassAliases : resultType'[s] = resultType[s]
  PROVE  AInv'
<1>1. prog' = prog
  BY Zenon DEF prog
<1>2. \A a \in todoClassAliases : lhsOf(a) \in ClassAliases
  BY ProgramFacts, Zenon DEF RInv, RType, isProgram, lhsOf
<1>3. AliasChainsEnd'
  BY Zenon DEF AInv, AliasChainsEnd
<1>4. \A a \in todoClassAliases' : resultType'[lhsOf(a)] = NoType
  BY <1>2, Zenon DEF AInv
<1> QED
  BY <1>1, <1>3, <1>4, Zenon DEF AInv, lhsOf

\* An alias is resolved, and closes no cycle.
LEMMA ResolveClassAliasesEnds ==
  ASSUME RInv, AInv, AssignedOnce, FewAliases, resolveClassAliases
  PROVE  AInv'
<1>a. RType /\ PassIsOnList
  BY Zenon DEF RInv
<1> DEFINE i == Min(pass)
<1>b. /\ phase \in {"classAliases", "lastClassAliases"} /\ pass # {}
      /\ visit(i) /\ resolveClassAliasJob(i) /\ UNCHANGED symbol
  BY Zenon DEF resolveClassAliases
<1>c. i \in pass
  BY <1>b, FirstIsOnPass, Zenon DEF Rounds
<1> HIDE DEF i
<1>d. choice' = choice /\ prog' = prog
  BY <1>b, Zenon DEF visit, prog
<1>e. i \in todoClassAliases /\ i \in DOMAIN prog.classAliases
  BY <1>a, <1>b, <1>c, Zenon DEF RType, PassIsOnList
<1>f. \A a \in DOMAIN prog.classAliases :
        lhsOf(a) \in ClassAliases /\ prog.classAliases[a].rhs \in DOMAIN prog.constants
  BY <1>a, ProgramFacts, Zenon DEF RType, isProgram, lhsOf
<1> DEFINE lhs == lhsOf(i)
           s == symbol[prog.classAliases[i].rhs]
           v == aliasTarget(lhs, s)
<1>1. CASE s = NoSymbol
  BY <1>b, <1>d, <1>1, AliasesKept, Zenon DEF resolveClassAliasJob
<1>2. CASE s # NoSymbol
  <2>1. resultType' = [resultType EXCEPT ![lhs] = v] /\ todoClassAliases' = todoClassAliases \ {i}
    BY <1>b, <1>2, Zenon DEF resolveClassAliasJob, lhsOf
  <2>2. lhs \in ClassAliases /\ s \in Symbols /\ resultType[lhs] = NoType
    BY <1>a, <1>e, <1>f, Zenon DEF RType, AInv
  <2>3. Untyped \notin ClassAliases
    BY SymbolsAssumption, Zenon DEF ClassesAndModules
  <2>4. v \in ClassAliases => v = s /\ dealias(s) # lhs
    BY <2>3, Zenon DEF aliasTarget
  <2> HIDE DEF v, s, lhs
  <2>5. /\ resultType'[lhs] = v
        /\ \A a \in ClassAliases \ {lhs} : resultType'[a] = resultType[a]
    BY <1>a, <2>1, <2>2, Zenon DEF RType
  <2>6. ASSUME NEW S \in (SUBSET ClassAliases) \ {{}} PROVE \E a \in S : resultType'[a] \notin S
    <3>1. CASE lhs \notin S \/ v \notin S
      BY <2>5, <3>1, Zenon DEF AInv, AliasChainsEnd
    <3>2. CASE lhs \in S /\ v \in S
      <4>1. s \in ClassAliases /\ s \in S /\ dealiasIn(aliases, s) # lhs
        BY <2>4, <3>2, Zenon DEF dealias
      <4>2. /\ \A a \in ClassAliases : aliases[a] = resultType[a]
            /\ \A a \in ClassAliases : aliases[a] \in Symbols \cup {NoType}
        BY <1>a, Zenon DEF aliases, RType
      <4>3. \A T \in (SUBSET ClassAliases) \ {{}} : \E a \in T : aliases[a] \notin T
        BY <4>2, Zenon DEF AInv, AliasChainsEnd
      <4>4. aliases[lhs] = NoType
        BY <2>2, <4>2, Zenon
      <4>5. \E a \in S \ {lhs} : aliases[a] \notin S
        BY <2>2, <3>2, <4>1, <4>2, <4>3, <4>4, NewAliasClosesNoChain, Zenon
      <4> QED
        BY <2>5, <4>2, <4>5, Zenon
    <3> QED
      BY <3>1, <3>2, Zenon
  <2>7. \A a \in todoClassAliases' : resultType'[lhsOf(a)] = NoType
    <3>1. \A a \in todoClassAliases' : lhsOf(a) # lhs
      <4>1. \A a, b \in DOMAIN prog.classAliases : lhsOf(a) = lhsOf(b) => a = b
        BY <1>a, Zenon DEF AssignedOnce, RType, prog, lhsOf
      <4> QED
        BY <1>a, <1>e, <2>1, <4>1, Zenon DEF RType, lhs
    <3> QED
      BY <1>a, <1>f, <2>1, <2>5, <3>1, Zenon DEF AInv, RType
  <2> QED
    BY <1>d, <2>6, <2>7, Zenon DEF AInv, AliasChainsEnd, lhsOf
<1> QED
  BY <1>1, <1>2, Zenon

\* The namer has reset the aliases of the files of the fast path.
LEMMA RunIncrementalEnds ==
  ASSUME RInv, AInv, NEW files, runIncremental(files)
  PROVE  AInv'
<1>1. /\ choice' = choice
      /\ todoClassAliases' = isIn(files, prog.classAliases)
      /\ resultType' = [s \in DOMAIN resultType |->
                          IF reset(files, prog.classAliases, s) \/ reset(files, prog.typeAliases, s)
                            THEN NoType ELSE resultType[s]]
  BY Zenon DEF runIncremental
<1>2. prog' = prog
  BY <1>1, Zenon DEF prog
<1>3. DOMAIN resultType = ClassAliases \cup TypeAliases
  BY Zenon DEF RInv, RType
<1>4. \A s \in ClassAliases : resultType'[s] \in {NoType, resultType[s]}
  BY <1>1, <1>3, Zenon
<1>5. AliasChainsEnd'
  <2>1. NoType \notin ClassAliases
    BY SymbolsAssumption, Zenon DEF Symbols
  <2> QED
    BY <1>4, <2>1, Zenon DEF AInv, AliasChainsEnd
<1>6. \A a \in todoClassAliases' : resultType'[lhsOf(a)] = NoType
  <2>1. \A a \in todoClassAliases' : lhsOf(a) \in ClassAliases
    BY <1>1, ProgramFacts, Zenon DEF RInv, RType, isProgram, isIn, lhsOf
  <2>2. \A a \in todoClassAliases' : reset(files, prog.classAliases, lhsOf(a))
    BY <1>1, Zenon DEF reset, lhsOf
  <2> QED
    BY <1>1, <1>3, <2>1, <2>2, Zenon
<1> QED
  BY <1>2, <1>5, <1>6, Zenon DEF AInv, lhsOf

(***************************************************************************)
(* Class aliases never form a cycle, in whatever order they are assigned,  *)
(* looked up and resolved, and on any number of fast paths                 *)
(* (resolver.cc:653-660), where no constant is assigned twice and there    *)
(* are no more aliases than dealias expands (Symbols.cc:2059-2074).        *)
(***************************************************************************)
THEOREM AliasesNeverCycle ==
  ASSUME AssignedOnce, FewAliases
  PROVE  RSpec => []AliasChainsEnd
<1>1. RInit => AInv
  <2> SUFFICES ASSUME RInit PROVE AInv
    BY Zenon
  <2>1. /\ \A s \in ClassAliases : resultType[s] = NoType
        /\ NoType \notin ClassAliases /\ todoClassAliases = DOMAIN prog.classAliases
    BY SymbolsAssumption, Zenon DEF RInit, Init, Symbols
  <2>2. \A a \in DOMAIN prog.classAliases : lhsOf(a) \in ClassAliases
    BY ProgramFacts, Zenon DEF RInit, Init, isProgram, lhsOf
  <2>3. ASSUME NEW S \in (SUBSET ClassAliases) \ {{}} PROVE \E a \in S : resultType[a] \notin S
    <3>1. PICK a \in S : TRUE
      BY Zenon
    <3> QED
      BY <2>1, <3>1, Zenon
  <2>4. \A a \in todoClassAliases : resultType[lhsOf(a)] = NoType
    BY <2>1, <2>2, Zenon
  <2> QED
    BY <2>3, <2>4, Zenon DEF AInv, AliasChainsEnd
<1>2. RInv /\ AInv /\ [RNext]_resolverVars => AInv'
  <2> SUFFICES ASSUME RInv, AInv, [RNext]_resolverVars PROVE AInv'
    BY Zenon
  <2>1. CASE endPass \/ finalizeAncestors \/ computeLinearization \/ endIncremental
    <3>1. UNCHANGED <<choice, lists, resultType>>
      BY <2>1, Zenon DEF endPass, finalizeAncestors, computeLinearization, endIncremental
    <3> QED
      BY <3>1, AliasesKept, Zenon DEF lists
  <2>2. CASE resolveConstants \/ resolveAncestors \/ reportAncestors
    <3>1. UNCHANGED <<choice, todoClassAliases, resultType>>
      BY <2>2, Zenon DEF resolveConstants, resolveAncestors, reportAncestors, visit
    <3> QED
      BY <3>1, AliasesKept, Zenon
  <2>3. CASE resolveTypeAliases \/ reportConstants
    <3>1. UNCHANGED <<choice, todoClassAliases>>
      BY <2>3, Zenon DEF resolveTypeAliases, reportConstants, visit
    <3>2. \A s \in ClassAliases : resultType'[s] = resultType[s]
      <4>1. CASE reportConstants
        <5>1. PICK k : constantResolutionFailed(k)
          BY <4>1, Zenon DEF reportConstants
        <5> QED
          BY <5>1, SymbolsAssumption, Zenon DEF constantResolutionFailed, RInv, RType
      <4>2. CASE resolveTypeAliases
        <5>1. pass # {} /\ phase = "typeAliases" /\ resolveTypeAliasJob(Min(pass))
          BY <4>2, Zenon DEF resolveTypeAliases
        <5>2. Min(pass) \in DOMAIN prog.typeAliases
          BY <5>1, FirstIsOnPass, Zenon DEF RInv, RType, PassIsOnList, Rounds
        <5>3. prog.typeAliases[Min(pass)].lhs \in TypeAliases
          BY <5>2, ProgramFacts, Zenon DEF RInv, RType, isProgram
        <5> QED
          BY <5>1, <5>3, SymbolsAssumption, Zenon DEF resolveTypeAliasJob, RInv, RType
      <4> QED
        BY <2>3, <4>1, <4>2, Zenon
    <3> QED
      BY <3>1, <3>2, AliasesKept, Zenon
  <2>4. CASE resolveClassAliases
    BY <2>4, ResolveClassAliasesEnds, Zenon
  <2>5. CASE \E files \in (SUBSET (1 .. Len(prog.strictness))) \ {{}} : runIncremental(files)
    BY <2>5, RunIncrementalEnds, Zenon
  <2>6. CASE UNCHANGED resolverVars
    BY <2>6, AliasesKept, Zenon DEF resolverVars, vars
  <2> QED
    BY <2>1, <2>2, <2>3, <2>4, <2>5, <2>6, Zenon DEF RNext, resolveConstantsStep, Next
<1>3. AInv => AliasChainsEnd
  BY Zenon DEF AInv
<1> QED
  BY <1>1, <1>2, <1>3, ResolverInvariant, PTL DEF RSpec
=============================================================================
