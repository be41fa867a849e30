-------------------------- MODULE ResolveConstants --------------------------
(***************************************************************************)
(* ResolveConstantsWalk::resolveConstants: constants are looked up through *)
(* ancestors, and ancestors and aliases are constants, so the resolver     *)
(* keeps four lists of what it could not resolve yet and goes over them    *)
(* until nothing moves; what is left then is an error and gets a stub.     *)
(*                                                                         *)
(* A program is what the namer leaves: the members of the classes, and the *)
(* constants, ancestors and aliases of the files, numbered in the order of *)
(* the files and, within a file, of the tree walk.                         *)
(***************************************************************************)
EXTENDS Integers, Sequences, FiniteSets, FiniteSetsExt, Functions

CONSTANTS
  Classes,       \* classes and modules of the programs, Object among them
  Modules,       \* those that are modules
  ClassAliases,  \* static fields assigned a constant
  TypeAliases,   \* static fields assigned T.type_alias
  Programs       \* programs by some index

VARIABLES
  choice,        \* which of the programs is resolved; it never changes
  phase,         \* where resolveConstants is
  pass,          \* items of the list this pass has yet to visit
  progress,      \* something was resolved in this round
  retries,       \* rounds so far: the counter resolve.constants.retries
  symbol,        \* ConstantLit::symbol of every constant
  resolutionFailed,  \* constants whose job is marked so
  todo, todoAncestors, todoClassAliases, todoTypeAliases,
  mixinIndex,    \* AncestorResolutionItem::mixinIndex, 0 if not set
  superClass, mixins, linearized,  \* of the classes
  resultType     \* of the aliases

vars == <<choice, phase, pass, progress, retries, symbol, resolutionFailed, todo, todoAncestors,
          todoClassAliases, todoTypeAliases, mixinIndex, superClass, mixins, linearized,
          resultType>>
lists == <<todo, todoAncestors, todoClassAliases, todoTypeAliases>>
ancestry == <<mixinIndex, superClass, mixins, linearized>>

prog == Programs[choice]

NoSymbol == "noSymbol"
NoType == "noType"            \* resultType == nullptr
Untyped == "untyped"
StubModule == "StubModule"
StubMixin == "StubMixin"
StubSuperClass == "StubSuperClass"
PlaceholderMixin == "PlaceholderMixin"
ImplicitModuleSuperClass == "ImplicitModuleSuperClass"
ClassesAndModules ==
  Classes \cup {Untyped, StubModule, StubMixin, StubSuperClass, PlaceholderMixin,
                ImplicitModuleSuperClass}
Symbols == ClassesAndModules \cup ClassAliases \cup TypeAliases \cup {NoSymbol}

EmptyTree == 0  \* a constant without a scope
Dynamic == -1   \* a scope that is not a constant

ASSUME SymbolsAssumption ==
  /\ {Untyped, StubModule} \cap Classes = {}
  /\ ClassesAndModules \cap ClassAliases = {}
  /\ TypeAliases \cap (ClassesAndModules \cup ClassAliases) = {}
  /\ NoSymbol \notin ClassesAndModules \cup ClassAliases \cup TypeAliases
  /\ NoType \notin Symbols

isSequence(s) == s \in Seq(Range(s))

\* The namer enters a type alias in the scope around its left hand side.
isDefinition(p, i, s) ==
  LET c == p.constants[i]
  IN  /\ c.symbol = s /\ c.scope = EmptyTree /\ isSequence(c.nesting) /\ c.nesting # <<>>
      /\ <<c.nesting[1], c.name>> \in DOMAIN p.members
      /\ p.members[<<c.nesting[1], c.name>>] = s

isProgram(p) ==
  /\ isSequence(p.constants) /\ isSequence(p.ancestors)
  /\ isSequence(p.classAliases) /\ isSequence(p.typeAliases)
  /\ \A m \in DOMAIN p.members :
       m[1] \in Classes /\ p.members[m] \in Classes \cup ClassAliases \cup TypeAliases
  /\ \A i \in DOMAIN p.constants : p.constants[i].symbol \in TypeAliases \cup {NoSymbol}
  /\ \A a \in DOMAIN p.classAliases :
       p.classAliases[a].lhs \in ClassAliases /\ p.classAliases[a].rhs \in DOMAIN p.constants
  /\ \A t \in DOMAIN p.typeAliases :
       /\ p.typeAliases[t].lhs \in TypeAliases
       /\ \E i \in DOMAIN p.constants :
            p.constants[i].file = p.typeAliases[t].file /\ isDefinition(p, i, p.typeAliases[t].lhs)

ASSUME ProgramsAssumption == \A n \in DOMAIN Programs : isProgram(Programs[n])

-----------------------------------------------------------------------------
(***************************************************************************)
(* The symbol table.  A superclass that is todo counts as none.            *)
(***************************************************************************)
isAlias(types, s) == s \in ClassAliases /\ types[s] \notin {NoType, Untyped}

\* "the alias is either too long or infinite" otherwise
depthLimit == 42

dealiasIn(types, symbolRef) ==
  LET target[x \in (0 .. depthLimit) \X Symbols] ==
        IF ~isAlias(types, x[2]) THEN x[2]
        ELSE IF x[1] = 0 THEN Untyped ELSE target[<<x[1] - 1, types[x[2]]>>]
  IN  target[<<depthLimit, symbolRef>>]

aliases == [s \in ClassAliases |-> resultType[s]]
dealias(symbolRef) == dealiasIn(aliases, symbolRef)

findMemberNoDealias(k, name) ==
  IF <<k, name>> \in DOMAIN prog.members THEN prog.members[<<k, name>>] ELSE NoSymbol

firstFound(found) ==
  LET hits == SelectSeq(found, LAMBDA s : s # NoSymbol)
  IN  IF hits = <<>> THEN NoSymbol ELSE Head(hits)

\* What the mixins of k and its superclass find, in the order they are searched;
\* found is what a class finds for the name.
foundInMixins(k, name, found) ==
  IF k \in linearized
    THEN [i \in DOMAIN mixins[k] |-> findMemberNoDealias(mixins[k][i], name)]
    ELSE [i \in DOMAIN mixins[k] |-> found[mixins[k][Len(mixins[k]) + 1 - i]]]
foundInSuperClass(k, found) == IF superClass[k] = NoSymbol THEN <<>> ELSE <<found[superClass[k]]>>

\* Mutant: the superclass is searched before the mixins.
superClassFirst(k, name, found) == foundInSuperClass(k, found) \o foundInMixins(k, name, found)

findParentMemberTransitive(k, name, found) ==
  foundInMixins(k, name, found) \o foundInSuperClass(k, found)

findMemberTransitiveNoDealias(k, name) ==
  LET found[c \in ClassesAndModules] ==
        IF <<c, name>> \in DOMAIN prog.members
          THEN findMemberNoDealias(c, name)
          ELSE firstFound(findParentMemberTransitive(c, name, found))
  IN  found[k]

derivesFrom(k, s) ==
  LET derives[c \in ClassesAndModules] ==
        \/ \E m \in Range(mixins[c]) : m = s \/ (c \notin linearized /\ derives[m])
        \/ superClass[c] # NoSymbol /\ (superClass[c] = s \/ derives[superClass[c]])
  IN  derives[k]

-----------------------------------------------------------------------------
(***************************************************************************)
(* Looking up one constant.                                                *)
(***************************************************************************)
\* The scopes around the constant, innermost first, then the innermost one's ancestors.
resolveLhs(nesting, name) ==
  LET hits == {i \in DOMAIN nesting : findMemberNoDealias(nesting[i], name) # NoSymbol}
  IN  IF hits # {} THEN findMemberNoDealias(nesting[Min(hits)], name)
      ELSE findMemberTransitiveNoDealias(nesting[1], name)

scopeOf(i) == prog.constants[i].scope
hasScope(i) == scopeOf(i) \in DOMAIN prog.constants

resolveConstant(i) ==
  LET c == prog.constants[i]
  IN  IF c.scope = EmptyTree THEN resolveLhs(c.nesting, c.name)
      ELSE IF hasScope(i) /\ dealias(symbol[c.scope]) \in ClassesAndModules
        THEN findMemberNoDealias(dealias(symbol[c.scope]), c.name)
        ELSE NoSymbol

\* A constant in a type alias, or in no constant at all, cannot be resolved.
failsNow(i) == scopeOf(i) = Dynamic \/ (hasScope(i) /\ symbol[scopeOf(i)] \in TypeAliases)

isPendingTypeAlias(s) == s \in TypeAliases /\ resultType[s] = NoType
isAlreadyResolved(i) == symbol[i] # NoSymbol /\ ~isPendingTypeAlias(symbol[i])

exists(s) == s \in Symbols \ {NoSymbol}

isResolvable(i) ==
  \/ isAlreadyResolved(i)
  \/ exists(resolveConstant(i)) /\ ~isPendingTypeAlias(resolveConstant(i))

resolveConstantJob(i) ==
  \/ /\ isResolvable(i)
     /\ symbol' = [symbol EXCEPT ![i] = IF isAlreadyResolved(i) THEN @ ELSE resolveConstant(i)]
     /\ todo' = todo \ {i}
     /\ progress' = TRUE
     /\ UNCHANGED resolutionFailed
  \/ /\ ~isResolvable(i)
     /\ todo' = todo \cup {i}
     /\ resolutionFailed' = IF failsNow(i) THEN resolutionFailed \cup {i} ELSE resolutionFailed
     /\ UNCHANGED <<symbol, progress>>

-----------------------------------------------------------------------------
(***************************************************************************)
(* Superclasses and mixins.                                                *)
(***************************************************************************)
symbolOf(j) == symbol[prog.ancestors[j].constant]
stubSymbolForAncestor(j) == IF prog.ancestors[j].isSuperclass THEN StubSuperClass ELSE StubMixin
isClassOrModule(s) == s \notin TypeAliases /\ dealias(s) \in ClassesAndModules

\* Mutant: only a class that is its own parent is found out.
circularOnlyIfSelf(k, target) == target = k
isCircular(k, target) == target = k \/ derivesFrom(target, k)

resolvedClass(j) ==
  LET k == prog.ancestors[j].klass
  IN  IF isClassOrModule(symbolOf(j)) /\ ~isCircular(k, dealias(symbolOf(j)))
        THEN dealias(symbolOf(j))
        ELSE stubSymbolForAncestor(j)

addMixinAt(k, s, index) ==
  mixins' = [mixins EXCEPT ![k] = IF index = 0 THEN Append(@, s) ELSE [@ EXCEPT ![index] = s]]

\* Mutant: the ancestors of the superclass are not looked at.
notListed(k, s) == s # superClass[k] /\ s \notin Range(mixins[k])

\* A class that was linearized takes only mixins that it does not have.
isNewMixin(k, s) ==
  /\ s # superClass[k] /\ s \notin Range(mixins[k])
  /\ superClass[k] # NoSymbol => ~derivesFrom(superClass[k], s)

addMixin(k, s, index) ==
  \/ /\ k \in linearized => isNewMixin(k, s)
     /\ addMixinAt(k, s, index)
     /\ linearized' = linearized \ {k}
  \/ /\ k \in linearized /\ ~isNewMixin(k, s)
     /\ UNCHANGED <<mixins, linearized>>

\* A superclass that is there already and differs is an error and stays.
setSuperClass(k, s) ==
  superClass' = IF superClass[k] = NoSymbol THEN [superClass EXCEPT ![k] = s] ELSE superClass

addAncestor(j) ==
  LET k == prog.ancestors[j].klass
  IN  /\ \/ /\ prog.ancestors[j].isSuperclass
            /\ setSuperClass(k, resolvedClass(j))
            /\ UNCHANGED <<mixins, linearized>>
         \/ /\ ~prog.ancestors[j].isSuperclass
            /\ addMixin(k, resolvedClass(j), mixinIndex[j])
            /\ UNCHANGED superClass
      /\ todoAncestors' = todoAncestors \ {j}
      /\ progress' = TRUE
      /\ UNCHANGED mixinIndex

\* Mutant: a mixin that has to wait is appended once it is resolved.
neverNeedsPlaceholder(j) == FALSE

needsPlaceholder(j) ==
  ~prog.ancestors[j].isSuperclass /\ mixinIndex[j] = 0 /\ symbolOf(j) \notin TypeAliases

addMixinPlaceholder(j) ==
  LET k == prog.ancestors[j].klass
  IN  /\ mixins' = [mixins EXCEPT ![k] = Append(@, PlaceholderMixin)]
      /\ mixinIndex' = [mixinIndex EXCEPT ![j] = Len(mixins[k]) + 1]

resolveAncestorJob(j) ==
  \/ isClassOrModule(symbolOf(j)) /\ addAncestor(j)
  \/ /\ ~isClassOrModule(symbolOf(j))
     /\ IF needsPlaceholder(j) THEN addMixinPlaceholder(j) ELSE UNCHANGED <<mixins, mixinIndex>>
     /\ UNCHANGED <<superClass, linearized, todoAncestors, progress>>

-----------------------------------------------------------------------------
(***************************************************************************)
(* Aliases.                                                                *)
(***************************************************************************)
\* An alias of a type alias, or of itself, is an error.
aliasTarget(lhs, s) == IF s \in TypeAliases \/ dealias(s) = lhs THEN Untyped ELSE s

resolveClassAliasJob(a) ==
  LET job == prog.classAliases[a]
  IN  \/ /\ symbol[job.rhs] # NoSymbol
         /\ resultType' = [resultType EXCEPT ![job.lhs] = aliasTarget(job.lhs, symbol[job.rhs])]
         /\ todoClassAliases' = todoClassAliases \ {a}
         /\ progress' = TRUE
      \/ /\ symbol[job.rhs] = NoSymbol
         /\ UNCHANGED <<resultType, todoClassAliases, progress>>

isFullyResolved(t) == \A i \in prog.typeAliases[t].rhs : isAlreadyResolved(i)

resolveTypeAliasJob(t) ==
  \/ /\ isFullyResolved(t)
     /\ resultType' = [resultType EXCEPT ![prog.typeAliases[t].lhs] = "todo"]
     /\ todoTypeAliases' = todoTypeAliases \ {t}
     /\ progress' = TRUE
  \/ /\ ~isFullyResolved(t)
     /\ UNCHANGED <<resultType, todoTypeAliases, progress>>

\* The constant is stubbed: nothing will resolve it any more.
constantResolutionFailed(i) ==
  LET resolved == resolveConstant(i)
  IN  \/ /\ resolved \in TypeAliases
         /\ resultType' = [resultType EXCEPT ![resolved] = IF @ = NoType THEN Untyped ELSE @]
         /\ symbol' = [symbol EXCEPT ![i] = resolved]
         /\ UNCHANGED resolutionFailed
      \/ /\ resolved \notin TypeAliases
         /\ resolutionFailed' = IF failsNow(i) THEN resolutionFailed \cup {i} ELSE resolutionFailed
         /\ symbol' = [symbol EXCEPT ![i] = IF i \in resolutionFailed' THEN Untyped ELSE StubModule]
         /\ UNCHANGED resultType

-----------------------------------------------------------------------------
(***************************************************************************)
(* resolveConstants.  The tree walk tries every constant once, and then    *)
(* rounds of four passes follow.                                           *)
(***************************************************************************)
Init ==
  /\ choice \in DOMAIN Programs
  /\ phase = "walk"
  /\ symbol = [i \in DOMAIN prog.constants |-> prog.constants[i].symbol]
  \* The left hand side of a type alias is not looked up but goes on the list.
  /\ todo = {i \in DOMAIN prog.constants : symbol[i] # NoSymbol}
  /\ pass = DOMAIN prog.constants \ todo
  /\ progress = FALSE /\ retries = 0 /\ resolutionFailed = {}
  /\ todoAncestors = DOMAIN prog.ancestors
  /\ todoClassAliases = DOMAIN prog.classAliases
  /\ todoTypeAliases = DOMAIN prog.typeAliases
  /\ mixinIndex = [j \in DOMAIN prog.ancestors |-> 0]
  \* The classes of the payload have been linearized when it was built.
  /\ linearized = DOMAIN prog.payload
  /\ superClass = [k \in ClassesAndModules |->
                     IF k \in linearized THEN prog.payload[k].superClass ELSE NoSymbol]
  /\ mixins = [k \in ClassesAndModules |-> IF k \in linearized THEN prog.payload[k].mixins ELSE <<>>]
  /\ resultType = [s \in ClassAliases \cup TypeAliases |-> NoType]

\* Mutant: the lists are gone over once.
oneRound == FALSE
\* Mutant: the loop goes on while something is left.
everyRound == todo # {} \/ todoAncestors # {}

loopsAgain == progress /\ (todo # {} \/ todoAncestors # {})

nextPhase ==
  CASE phase = "walk" -> "ancestors"
    [] phase = "ancestors" -> "constants"
    [] phase = "constants" -> "classAliases"
    [] phase = "classAliases" -> "typeAliases"
    [] phase = "typeAliases" -> IF loopsAgain THEN "ancestors" ELSE "failed"
    [] phase = "failed" -> "lastClassAliases"
    [] phase = "lastClassAliases" -> "lastAncestors"
    [] phase = "lastAncestors" -> "done"

items(p) ==
  CASE p \in {"constants", "failed"} -> todo
    [] p \in {"ancestors", "lastAncestors"} -> todoAncestors
    [] p \in {"classAliases", "lastClassAliases"} -> todoClassAliases
    [] p = "typeAliases" -> todoTypeAliases
    [] p = "done" -> {}

endPass ==
  /\ phase # "done" /\ pass = {}
  /\ phase' = nextPhase /\ pass' = items(nextPhase)
  /\ progress' = (progress /\ nextPhase # "ancestors")
  /\ retries' = IF nextPhase = "ancestors" THEN retries + 1 ELSE retries
  /\ UNCHANGED <<choice, symbol, resolutionFailed, lists, ancestry, resultType>>

visit(i) == pass' = pass \ {i} /\ UNCHANGED <<choice, phase, retries>>

\* The walk makes no item of an ancestor that is a type alias already.
transformAncestor(i) ==
  todoAncestors' = {j \in todoAncestors : prog.ancestors[j].constant = i => symbol'[i] \notin TypeAliases}

\* Workers share the files.  The symbol table is const meanwhile and a job uses
\* constants of its own file only, so one order of the files stands for all.
resolveConstants ==
  /\ phase \in {"walk", "constants"} /\ pass # {}
  /\ \E i \in {Min(pass)} :
       /\ visit(i) /\ resolveConstantJob(i)
       /\ IF phase = "walk" THEN transformAncestor(i) ELSE UNCHANGED todoAncestors
  /\ UNCHANGED <<todoClassAliases, todoTypeAliases, ancestry, resultType>>

resolveAncestors ==
  /\ phase = "ancestors" /\ pass # {}
  /\ \E i \in {Min(pass)} : visit(i) /\ resolveAncestorJob(i)
  /\ UNCHANGED <<symbol, resolutionFailed, todo, todoClassAliases, todoTypeAliases, resultType>>

resolveClassAliases ==
  /\ phase \in {"classAliases", "lastClassAliases"} /\ pass # {}
  /\ \E i \in {Min(pass)} : visit(i) /\ resolveClassAliasJob(i)
  /\ UNCHANGED <<symbol, resolutionFailed, todo, todoAncestors, todoTypeAliases, ancestry>>

resolveTypeAliases ==
  /\ phase = "typeAliases" /\ pass # {}
  /\ \E i \in {Min(pass)} : visit(i) /\ resolveTypeAliasJob(i)
  /\ UNCHANGED <<symbol, resolutionFailed, todo, todoAncestors, todoClassAliases, ancestry>>

\* Errors are reported for the strictest files first.
firstByStrictness(item) ==
  CHOOSE i \in pass :
    \A k \in pass : \/ prog.strictness[item[i].file] > prog.strictness[item[k].file]
                    \/ prog.strictness[item[i].file] = prog.strictness[item[k].file] /\ i <= k

reportConstants ==
  /\ phase = "failed" /\ pass # {}
  /\ \E i \in {firstByStrictness(prog.constants)} :
       visit(i) /\ constantResolutionFailed(i) /\ todo' = todo \ {i}
  /\ UNCHANGED <<progress, todoAncestors, todoClassAliases, todoTypeAliases, ancestry>>

\* resolveAncestorJob(lastRun), whose constant has a symbol by now.
reportAncestors ==
  /\ phase = "lastAncestors" /\ pass # {}
  /\ \E j \in {firstByStrictness(prog.ancestors)} :
       visit(j) /\ symbolOf(j) # NoSymbol /\ addAncestor(j)
  /\ UNCHANGED <<symbol, resolutionFailed, todo, todoClassAliases, todoTypeAliases, resultType>>

Next ==
  \/ endPass \/ resolveConstants \/ resolveAncestors \/ resolveClassAliases
  \/ resolveTypeAliases \/ reportConstants \/ reportAncestors

-----------------------------------------------------------------------------
(***************************************************************************)
(* dealias ends before its limit: of any aliases one stands for something  *)
(* else than one of them, in whatever order resolveClassAliasJob gets to   *)
(* them (resolver.cc:653-660), in a program that assigns no constant twice *)
(* and has no chain of aliases longer than the limit.                      *)
(***************************************************************************)
AliasChainsEnd ==
  \A S \in (SUBSET ClassAliases) \ {{}} : \E a \in S : resultType[a] \notin S

(***************************************************************************)
(* findMemberTransitive never hits a loop: no class is among its own       *)
(* ancestors at any time, though superclasses and mixins are added one by  *)
(* one, from several files and through aliases, each of them checked only  *)
(* against those added before (resolver.cc:745-759, Symbols.cc:797-817).   *)
(* derivesFrom does not look into the mixins of what a linearized class    *)
(* mixes in: nothing new may be mixed into those.                          *)
(***************************************************************************)
AncestorsAreAcyclic ==
  \A S \in (SUBSET Classes) \ {{}} :
    \E k \in S : superClass[k] \notin S /\ Range(mixins[k]) \cap S = {}

(***************************************************************************)
(* Neither aliases nor ancestors ever form a cycle, though both are        *)
(* resolved through the other (resolver.cc:653-660, 745-759).              *)
(***************************************************************************)
NoCycles == AliasChainsEnd /\ AncestorsAreAcyclic

(***************************************************************************)
(* The fixed point misses nothing: a constant that is reported as an error *)
(* could not be resolved even with all the ancestors and aliases known by  *)
(* then, unless to a type alias whose right hand side was not resolved     *)
(* (the ENFORCEs of resolver.cc:447-448).                                  *)
(***************************************************************************)
NothingIsMissed ==
  phase = "failed" =>
    \A i \in pass : /\ exists(resolveConstant(i)) => resolveConstant(i) \in TypeAliases
                    /\ exists(symbol[i]) => symbol[i] \in TypeAliases

(***************************************************************************)
(* In the end every constant has a symbol, every alias a type and every    *)
(* ancestor its place, be it a stub: also when constants, ancestors and    *)
(* aliases wait for each other in a circle (resolver.cc:1714-1745).        *)
(***************************************************************************)
EverythingIsResolved ==
  phase = "done" =>
    /\ todo = {} /\ todoAncestors = {}
    /\ \A i \in DOMAIN symbol : symbol[i] # NoSymbol
    /\ \A a \in DOMAIN prog.classAliases : resultType[prog.classAliases[a].lhs] # NoType
    /\ \A t \in DOMAIN prog.typeAliases : resultType[prog.typeAliases[t].lhs] # NoType

(***************************************************************************)
(* The fixed point resolves all that can be resolved and leaves nothing    *)
(* without a symbol (resolver.cc:1571-1745).                               *)
(***************************************************************************)
FixedPointIsComplete == NothingIsMissed /\ EverythingIsResolved

(***************************************************************************)
(* The loop ends: there are no more rounds than items resolved, and one in *)
(* which nothing moves (resolver.cc:1571-1647).                            *)
(***************************************************************************)
itemsLeft ==
  Cardinality(todo) + Cardinality(todoAncestors) + Cardinality(todoClassAliases)
  + Cardinality(todoTypeAliases)
allItems ==
  Len(prog.constants) + Len(prog.ancestors) + Len(prog.classAliases) + Len(prog.typeAliases)
EveryRoundResolves == retries <= allItems - itemsLeft + 1
=============================================================================
