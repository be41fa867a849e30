------------------------------ MODULE Resolver ------------------------------
(***************************************************************************)
(* Resolver::run and, on the fast path, Resolver::runIncremental.  Both    *)
(* begin with resolveConstants.  run then gives every class a superclass   *)
(* and replaces its mixins, which are in the order of the source, by the   *)
(* modules searched between the class and its superclass in the order they *)
(* are searched.  runIncremental leaves that alone: it resolves the files  *)
(* of the fast path in the symbol table that run has left, in which the    *)
(* namer has reset the aliases of those files.  BasicObject is left out.   *)
(***************************************************************************)
EXTENDS ResolveConstants

CONSTANT MaxFastPaths  \* bound

VARIABLES
  fastPaths,  \* calls of runIncremental so far
  resolved,   \* history: what run resolved the constants to
  stable      \* history: with all ancestors known they would resolve to the same

resolverVars == <<vars, fastPaths, resolved, stable>>

RInit == Init /\ fastPaths = 0 /\ resolved = symbol /\ stable = TRUE

resolveConstantsStep ==
  /\ phase \notin {"done", "finalized", "resolved"}
  /\ Next
  /\ UNCHANGED <<fastPaths, resolved, stable>>

-----------------------------------------------------------------------------
(***************************************************************************)
(* The end of run.                                                         *)
(***************************************************************************)
isModule(k) == k \in Modules \cup {StubModule, StubMixin, PlaceholderMixin}

finalizedSuperClass(k) ==
  IF superClass[k] # NoSymbol \/ k \in {"Object", ImplicitModuleSuperClass} THEN superClass[k]
  ELSE IF isModule(k) THEN ImplicitModuleSuperClass
  ELSE IF derivesFrom("Object", k) THEN NoSymbol ELSE "Object"

finalizeAncestors ==
  /\ phase = "done" /\ fastPaths = 0
  /\ phase' = "finalized"
  /\ superClass' = [k \in ClassesAndModules |-> finalizedSuperClass(k)]
  /\ UNCHANGED <<choice, pass, progress, retries, symbol, resolutionFailed, lists, mixinIndex, mixins,
                 linearized, resultType, fastPaths, resolved, stable>>

superClasses(k) ==
  LET chain[c \in ClassesAndModules] ==
        IF superClass[c] = NoSymbol THEN <<>> ELSE <<superClass[c]>> \o chain[superClass[c]]
  IN  chain[k]

\* What a loop over a list comes to.
loop(step(_, _), start, list) ==
  LET acc[n \in 0 .. Len(list)] == IF n = 0 THEN start ELSE step(acc[n - 1], list[n])
  IN  acc[Len(list)]

\* In the following, linear is the linearization of the classes it has been
\* computed for: the superclass and the mixins of a class come first.
isInherited(parent, s, linear) ==
  \/ s \in Range(superClasses(parent))
  \/ \E c \in {parent} \cup Range(superClasses(parent)) : s \in Range(linear[c])

\* Mutant: every module is inserted at the front.
alwaysAtTheFront(parent, acc, s, linear) ==
  IF isInherited(parent, s, linear) \/ s \in Range(acc.list) THEN acc
  ELSE [acc EXCEPT !.list = <<s>> \o @]

\* acc has the mixins so far, and how many of them come before the next one.
maybeAddMixin(parent, acc, s, linear) ==
  IF isInherited(parent, s, linear) THEN acc
  ELSE IF s \in Range(acc.list)
    THEN [acc EXCEPT !.pos = Max({@, CHOOSE i \in DOMAIN acc.list : acc.list[i] = s})]
    ELSE [list |-> SubSeq(acc.list, 1, acc.pos) \o <<s>>
                   \o SubSeq(acc.list, acc.pos + 1, Len(acc.list)),
          pos |-> acc.pos + 1]

addModule(parent, list, m, linear) ==
  loop(LAMBDA acc, s : maybeAddMixin(parent, acc, s, linear),
       [list |-> list, pos |-> 0], <<m>> \o linear[m]).list

\* A class that is mixed in brings all of its ancestors.
fullLinearizationSlow(k, linear) ==
  LET all[c \in ClassesAndModules] ==
        loop(LAMBDA acc, m : acc \o (IF isModule(m) THEN <<m>> ELSE all[m]), <<c>>, linear[c])
        \o (IF superClass[c] = NoSymbol THEN <<>> ELSE all[superClass[c]])
  IN  loop(LAMBDA acc, c : IF c \in Range(acc) THEN acc ELSE Append(acc, c), <<>>, all[k])

linearizeMixin(k, list, m, linear) ==
  IF m = superClass[k] THEN list
  ELSE IF superClass[m] \in {StubSuperClass, StubModule} THEN Append(list, m)
  ELSE IF isModule(m) THEN addModule(superClass[k], list, m, linear)
  ELSE fullLinearizationSlow(m, linear) \o list

computeLinearization ==
  LET linear[k \in ClassesAndModules] ==
        IF k \in linearized THEN mixins[k]
        ELSE loop(LAMBDA list, m : linearizeMixin(k, list, m, linear), <<>>, mixins[k])
  IN  /\ phase = "finalized"
      /\ phase' = "resolved"
      /\ mixins' = linear
      /\ linearized' = ClassesAndModules
      /\ UNCHANGED <<choice, pass, progress, retries, symbol, resolutionFailed, lists, mixinIndex,
                     superClass, resultType, fastPaths>>
      /\ resolved' = symbol
      /\ stable' = \A i \in DOMAIN symbol : resolveConstant(i)' \in {symbol[i], NoSymbol}

-----------------------------------------------------------------------------
(***************************************************************************)
(* runIncremental, for the trees of some files.                            *)
(***************************************************************************)
isIn(files, item) == {i \in DOMAIN item : item[i].file \in files}
reset(files, item, s) == \E a \in isIn(files, item) : item[a].lhs = s

runIncremental(files) ==
  /\ phase = "resolved" /\ fastPaths < MaxFastPaths
  /\ fastPaths' = fastPaths + 1
  /\ phase' = "walk" /\ progress' = FALSE /\ retries' = 0 /\ resolutionFailed' = {}
  /\ symbol' = [i \in DOMAIN symbol |->
                  IF i \in isIn(files, prog.constants) THEN prog.constants[i].symbol ELSE symbol[i]]
  /\ todo' = {i \in isIn(files, prog.constants) : prog.constants[i].symbol # NoSymbol}
  /\ pass' = isIn(files, prog.constants) \ todo'
  /\ todoAncestors' = isIn(files, prog.ancestors)
  /\ todoClassAliases' = isIn(files, prog.classAliases)
  /\ todoTypeAliases' = isIn(files, prog.typeAliases)
  /\ mixinIndex' = [j \in DOMAIN mixinIndex |-> 0]
  /\ resultType' = [s \in DOMAIN resultType |->
                      IF reset(files, prog.classAliases, s) \/ reset(files, prog.typeAliases, s)
                        THEN NoType ELSE resultType[s]]
  /\ UNCHANGED <<choice, superClass, mixins, linearized, resolved, stable>>

endIncremental ==
  /\ phase = "done" /\ fastPaths > 0
  /\ phase' = "resolved"
  /\ UNCHANGED <<choice, pass, progress, retries, symbol, resolutionFailed, lists, ancestry, resultType,
                 fastPaths, resolved, stable>>

RNext ==
  \/ resolveConstantsStep \/ finalizeAncestors \/ computeLinearization \/ endIncremental
  \/ \E files \in (SUBSET (1 .. Len(prog.strictness))) \ {{}} : runIncremental(files)
  \/ phase = "resolved" /\ fastPaths = MaxFastPaths /\ UNCHANGED resolverVars

RSpec == RInit /\ [][RNext]_resolverVars

-----------------------------------------------------------------------------
(***************************************************************************)
(* The mixins of a class end up in the order of the source, each of them   *)
(* once for every time it is mixed in, though they are resolved in         *)
(* different rounds (resolver.cc:706-710, Symbols.cc:501-505).             *)
(***************************************************************************)
mixedIn(k) ==
  SelectSeq([j \in DOMAIN prog.ancestors |-> j],
            LAMBDA j : prog.ancestors[j].klass = k /\ ~prog.ancestors[j].isSuperclass)
MixinsAreInSourceOrder ==
  phase = "finalized" =>
    \A k \in Classes \ DOMAIN prog.payload :
      /\ Len(mixins[k]) = Len(mixedIn(k))
      /\ \A n \in DOMAIN mixins[k] :
           mixins[k][n] \in {dealias(symbolOf(mixedIn(k)[n])), StubMixin}

(***************************************************************************)
(* What a constant resolved to early is what it would resolve to in the    *)
(* end, except below a class that got a mixin late, or one that mixes in a *)
(* class: the order of the passes matters nowhere else                     *)
(* (resolver.cc:1581-1583, Symbols.cc:769-793).                            *)
(***************************************************************************)
ancestorsOf(k) == {k} \cup {a \in Classes : derivesFrom(k, a)}
mixesInClass(k) == \E m \in Range(mixins[k]) : ~isModule(m)
hasLateMixin(k) == \E j \in DOMAIN prog.ancestors : prog.ancestors[j].klass = k /\ mixinIndex[j] # 0
shadows(i) ==
  \E k \in ancestorsOf(prog.constants[i].nesting[1]) : hasLateMixin(k) \/ mixesInClass(k)
OnlyLateMixinsShadow ==
  phase = "finalized" =>
    \A i \in DOMAIN symbol : resolveConstant(i) \in {symbol[i], NoSymbol} \/ shadows(i)

(***************************************************************************)
(* A linearized class derives from what it derived from before, though     *)
(* derivesFrom no longer looks at the mixins of its mixins: the debug      *)
(* check of computeClassLinearization, which compares with an empty list   *)
(* because the list is only copied in builds without it                    *)
(* (GlobalState.cc:175-178, 208-213).                                      *)
(***************************************************************************)
NoAncestorIsLost ==
  [][phase = "finalized" =>
       \A k, s \in Classes : derivesFrom(k, s)' = derivesFrom(k, s)]_resolverVars

(***************************************************************************)
(* A module is searched before the modules it mixes in, and a later mixin  *)
(* of a class before the earlier ones unless one of those brought it in,   *)
(* whatever the superclass has already ("The algorithm is harder to        *)
(* explain than to code", GlobalState.cc:165-168).                         *)
(***************************************************************************)
isBefore(list, m, n) ==
  \E i \in DOMAIN list : list[i] = m /\ \A j \in DOMAIN list : list[j] = n => i < j
isBroughtIn(m, list) == \E c \in Range(list) : c = m \/ derivesFrom(c, m)
ModulesAreSearchedInOrder ==
  [][phase = "finalized" =>
       \A k \in {c \in Classes \ DOMAIN prog.payload : ~mixesInClass(c)} :
         LET source == mixins[k]
             search == mixins'[k]
             found == Range(search) \cap Modules
         IN  /\ \A m, n \in found : derivesFrom(m, n) => isBefore(search, m, n)
             /\ \A l \in DOMAIN source : \A e \in 1 .. l - 1 :
                  {source[l], source[e]} \subseteq found /\ ~isBroughtIn(source[l], SubSeq(source, 1, l - 1))
                    => isBefore(search, source[l], source[e])]_resolverVars

(***************************************************************************)
(* Linearization keeps every ancestor and puts the modules in the order    *)
(* they are searched in (GlobalState.cc:140-215).                          *)
(***************************************************************************)
LinearizationIsRight == NoAncestorIsLost /\ ModulesAreSearchedInOrder


(***************************************************************************)
(* A fast path changes nothing: no class has to be linearized again        *)
(* (verifyLinearizationComputed, resolver.cc:3911-3917), and every         *)
(* constant resolves to what run resolved it to, though the aliases of     *)
(* some of the files are resolved anew.  The exception are programs in     *)
(* which a constant resolves to something else once all ancestors are      *)
(* known.                                                                  *)
(***************************************************************************)
FastPathRepeatsRun ==
  fastPaths > 0 /\ stable =>
    /\ linearized = ClassesAndModules
    /\ phase = "resolved" => symbol = resolved
=============================================================================
