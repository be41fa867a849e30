----------------------------- MODULE MCResolver -----------------------------
(***************************************************************************)
(* The programs of the resolver's runs.  In those that wait,               *)
(*                                                                         *)
(*   class A < s; include i1; include i2; X; end       # file 1            *)
(*   class P < p; end                                  # file 2            *)
(*   Q = q, or Q = T.type_alias {q} and foo::X                             *)
(*   R = r; Q::X                                                           *)
(*                                                                         *)
(* s, i1, i2, p, q and r range over constants that make them wait for each *)
(* other, P and M define modules P::X (which is N) and M::X (O) or none,   *)
(* and A is or is not a class of the payload that includes M.  In the      *)
(* hierarchies,                                                            *)
(*                                                                         *)
(*   class A < P; include ...; X; end                  # file 1            *)
(*   class P; include ...; end; module M; include ...; end  # file 2       *)
(*   module N; include ...; end                                            *)
(*                                                                         *)
(* mix in modules that mix in each other, and N and P define X = 1.        *)
(***************************************************************************)
EXTENDS Resolver

MCClasses == {"Root", "Object", "A", "P", "M", "N", "O"}
MCModules == {"M", "N", "O"}
MCClassAliases == {"Q", "R"}
MCTypeAliases == {"T"}
Absent == "absent"

constant(file, nesting, scope, name) ==
  [file |-> file, nesting |-> nesting, scope |-> scope, name |-> name, symbol |-> NoSymbol]
\* Where there is no ancestor the constant is a plain reference to A.
orA(name) == IF name = Absent THEN "A" ELSE name
inRoot(name) == constant(2, <<"Root">>, EmptyTree, orA(name))
inA(name) == constant(1, <<"A", "Root">>, EmptyTree, orA(name))

mixin(file, k, c) == [file |-> file, klass |-> k, constant |-> c, isSuperclass |-> FALSE]
superclass(file, k, c) == [file |-> file, klass |-> k, constant |-> c, isSuperclass |-> TRUE]

\* Members: the classes and the aliases in Root, and X in the classes of xs.
members(names, q, xs) ==
  [m \in ({"Root"} \X names) \cup ((DOMAIN xs) \X {"X"}) |->
     IF m = <<"Root", "Q">> THEN q ELSE IF m[1] = "Root" THEN m[2] ELSE xs[m[1]]]

waiting(s, i1, i2, p, q, r, kind) ==
  [constants |->
     <<inA("X"), [inRoot(s) EXCEPT !.file = 1], inA(i1), inA(i2), inRoot(p), inRoot(q), inRoot(r),
       inRoot("Q"), constant(2, <<"Root">>, 8, "X")>>
     \o IF kind.isTypeAlias
          THEN <<constant(2, <<"Root">>, Dynamic, "X"), [inRoot("Q") EXCEPT !.symbol = "T"]>>
          ELSE <<>>,
   ancestors |->
     (IF s = Absent THEN <<>> ELSE <<superclass(1, "A", 2)>>)
     \o <<mixin(1, "A", 3)>> \o (IF i2 = Absent THEN <<>> ELSE <<mixin(1, "A", 4)>>)
     \o (IF p = Absent THEN <<>> ELSE <<superclass(2, "P", 5)>>),
   classAliases |->
     (IF kind.isTypeAlias THEN <<>> ELSE <<[file |-> 2, lhs |-> "Q", rhs |-> 6]>>)
     \o <<[file |-> 2, lhs |-> "R", rhs |-> 7]>>,
   typeAliases |-> IF kind.isTypeAlias THEN <<[file |-> 2, lhs |-> "T", rhs |-> {6}]>> ELSE <<>>,
   members |-> members({"A", "P", "M", "Q", "R"}, IF kind.isTypeAlias THEN "T" ELSE "Q", kind.xs),
   payload |->
     [k \in IF kind.inPayload THEN {"A", "M"} ELSE {} |->
        IF k = "A" THEN [superClass |-> "Object", mixins |-> <<"M">>]
        ELSE [superClass |-> ImplicitModuleSuperClass, mixins |-> <<>>]],
   strictness |-> <<1, 2>>]

hierarchy(a, p, m, n) ==
  LET names == <<"P">> \o a \o p \o m \o n
      classOf == [i \in DOMAIN names |->
                    IF i <= 1 + Len(a) THEN "A" ELSE IF i <= 1 + Len(a \o p) THEN "P"
                    ELSE IF i <= 1 + Len(a \o p \o m) THEN "M" ELSE "N"]
      file(i) == IF classOf[i] = "A" THEN 1 ELSE 2
  IN  [constants |-> [i \in DOMAIN names |-> [inRoot(names[i]) EXCEPT !.file = file(i)]] \o <<inA("X")>>,
       ancestors |-> <<superclass(1, "A", 1)>>
                     \o Tail([i \in DOMAIN names |-> mixin(file(i), classOf[i], i)]),
       classAliases |-> <<>>, typeAliases |-> <<>>,
       members |-> members({"A", "P", "M", "N", "O"}, NoSymbol, [N |-> "Q", P |-> "R"]),
       payload |-> <<>>, strictness |-> <<1, 2>>]

bothX == [P |-> "N", M |-> "O"]
kinds == <<[xs |-> <<>>, isTypeAlias |-> FALSE, inPayload |-> FALSE],
           [xs |-> bothX, isTypeAlias |-> FALSE, inPayload |-> FALSE],
           [xs |-> bothX, isTypeAlias |-> TRUE, inPayload |-> FALSE],
           [xs |-> bothX, isTypeAlias |-> FALSE, inPayload |-> TRUE]>>

\* Programs are numbered so that TLC finds one fast; a digit of the number picks
\* one of the options.
pick(options, n) == options[(n % Len(options)) + 1]
Waiting == 3 * 3 * 2 * 3 * 5 * 2 * 4
Hierarchies == 6 * 3 * 5 * 2

MCPrograms ==
  [n \in 0 .. Waiting + Hierarchies - 1 |->
     IF n < Waiting
       THEN waiting(pick(<<Absent, "P", "Q">>, n), pick(<<"M", "Q", "X">>, n \div 3),
                    pick(<<Absent, "R">>, n \div 9), pick(<<Absent, "A", "R">>, n \div 18),
                    pick(<<"A", "M", "P", "R", "X">>, n \div 54), pick(<<"M", "Q">>, n \div 270),
                    pick(kinds, n \div 540))
       ELSE hierarchy(pick(<<<<"M">>, <<"M", "N">>, <<"N", "M">>, <<"O", "M">>, <<"O", "N">>, <<"M", "M">>>>, n),
                      pick(<<<<>>, <<"N">>, <<"M">>>>, n \div 6),
                      pick(<<<<>>, <<"N">>, <<"O">>, <<"N", "O">>, <<"O", "N">>>>, n \div 18),
                      pick(<<<<>>, <<"O">>>>, n \div 90))]
=============================================================================
