------------------------------ MODULE DependsWalk ------------------------------
(***************************************************************************)
(* The recursive walks of Magus::Port over the depends table, with their   *)
(* stack of loops and the hash that collects ports under the name a port   *)
(* prints as, against the closures of MagusDepends that they stand for.    *)
(***************************************************************************)
EXTENDS Sequences

CONSTANTS Ports, Names,
          self,        \* the port whose dependencies are asked for
          Tables,      \* the depends tables to try
          Printed      \* the ways to print ports to try: functions from Ports to Names

VARIABLES depends,     \* the depends table
          pkgname,     \* what a port prints as, and the hash key it becomes
          kind,        \* which of the walks
          stack,       \* the loops the walk is in, innermost first
          found,       \* %depends
          answer,      \* what is returned
          done

walk == <<depends, pkgname, kind, stack, found, answer, done>>

D == INSTANCE MagusDepends WITH Depends <- depends

ASSUME WalkAssumption ==
  /\ self \in Ports
  /\ Tables \subseteq SUBSET (Ports \X D!DepType \X Ports)
  /\ Printed \subseteq [Ports -> Names]

Kinds == {"build", "test", "fetch", "all"}

(* The rows a loop over the dependencies of p goes through. *)
Rows(p, types) == {r \in depends : r[1] = p /\ r[2] \in types}

(* The types that count below the port asked. *)
Below == IF kind \in {"build", "test"} THEN D!InstallType ELSE D!DepType

(* The types that count for the port asked itself. *)
Direct ==
  CASE kind = "build" -> D!InstallType
    [] kind = "fetch" -> {"fetch"}
    [] OTHER -> D!DepType

Init ==
  /\ depends \in Tables /\ pkgname \in Printed
  /\ kind \in Kinds
  /\ stack = <<Rows(self, Direct)>>
  /\ found = <<>> /\ answer = {} /\ done = FALSE

(* The outer loop of fetch_depends_closure takes every port it meets. *)
Known(d) ==
  /\ pkgname[d] \in DOMAIN found
  /\ ~(kind = "fetch" /\ Len(stack) = 1)

(* A mistake: the loop looks at the same row again. *)
SkipAgain(r) ==
  /\ stack # <<>> /\ r \in Head(stack) /\ Known(r[3])
  /\ UNCHANGED walk

(* next if $depends->{$depend} *)
Skip(r) ==
  /\ stack # <<>> /\ r \in Head(stack) /\ Known(r[3])
  /\ stack' = <<Head(stack) \ {r}>> \o Tail(stack)
  /\ UNCHANGED <<depends, pkgname, kind, found, answer, done>>

(* $depends->{$depend} = $depend *)
Put(d) == [n \in DOMAIN found \cup {pkgname[d]} |-> IF n = pkgname[d] THEN d ELSE found[n]]

(* A mistake: test dependencies are followed all the way down. *)
VisitWithTests(r) ==
  /\ stack # <<>> /\ r \in Head(stack) /\ ~Known(r[3])
  /\ found' = Put(r[3])
  /\ stack' = <<Rows(r[3], Direct), Head(stack) \ {r}>> \o Tail(stack)
  /\ UNCHANGED <<depends, pkgname, kind, answer, done>>

(* A new dependency is put down and walked. *)
Visit(r) ==
  /\ stack # <<>> /\ r \in Head(stack) /\ ~Known(r[3])
  /\ found' = Put(r[3])
  /\ stack' = <<Rows(r[3], Below), Head(stack) \ {r}>> \o Tail(stack)
  /\ UNCHANGED <<depends, pkgname, kind, answer, done>>

Return ==
  /\ stack # <<>> /\ Head(stack) = {}
  /\ stack' = Tail(stack)
  /\ UNCHANGED <<depends, pkgname, kind, found, answer, done>>

(* delete $depends{$self}; return values %depends *)
Finish ==
  /\ stack = <<>> /\ ~done
  /\ done' = TRUE
  /\ answer' = {found[n] : n \in DOMAIN found \ {pkgname[self]}}
  /\ UNCHANGED <<depends, pkgname, kind, stack, found>>

Next ==
  \/ stack # <<>> /\ \E r \in Head(stack) : Skip(r) \/ Visit(r)
  \/ Return \/ Finish

Spec == Init /\ [][Next]_walk /\ WF_walk(Next)

Closure ==
  CASE kind = "build" -> D!build_depends_closure[self]
    [] kind = "test" -> D!test_depends_closure[self]
    [] kind = "fetch" -> D!fetch_depends_closure[self]
    [] kind = "all" -> D!Closure(D!DependsOf(self, D!DepType), D!DepType) \ {self}

Namesakes(S) == \E x, y \in S : x # y /\ pkgname[x] = pkgname[y]

(* The walks return the closures that readiness is judged by, in whatever   *)
(* order the database gives the rows and whether or not the ports depend on *)
(* each other in circles, unless two of the ports concerned print alike     *)
(* (Port.pm:241); and they never return a port that is not in it.           *)
WalkIsClosure ==
  done =>
    answer \subseteq Closure /\ (~Namesakes(Closure \cup {self}) => answer = Closure)

(* The walks of Port.pm return, although the dependencies may be circular. *)
WalkEnds == <>done
=============================================================================
