------------------------------- MODULE WalkProofs -------------------------------
(***************************************************************************)
(* The walks of Magus::Port return the closures, for every depends table   *)
(* and every way to print the ports.  No induction over the table is       *)
(* needed: when the loops have ended, what was found is closed under the   *)
(* rows that count, and the closure is the least such set.                 *)
(***************************************************************************)
EXTENDS DependsWalk, Integers, TLAPS

(* The closure with the port itself, which a circle of dependencies leads   *)
(* back to and Finish deletes.                                             *)
Whole == D!Closure(D!DependsOf(self, Direct), Below)

TypeInv ==
  /\ depends \subseteq Ports \X D!DepType \X Ports
  /\ pkgname \in [Ports -> Names]
  /\ kind \in Kinds
  /\ stack \in Seq(SUBSET depends)

(* Nothing outside the closure is found or still to be looked at. *)
StaysInside ==
  /\ \A i \in DOMAIN stack : \A r \in stack[i] : r[3] \in Whole
  /\ \A n \in DOMAIN found : found[n] \in Whole /\ pkgname[found[n]] = n

(* The row has been followed, or a loop still has it. *)
Covered(r) ==
  \/ pkgname[r[3]] \in DOMAIN found
  \/ \E i \in DOMAIN stack : r \in stack[i]

(* Of the port asked and of each port found no row that counts is lost. *)
NoRowLost ==
  /\ \A r \in Rows(self, Direct) : Covered(r)
  /\ \A n \in DOMAIN found : \A r \in Rows(found[n], Below) : Covered(r)

Returned ==
  done => stack = <<>> /\ answer = {found[n] : n \in DOMAIN found \ {pkgname[self]}}

WalkInv == TypeInv /\ StaysInside /\ NoRowLost /\ Returned
-----------------------------------------------------------------------------
(* The closure. *)

LEMMA DirectInside ==
  ASSUME TypeInv, NEW r \in Rows(self, Direct)
  PROVE  r[3] \in Whole
<1>1. PICK t \in Direct, d \in Ports : r = <<self, t, d>>
  BY DEF Rows, TypeInv
<1>2. r \in depends
  BY DEF Rows
<1>3. d \in D!DependsOf(self, Direct)
  BY <1>1, <1>2 DEF D!DependsOf
<1>4. QED
  BY <1>1, <1>3 DEF Whole, D!Closure

LEMMA BelowInside ==
  ASSUME TypeInv, NEW x \in Whole, NEW r \in Rows(x, Below)
  PROVE  r[3] \in Whole
<1>1. PICK t \in Below, d \in Ports : r = <<x, t, d>>
  BY DEF Rows, TypeInv
<1>2. r \in depends
  BY DEF Rows
<1>3. d \in D!DependsOf(x, Below)
  BY <1>1, <1>2 DEF D!DependsOf
<1>4. QED
  BY <1>1, <1>3 DEF Whole, D!Closure, D!IsClosed

LEMMA WholeIsLeast ==
  ASSUME TypeInv, NEW S \in SUBSET Ports,
         \A r \in Rows(self, Direct) : r[3] \in S,
         \A x \in S : \A r \in Rows(x, Below) : r[3] \in S
  PROVE  Whole \subseteq S
<1>1. ASSUME NEW d \in D!DependsOf(self, Direct) PROVE d \in S
  <2>1. PICK t \in Direct : <<self, t, d>> \in depends
    BY DEF D!DependsOf
  <2>2. <<self, t, d>> \in Rows(self, Direct)
    BY <2>1 DEF Rows
  <2>3. QED
    BY <2>2
<1>2. ASSUME NEW x \in S, NEW d \in D!DependsOf(x, Below) PROVE d \in S
  <2>1. PICK t \in Below : <<x, t, d>> \in depends
    BY DEF D!DependsOf
  <2>2. <<x, t, d>> \in Rows(x, Below)
    BY <2>1 DEF Rows
  <2>3. QED
    BY <2>2
<1>3. QED
  BY <1>1, <1>2 DEF Whole, D!Closure, D!IsClosed

LEMMA WholeIsClosure ==
  ASSUME TypeInv
  PROVE  Closure = Whole \ {self}
<1>1. CASE kind = "build"
  BY <1>1, WalkAssumption DEF Closure, Whole, Direct, Below, D!build_depends_closure
<1>2. CASE kind = "test"
  BY <1>2, WalkAssumption DEF Closure, Whole, Direct, Below, D!test_depends_closure
<1>3. CASE kind = "fetch"
  BY <1>3, WalkAssumption DEF Closure, Whole, Direct, Below, D!fetch_depends_closure
<1>4. CASE kind = "all"
  BY <1>4 DEF Closure, Whole, Direct, Below
<1>5. QED
  BY <1>1, <1>2, <1>3, <1>4 DEF TypeInv, Kinds

LEMMA SameWhole ==
  ASSUME UNCHANGED <<depends, kind>>
  PROVE  /\ Whole' = Whole /\ Direct' = Direct /\ Below' = Below
         /\ \A p, types : Rows(p, types)' = Rows(p, types)
  BY DEF Whole, Direct, Below, Rows, D!Closure, D!IsClosed, D!DependsOf, D!DepType, D!InstallType
-----------------------------------------------------------------------------
(* The stack. *)

LEMMA HeadReplaced ==
  ASSUME NEW T, NEW s \in Seq(T), s # <<>>, NEW h \in T, NEW t, t = <<h>> \o Tail(s)
  PROVE  /\ t \in Seq(T) /\ DOMAIN t = DOMAIN s /\ 1 \in DOMAIN s /\ t[1] = h
         /\ \A i \in DOMAIN s : i # 1 => t[i] = s[i]
  OBVIOUS

LEMMA LoopEntered ==
  ASSUME NEW T, NEW s \in Seq(T), s # <<>>, NEW g \in T, NEW h \in T, NEW t,
         t = <<g, h>> \o Tail(s)
  PROVE  /\ t \in Seq(T) /\ 1 \in DOMAIN t /\ t[1] = g /\ 2 \in DOMAIN t /\ t[2] = h
         /\ \A i \in DOMAIN t : i \notin {1, 2} => i - 1 \in DOMAIN s /\ t[i] = s[i - 1]
         /\ \A k \in DOMAIN s : k # 1 => k + 1 \in DOMAIN t /\ t[k + 1] = s[k]
<1>1. /\ Tail(s) \in Seq(T) /\ Len(Tail(s)) = Len(s) - 1 /\ Len(s) \in Nat \ {0}
      /\ \A i \in 1..(Len(s) - 1) : Tail(s)[i] = s[i + 1]
      /\ DOMAIN s = 1..Len(s)
  OBVIOUS
<1>2. /\ <<g, h>> \in Seq(T) /\ Len(<<g, h>>) = 2
      /\ <<g, h>>[1] = g /\ <<g, h>>[2] = h
  OBVIOUS
<1>3. /\ t \in Seq(T) /\ Len(t) = Len(s) + 1 /\ DOMAIN t = 1..(Len(s) + 1)
      /\ t[1] = g /\ t[2] = h
      /\ \A i \in 1..(Len(s) + 1) : i > 2 => t[i] = s[i - 1]
  BY <1>1, <1>2
<1>4. ASSUME NEW i \in DOMAIN t, i \notin {1, 2}
      PROVE  i - 1 \in DOMAIN s /\ t[i] = s[i - 1]
  <2>1. i \in 1..(Len(s) + 1) /\ i > 2
    BY <1>1, <1>3, <1>4
  <2>2. QED
    BY <1>1, <1>3, <2>1
<1>5. ASSUME NEW k \in DOMAIN s, k # 1
      PROVE  k + 1 \in DOMAIN t /\ t[k + 1] = s[k]
  <2>1. k + 1 \in 1..(Len(s) + 1) /\ k + 1 > 2 /\ (k + 1) - 1 = k
    BY <1>1, <1>5
  <2>2. QED
    BY <1>3, <2>1
<1>6. 1 \in DOMAIN t /\ 2 \in DOMAIN t
  BY <1>1, <1>3
<1>7. QED
  BY <1>3, <1>4, <1>5, <1>6
-----------------------------------------------------------------------------
(* The walk. *)

LEMMA WalkInvInit == Init => WalkInv
<1> SUFFICES ASSUME Init PROVE WalkInv
  OBVIOUS
<1>1. TypeInv
  BY WalkAssumption DEF Init, TypeInv, Rows
<1>2. DOMAIN stack = {1} /\ stack[1] = Rows(self, Direct) /\ DOMAIN found = {}
  BY DEF Init
<1>3. StaysInside
  BY <1>1, <1>2, DirectInside DEF StaysInside
<1>4. NoRowLost
  BY <1>2 DEF NoRowLost, Covered
<1>5. QED
  BY <1>1, <1>3, <1>4 DEF Init, Returned, WalkInv

LEMMA SkipWalkInv ==
  ASSUME WalkInv, NEW r \in Head(stack), stack # <<>>, Skip(r)
  PROVE  WalkInv'
<1>1. /\ UNCHANGED <<depends, pkgname, kind, found, answer, done>>
      /\ stack' = <<Head(stack) \ {r}>> \o Tail(stack)
      /\ pkgname[r[3]] \in DOMAIN found
  BY DEF Skip, Known
<1>2. /\ Whole' = Whole /\ Direct' = Direct /\ Below' = Below
      /\ \A p, types : Rows(p, types)' = Rows(p, types)
  BY <1>1, SameWhole
<1>3. stack \in Seq(SUBSET depends) /\ Head(stack) \ {r} \in SUBSET depends
      /\ Head(stack) = stack[1]
  BY DEF WalkInv, TypeInv
<1>4. /\ stack' \in Seq(SUBSET depends) /\ DOMAIN stack' = DOMAIN stack /\ 1 \in DOMAIN stack
      /\ stack'[1] = stack[1] \ {r}
      /\ \A i \in DOMAIN stack : i # 1 => stack'[i] = stack[i]
  BY <1>1, <1>3, HeadReplaced
<1>5. TypeInv'
  BY <1>1, <1>4 DEF WalkInv, TypeInv
<1>6. StaysInside'
  BY <1>1, <1>2, <1>4 DEF WalkInv, StaysInside
<1>7. ASSUME NEW q, Covered(q) PROVE Covered(q)'
  BY <1>1, <1>4, <1>7 DEF Covered
<1>8. NoRowLost'
  BY <1>1, <1>2, <1>7 DEF WalkInv, NoRowLost
<1>9. Returned'
  BY <1>1 DEF WalkInv, Returned
<1>10. QED
  BY <1>5, <1>6, <1>8, <1>9 DEF WalkInv

LEMMA VisitWalkInv ==
  ASSUME WalkInv, NEW r \in Head(stack), stack # <<>>, Visit(r)
  PROVE  WalkInv'
<1> DEFINE d == r[3]
           New == Rows(d, Below)
           Rest == Head(stack) \ {r}
<1>1. /\ UNCHANGED <<depends, pkgname, kind, answer, done>>
      /\ stack' = <<New, Rest>> \o Tail(stack)
      /\ found' = Put(d)
  BY DEF Visit
<1>2. /\ Whole' = Whole /\ Direct' = Direct /\ Below' = Below
      /\ \A p, types : Rows(p, types)' = Rows(p, types)
  BY <1>1, SameWhole
<1>3. /\ stack \in Seq(SUBSET depends) /\ Rest \in SUBSET depends
      /\ Head(stack) = stack[1] /\ 1 \in DOMAIN stack
      /\ New \in SUBSET depends
  BY DEF WalkInv, TypeInv, Rows
<1>4. /\ stack' \in Seq(SUBSET depends)
      /\ 1 \in DOMAIN stack' /\ stack'[1] = New /\ 2 \in DOMAIN stack' /\ stack'[2] = Rest
      /\ \A i \in DOMAIN stack' :
           i \notin {1, 2} => i - 1 \in DOMAIN stack /\ stack'[i] = stack[i - 1]
      /\ \A k \in DOMAIN stack :
           k # 1 => k + 1 \in DOMAIN stack' /\ stack'[k + 1] = stack[k]
  <2> HIDE DEF New, Rest
  <2> QED
    BY <1>1, <1>3, LoopEntered
<1>5. /\ DOMAIN found' = DOMAIN found \cup {pkgname[d]}
      /\ found'[pkgname[d]] = d
      /\ \A n \in DOMAIN found : n # pkgname[d] => found'[n] = found[n]
  BY <1>1 DEF Put
<1>6. d \in Whole
  BY <1>3 DEF WalkInv, StaysInside
<1>7. \A q \in New : q[3] \in Whole
  BY <1>6, BelowInside DEF WalkInv
<1>8. TypeInv'
  BY <1>1, <1>4 DEF WalkInv, TypeInv
<1>9. StaysInside'
  <2>1. ASSUME NEW i \in DOMAIN stack', NEW q \in stack'[i] PROVE q[3] \in Whole
    <3>1. CASE i = 1
      BY <1>4, <1>7, <2>1, <3>1
    <3>2. CASE i = 2
      BY <1>3, <1>4, <2>1, <3>2 DEF WalkInv, StaysInside
    <3>3. CASE i \notin {1, 2}
      BY <1>4, <2>1, <3>3 DEF WalkInv, StaysInside
    <3>4. QED
      BY <3>1, <3>2, <3>3
  <2>2. ASSUME NEW n \in DOMAIN found' PROVE found'[n] \in Whole /\ pkgname[found'[n]] = n
    BY <1>5, <1>6 DEF WalkInv, StaysInside
  <2>3. QED
    BY <1>1, <1>2, <2>1, <2>2 DEF StaysInside
<1>10. ASSUME NEW q, Covered(q) PROVE Covered(q)'
  <2>1. CASE pkgname[q[3]] \in DOMAIN found \/ q = r
    <3>1. pkgname'[q[3]] \in DOMAIN found'
      BY <1>1, <1>5, <2>1
    <3>2. QED
      BY <3>1 DEF Covered
  <2>2. CASE q # r /\ \E k \in DOMAIN stack : q \in stack[k]
    <3> HIDE DEF New
    <3>1. PICK k \in DOMAIN stack : q \in stack[k]
      BY <2>2
    <3>2. \E i \in DOMAIN stack' : q \in stack'[i]
      BY <1>3, <1>4, <2>2, <3>1
    <3>3. QED
      BY <3>2 DEF Covered
  <2>3. QED
    BY <1>10, <2>1, <2>2 DEF Covered
<1>11. ASSUME NEW q \in New PROVE Covered(q)'
  <2> HIDE DEF New
  <2> QED
    BY <1>4, <1>11 DEF Covered
<1>12. NoRowLost'
  <2>1. \A q \in Rows(self, Direct)' : Covered(q)'
    BY <1>2, <1>10 DEF WalkInv, NoRowLost
  <2>2. ASSUME NEW n \in DOMAIN found', NEW q \in Rows(found'[n], Below) PROVE Covered(q)'
    <3>1. CASE n = pkgname[d]
      BY <1>5, <1>11, <3>1
    <3>2. CASE n # pkgname[d]
      BY <1>5, <1>10, <2>2, <3>2 DEF WalkInv, NoRowLost
    <3>3. QED
      BY <3>1, <3>2
  <2>3. QED
    BY <1>2, <2>1, <2>2 DEF NoRowLost
<1>13. Returned'
  BY <1>1 DEF WalkInv, Returned
<1>14. QED
  BY <1>8, <1>9, <1>12, <1>13 DEF WalkInv

LEMMA ReturnWalkInv ==
  ASSUME WalkInv, Return
  PROVE  WalkInv'
<1>1. /\ UNCHANGED <<depends, pkgname, kind, found, answer, done>>
      /\ stack # <<>> /\ Head(stack) = {} /\ stack' = Tail(stack)
  BY DEF Return
<1>2. /\ Whole' = Whole /\ Direct' = Direct /\ Below' = Below
      /\ \A p, types : Rows(p, types)' = Rows(p, types)
  BY <1>1, SameWhole
<1>3. stack \in Seq(SUBSET depends) /\ stack[1] = {}
  BY <1>1 DEF WalkInv, TypeInv
<1>4. /\ stack' \in Seq(SUBSET depends)
      /\ \A i \in DOMAIN stack' : i + 1 \in DOMAIN stack /\ stack'[i] = stack[i + 1]
      /\ \A k \in DOMAIN stack : k # 1 => k - 1 \in DOMAIN stack' /\ stack'[k - 1] = stack[k]
  BY <1>1, <1>3
<1>5. TypeInv'
  BY <1>1, <1>4 DEF WalkInv, TypeInv
<1>6. StaysInside'
  BY <1>1, <1>2, <1>4 DEF WalkInv, StaysInside
<1>7. ASSUME NEW q, Covered(q) PROVE Covered(q)'
  BY <1>1, <1>3, <1>4, <1>7 DEF Covered
<1>8. NoRowLost'
  BY <1>1, <1>2, <1>7 DEF WalkInv, NoRowLost
<1>9. Returned'
  BY <1>1 DEF WalkInv, Returned
<1>10. QED
  BY <1>5, <1>6, <1>8, <1>9 DEF WalkInv

LEMMA FinishWalkInv ==
  ASSUME WalkInv, UNCHANGED <<depends, pkgname, kind, stack, found>>,
         Finish \/ UNCHANGED <<answer, done>>
  PROVE  WalkInv'
<1>1. /\ Whole' = Whole /\ Direct' = Direct /\ Below' = Below
      /\ \A p, types : Rows(p, types)' = Rows(p, types)
  BY SameWhole
<1>2. TypeInv' /\ StaysInside' /\ NoRowLost'
  BY <1>1 DEF WalkInv, TypeInv, StaysInside, NoRowLost, Covered
<1>3. Returned'
  BY DEF WalkInv, Returned, Finish
<1>4. QED
  BY <1>2, <1>3 DEF WalkInv
-----------------------------------------------------------------------------
(* What the walk returns. *)

LEMMA WalkInvShows ==
  ASSUME WalkInv
  PROVE  WalkIsClosure
<1> SUFFICES ASSUME done
             PROVE  answer \subseteq Closure /\ (~Namesakes(Closure \cup {self}) => answer = Closure)
  BY DEF WalkIsClosure
<1>1. /\ DOMAIN stack = {} /\ TypeInv
      /\ answer = {found[n] : n \in DOMAIN found \ {pkgname[self]}}
      /\ \A n \in DOMAIN found : found[n] \in Whole /\ pkgname[found[n]] = n
      /\ Closure = Whole \ {self}
  BY WholeIsClosure DEF WalkInv, Returned, StaysInside
<1>2. answer \subseteq Closure
  BY <1>1
<1>3. ASSUME ~Namesakes(Closure \cup {self}) PROVE answer = Closure
  <2> DEFINE Found == {found[n] : n \in DOMAIN found}
  <2>1. \A x, y \in Whole \cup {self} : pkgname[x] = pkgname[y] => x = y
    BY <1>1, <1>3 DEF Namesakes
  <2>2. ASSUME NEW d \in Whole, pkgname[d] \in DOMAIN found PROVE d \in Found
    <3>1. found[pkgname[d]] = d
      BY <1>1, <2>1, <2>2
    <3>2. QED
      BY <2>2, <3>1
  <2>3. ASSUME NEW r \in Rows(self, Direct) PROVE r[3] \in Found
    <3>1. pkgname[r[3]] \in DOMAIN found /\ r[3] \in Whole
      BY <1>1, DirectInside DEF WalkInv, NoRowLost, Covered
    <3>2. QED
      BY <2>2, <3>1
  <2>4. ASSUME NEW x \in Found, NEW r \in Rows(x, Below) PROVE r[3] \in Found
    <3>1. pkgname[r[3]] \in DOMAIN found /\ r[3] \in Whole
      BY <1>1, BelowInside DEF WalkInv, NoRowLost, Covered
    <3>2. QED
      BY <2>2, <3>1
  <2>5. Found \in SUBSET Ports
    BY <1>1 DEF Whole, D!Closure
  <2>6. Whole \subseteq Found
    <3> HIDE DEF Found
    <3> QED
      BY <1>1, <2>3, <2>4, <2>5, WholeIsLeast
  <2>7. ASSUME NEW d \in Closure PROVE d \in answer
    <3>1. PICK n \in DOMAIN found : found[n] = d
      BY <1>1, <2>6
    <3>2. n # pkgname[self]
      BY <1>1, <2>1, <3>1
    <3>3. QED
      BY <1>1, <3>1, <3>2
  <2>8. QED
    BY <1>2, <2>7
<1>4. QED
  BY <1>2, <1>3

(* For every depends table, circular or not, and every order of its rows,   *)
(* the walks of Port.pm return nothing but the closure that readiness is    *)
(* judged by, and all of it unless two of the ports concerned print alike.  *)
THEOREM WalkReturnsClosure == Spec => []WalkIsClosure
<1>1. WalkInv /\ [Next]_walk => WalkInv'
  <2> SUFFICES ASSUME WalkInv, [Next]_walk PROVE WalkInv'
    OBVIOUS
  <2>1. ASSUME stack # <<>>, NEW r \in Head(stack), Skip(r) \/ Visit(r) PROVE WalkInv'
    BY <2>1, SkipWalkInv, VisitWalkInv
  <2>2. CASE Return
    BY <2>2, ReturnWalkInv
  <2>3. CASE Finish
    BY <2>3, FinishWalkInv DEF Finish
  <2>4. CASE UNCHANGED walk
    BY <2>4, FinishWalkInv DEF walk
  <2>5. QED
    BY <2>1, <2>2, <2>3, <2>4 DEF Next
<1>2. QED
  BY <1>1, WalkInvInit, WalkInvShows, PTL DEF Spec
=============================================================================
