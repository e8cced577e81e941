------------------------------- MODULE LabGob -------------------------------
(***************************************************************************)
(* lab3's labgob: the checks that goroutines make, concurrently, before    *)
(* they encode, decode or register a value with encoding/gob.  The         *)
(* recursion of checkType and checkDefault1 is a goroutine's list of what  *)
(* it has still to do, in order; checked and errorCount are shared and     *)
(* each access to them is a step under mu.  Types and values are           *)
(* constants, as reflect shows them; what gob then does is external.       *)
(***************************************************************************)
EXTENDS Integers, Sequences, FiniteSets, FiniteSetsExt

CONSTANTS
  Procs,        \* goroutines
  MaxCalls,     \* bound on their calls
  Types,
  Kind,         \* a type's kind: "struct", "elem" (slice, array, pointer),
                \* "map", "basic" or "other"
  Fields,       \* a struct's fields: a sequence of [upper, type]
  Elem, Key,    \* the types an "elem" or a map is made of
  Values,
  TypeOf,       \* a value's type
  Parts,        \* a struct's fields' values; what a pointer points to, if anything
  NonDefault    \* the basic values that are not zero

ASSUME LabGobAssumption ==
  /\ IsFiniteSet(Procs) /\ MaxCalls \in Nat
  /\ Kind \in [Types -> {"struct", "elem", "map", "basic", "other"}]
  /\ Fields \in [Types -> Seq([upper : BOOLEAN, type : Types])]
  /\ Elem \in [Types -> Types] /\ Key \in [Types -> Types]
  /\ TypeOf \in [Values -> Types] /\ Parts \in [Values -> Seq(Values)]
  /\ \A v \in Values : Kind[TypeOf[v]] = "struct" => Len(Parts[v]) = Len(Fields[TypeOf[v]])

VARIABLES
  checked,      \* types already looked at
  errorCount,
  todo,         \* what each goroutine has still to do
  calls,        \* calls made so far
  complaints,   \* lower-case fields complained about, in order (history)
  handed,       \* non-default values in what Decode was called with (history)
  panicked      \* a goroutine panicked, which ends the program

gobVars == <<checked, errorCount, todo, calls, complaints, handed, panicked>>

TypeItem(t) == [do |-> "type", type |-> t]
FieldItem(t, i) == [do |-> "field", type |-> t, field |-> i]
CountItem == [do |-> "count"]
ValueItem(v, depth, ro) == [do |-> "value", value |-> v, depth |-> depth, ro |-> ro]

GobInit ==
  /\ checked = {} /\ errorCount = 0
  /\ todo = [p \in Procs |-> <<>>] /\ calls = 0
  /\ complaints = <<>> /\ handed = 0 /\ panicked = FALSE

MaxDepth == 3

\* The non-default values that a value holds, looking n levels deep: itself, a
\* struct's fields, what a pointer points to.
NonDefaultsIn[n \in 0..MaxDepth] ==
  [v \in Values |->
     CASE n = 0 -> 0
       [] n > 0 /\ Kind[TypeOf[v]] = "basic" -> IF v \in NonDefault THEN 1 ELSE 0
       [] n > 0 /\ Kind[TypeOf[v]] \in {"struct", "elem"} ->
            MapThenSumSet(LAMBDA i : NonDefaultsIn[n - 1][Parts[v][i]], DOMAIN Parts[v])
       [] OTHER -> 0]

-----------------------------------------------------------------------------
(***************************************************************************)
(* The calls.  A goroutine whose list is empty has returned.               *)
(***************************************************************************)

Enter(p, items) ==
  /\ todo[p] = <<>> /\ calls < MaxCalls
  /\ todo' = [todo EXCEPT ![p] = items]
  /\ calls' = calls + 1
  /\ UNCHANGED <<checked, errorCount, complaints, panicked>>

Encode(p) == \E t \in Types : Enter(p, <<TypeItem(t)>>) /\ UNCHANGED handed

Register(p) == \E v \in Values : Enter(p, <<TypeItem(TypeOf[v])>>) /\ UNCHANGED handed

Decode(p) ==
  \E v \in Values :
    /\ Enter(p, <<TypeItem(TypeOf[v]), ValueItem(v, 1, FALSE)>>)
    /\ handed' = handed + NonDefaultsIn[MaxDepth][v]

-----------------------------------------------------------------------------
\* Goroutine p looks at the first item of its list and finds more to look at.
Proceed(p, kind, more) ==
  /\ todo[p] # <<>> /\ Head(todo[p]).do = kind
  /\ todo' = [todo EXCEPT ![p] = more \o Tail(@)]
  /\ UNCHANGED calls

FieldsOf(t) == [i \in 1..Len(Fields[t]) |-> FieldItem(t, i)]

\* Mutant of LookInto: a map's key is not looked at.
LookIntoElem(t) ==
  CASE Kind[t] = "struct" -> FieldsOf(t)
    [] Kind[t] \in {"elem", "map"} -> <<TypeItem(Elem[t])>>
    [] OTHER -> <<>>

LookInto(t) ==
  CASE Kind[t] = "struct" -> FieldsOf(t)
    [] Kind[t] = "elem" -> <<TypeItem(Elem[t])>>
    [] Kind[t] = "map" -> <<TypeItem(Elem[t]), TypeItem(Key[t])>>
    [] OTHER -> <<>>

\* Mutant of CheckType: only a type without parts is marked at once.
CheckTypeUnmarked(p) ==
  /\ \E t \in Types :
       /\ todo[p] # <<>> /\ Head(todo[p]) = TypeItem(t)
       /\ checked' = IF LookInto(t) = <<>> THEN checked \cup {t} ELSE checked
       /\ Proceed(p, "type", IF t \in checked THEN <<>> ELSE LookInto(t))
  /\ UNCHANGED <<errorCount, complaints, handed, panicked>>

\* Mutant of CheckType: a goroutine that meets a checked type never gets on, as
\* it would not if the early return left mu locked.
CheckTypeStuck(p) ==
  /\ \E t \in Types \ checked :
       /\ todo[p] # <<>> /\ Head(todo[p]) = TypeItem(t)
       /\ checked' = checked \cup {t}
       /\ Proceed(p, "type", LookInto(t))
  /\ UNCHANGED <<errorCount, complaints, handed, panicked>>

\* if checked[t] { return }; checked[t] = true, and on to what t is made of.
CheckType(p) ==
  /\ \E t \in Types :
       /\ todo[p] # <<>> /\ Head(todo[p]) = TypeItem(t)
       /\ checked' = checked \cup {t}
       /\ Proceed(p, "type", IF t \in checked THEN <<>> ELSE LookInto(t))
  /\ UNCHANGED <<errorCount, complaints, handed, panicked>>

\* A field of a struct: a lower-case name is complained about on the output
\* ("labgob error: lower-case field ...") and has yet to be counted; then the
\* field's type is checked.
CheckField(p) ==
  /\ \E t \in Types : \E i \in DOMAIN Fields[t] :
       /\ todo[p] # <<>> /\ Head(todo[p]) = FieldItem(t, i)
       /\ \/ /\ Fields[t][i].upper
             /\ Proceed(p, "field", <<TypeItem(Fields[t][i].type)>>)
             /\ UNCHANGED complaints
          \/ /\ ~Fields[t][i].upper
             /\ Proceed(p, "field", <<CountItem, TypeItem(Fields[t][i].type)>>)
             /\ complaints' = Append(complaints, FieldItem(t, i))
  /\ UNCHANGED <<checked, errorCount, handed, panicked>>

\* mu.Lock(); errorCount += 1; mu.Unlock()
CountError(p) ==
  /\ Proceed(p, "count", <<>>)
  /\ errorCount' = errorCount + 1
  /\ UNCHANGED <<checked, complaints, handed, panicked>>

\* Fields that were not reached through their upper-case name are read-only to
\* reflect, and so is all that is reached through them.
FieldValues(v, depth, ro) ==
  [i \in 1..Len(Parts[v]) |->
     ValueItem(Parts[v][i], depth + 1, ro \/ ~Fields[TypeOf[v]][i].upper)]

PointeeValues(v, depth, ro) == [i \in 1..Len(Parts[v]) |-> ValueItem(Parts[v][i], depth + 1, ro)]

\* Mutant of TooDeep: the third level is too deep.
TooDeepEarly(depth) == depth >= MaxDepth

TooDeep(depth) == depth > MaxDepth

\* checkDefault1 on a struct, a pointer, or what it does not look into.
CheckDefaultDown(p) ==
  /\ todo[p] # <<>> /\ Head(todo[p]).do = "value"
  /\ LET v == Head(todo[p]).value
         d == Head(todo[p]).depth
         ro == Head(todo[p]).ro
         k == Kind[TypeOf[v]]
     IN  /\ TooDeep(d) \/ k # "basic"
         /\ Proceed(p, "value", CASE TooDeep(d) -> <<>>
                                  [] k = "struct" -> FieldValues(v, d, ro)
                                  [] k = "elem" -> PointeeValues(v, d, ro)
                                  [] OTHER -> <<>>)
  /\ UNCHANGED <<checked, errorCount, complaints, handed, panicked>>

\* checkDefault1 on a basic value: value.Interface() panics on a read-only one.  A
\* non-default value is counted under mu; the first error of all, if it is one, is
\* also warned about.
CheckDefaultBasic(p) ==
  /\ Proceed(p, "value", <<>>)
  /\ LET v == Head(todo[p]).value
         ro == Head(todo[p]).ro
     IN  /\ Kind[TypeOf[v]] = "basic" /\ ~TooDeep(Head(todo[p]).depth)
         /\ panicked' = ro
         /\ errorCount' = IF ~ro /\ v \in NonDefault THEN errorCount + 1 ELSE errorCount
  /\ UNCHANGED <<checked, complaints, handed>>

CheckStep(p) ==
  /\ ~panicked
  /\ \/ CheckType(p) \/ CheckField(p) \/ CountError(p)
     \/ CheckDefaultDown(p) \/ CheckDefaultBasic(p)

GobNext == ~panicked /\ \E p \in Procs : Encode(p) \/ Register(p) \/ Decode(p) \/ CheckStep(p)

\* A goroutine inside a call keeps running.
GobFairness == \A p \in Procs : WF_gobVars(CheckStep(p))

GobSpec == GobInit /\ [][GobNext]_gobVars /\ GobFairness

-----------------------------------------------------------------------------
MadeOf(t) ==
  CASE Kind[t] = "struct" -> {Fields[t][i].type : i \in DOMAIN Fields[t]}
    [] Kind[t] = "elem" -> {Elem[t]}
    [] Kind[t] = "map" -> {Elem[t], Key[t]}
    [] OTHER -> {}

\* Where the goroutines' lists hold an item.
Pending(item) ==
  UNION {{<<p, k>> : k \in {j \in DOMAIN todo[p] : todo[p][j] = item}} : p \in Procs}

\* "only complain once" (labgob.go:76): each lower-case field of a type that has
\* been looked at is complained about exactly once, by one goroutine, however
\* many check the type at the same time and however the types refer to each
\* other; one that has not been looked at is not.
ComplainedOnce ==
  \A t \in Types : \A i \in DOMAIN Fields[t] :
    Kind[t] = "struct" /\ ~Fields[t][i].upper =>
      Cardinality({k \in DOMAIN complaints : complaints[k] = FieldItem(t, i)})
        + Cardinality(Pending(FieldItem(t, i))) = IF t \in checked THEN 1 ELSE 0

\* Marking a type before its parts are looked at ends the recursion and skips
\* nothing: what a checked type is made of is checked, or still on the list of a
\* goroutine, by itself or as a field (labgob.go:80-85).
NothingSkipped ==
  \A t \in checked : \A u \in MadeOf(t) :
    \/ u \in checked \/ Pending(TypeItem(u)) # {}
    \/ \E i \in DOMAIN Fields[t] : Fields[t][i].type = u /\ Pending(FieldItem(t, i)) # {}

\* The lower-case fields of the structs that have been looked at.
LowerFields ==
  UNION {{FieldItem(t, i) : i \in {k \in DOMAIN Fields[t] : ~Fields[t][k].upper}} :
           t \in {u \in checked : Kind[u] = "struct"}}

AllReturned == ~panicked /\ \A p \in Procs : todo[p] = <<>>

\* Tests read errorCount before and after calls (test_test.go:120-134, 147-169).
\* When all calls have returned it is the number of lower-case fields among the
\* types seen, and of non-default values three levels deep in what was decoded
\* into, however the goroutines took turns and although a field's complaint and
\* its count are two steps (labgob.go:94-98, 133-173).
ErrorsCounted == AllReturned => errorCount = Cardinality(LowerFields) + handed

\* No complaint goes uncounted: when all calls have returned, there are at least
\* as many errors as lower-case fields (labgob.go:94-98).
ComplaintsCounted == AllReturned => Cardinality(LowerFields) <= errorCount

\* Every check ends, recursive types and pointers included.
ChecksEnd == \A p \in Procs : (todo[p] # <<>>) ~> (todo[p] = <<>> \/ panicked)
=============================================================================
