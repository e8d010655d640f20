--------------------------- MODULE ConfigStoreProofs ---------------------------
(***************************************************************************)
(* Proofs about ConfigStore, for any processes, commands and documents.    *)
(***************************************************************************)
EXTENDS ConfigStore, SequenceTheorems, TLAPS

-----------------------------------------------------------------------------
(* Facts about documents. *)

LEMMA CommandFacts ==
  ASSUME NEW c \in Commands
  PROVE  /\ c.op \in Ops
         /\ c.key \in Keys
         /\ c.op = "Set" => c.value \in Scalars /\ Len(c.levels) = 1
         /\ c.levels \in Seq(Levels) /\ c.levels # <<>>
         /\ Len(c.levels) \in 1..2
         /\ DOMAIN c.levels = 1..Len(c.levels)
         /\ 1 \in DOMAIN c.levels /\ c.levels[1] \in Levels
         /\ \A i \in DOMAIN c.levels : i = 1 \/ i = 2
<1>1. c \in AllCommands
  BY StoreAssumption
<1>2. /\ c.op \in Ops /\ c.key \in Keys
      /\ c.levels \in {<<"Personal", "Team">>, <<"Team", "Personal">>,
                       <<"Team">>, <<"Personal">>}
  BY <1>1 DEF AllCommands
<1>3. c.op = "Set" => c.value \in Strings /\ Len(c.levels) = 1
  BY StoreAssumption
<1>4. /\ c.levels \in Seq(Levels) /\ c.levels # <<>>
      /\ Len(c.levels) \in 1..2
      /\ DOMAIN c.levels = 1..Len(c.levels)
      /\ c.levels[1] \in Levels
      /\ \A i \in DOMAIN c.levels : i = 1 \/ i = 2
  <2>1. \A a, b \in Levels : /\ <<a, b>> \in Seq(Levels) /\ Len(<<a, b>>) = 2
                            /\ DOMAIN <<a, b>> = 1..2 /\ <<a, b>>[1] = a
                            /\ <<a, b>> # <<>>
    OBVIOUS
  <2>2. \A a \in Levels : /\ <<a>> \in Seq(Levels) /\ Len(<<a>>) = 1
                         /\ DOMAIN <<a>> = 1..1 /\ <<a>>[1] = a
                         /\ <<a>> # <<>>
    OBVIOUS
  <2>3. \/ \E a, b \in Levels : c.levels = <<a, b>>
        \/ \E a \in Levels : c.levels = <<a>>
    BY <1>2 DEF Levels
  <2>4. CASE \E a, b \in Levels : c.levels = <<a, b>>
    BY <2>1, <2>4
  <2>5. CASE \E a \in Levels : c.levels = <<a>>
    BY <2>2, <2>5
  <2> QED
    BY <2>3, <2>4, <2>5
<1> QED
  BY <1>2, <1>3, <1>4, DocumentAssumption

LEMMA ReadingFacts ==
  ASSUME NEW s \in Seq(Levels)
  PROVE  /\ Len(s) \in Nat /\ DOMAIN s = 1..Len(s)
         /\ s # <<>> <=> Len(s) # 0
         /\ s # <<>> => /\ Len(s) >= 1
                        /\ Head(s) = s[1] /\ Head(s) \in Levels
                        /\ Tail(s) \in Seq(Levels) /\ Len(Tail(s)) = Len(s) - 1
                        /\ DOMAIN Tail(s) = 1..(Len(s) - 1)
                        /\ \A i \in 1..(Len(s) - 1) : Tail(s)[i] = s[i + 1]
<1>1. Len(s) \in Nat /\ DOMAIN s = 1..Len(s)
  BY LenProperties
<1>2. s # <<>> <=> Len(s) # 0
  BY EmptySeq
<1>5. s # <<>> => Len(s) >= 1
  <2> DEFINE n == Len(s)
  <2>1. s # <<>> => n \in Nat \ {0}
    BY EmptySeq
  <2> HIDE DEF n
  <2>2. s # <<>> => n >= 1
    BY <2>1
  <2> QED
    BY <2>2 DEF n
<1>3. ASSUME s # <<>>
      PROVE  /\ Head(s) = s[1] /\ Head(s) \in Levels
             /\ Tail(s) \in Seq(Levels) /\ Len(Tail(s)) = Len(s) - 1
             /\ \A i \in 1..Len(Tail(s)) : Tail(s)[i] = s[i + 1]
  BY <1>3, HeadTailProperties
<1>4. s # <<>> => DOMAIN Tail(s) = 1..Len(Tail(s))
  BY <1>3, LenProperties
<1> QED
  BY <1>1, <1>2, <1>3, <1>4, <1>5

LEMMA ScalarFacts ==
  /\ "Absent" \notin Scalars /\ "Section" \notin Scalars /\ "List" \notin Scalars
  /\ \A v \in Scalars : Typed[v] \in Scalars
  BY DocumentAssumption

LEMMA EmptyTreeType == EmptyTree \in Trees
  BY DEF EmptyTree, Trees, Shapes

LEMMA TreeOfType ==
  ASSUME NEW c \in Files
  PROVE  TreeOf(c) \in Trees
<1>1. CASE c = NoFile
  BY <1>1, EmptyTreeType DEF TreeOf
<1>2. CASE c # NoFile
  <2>1. c.tree \in Trees
    BY <1>2 DEF Files, Contents
  <2>2. \A k \in Keys : c.tree[k] \in Shapes
    BY <2>1 DEF Trees
  <2>3. TreeOf(c) = [k \in Keys |-> IF c.tree[k] \in Scalars THEN Typed[c.tree[k]]
                                    ELSE c.tree[k]]
    BY <1>2 DEF TreeOf
  <2>4. TreeOf(c) \in [Keys -> Shapes]
    BY <2>2, <2>3, ScalarFacts DEF Shapes
  <2>5. ASSUME NEW k \in Keys, NEW j \in Keys, <<k, j>> \in Above,
               TreeOf(c)[j] # "Absent"
        PROVE  TreeOf(c)[k] = "Section"
    <3>1. c.tree[j] # "Absent"
      BY <2>3, <2>5, ScalarFacts
    <3>2. c.tree[k] = "Section"
      BY <2>1, <2>5, <3>1 DEF Trees
    <3> QED
      BY <2>3, <3>2, ScalarFacts
  <2> QED
    BY <2>4, <2>5 DEF Trees
<1> QED
  BY <1>1, <1>2

(* set writes a tree: what insert makes of one, when it does not refuse the *)
(* key, has a section on the way to everything that is in it; get finds the *)
(* new value in it, and at every key that is not above the new one what was *)
(* there.                                                                   *)
THEOREM InsertIsSound ==
  ASSUME NEW t \in Trees, NEW key \in Keys, NEW value \in Scalars,
         ~Conflict(t, key)
  PROVE  /\ Insert(t, key, value) \in Trees
         /\ Resolve(Insert(t, key, value), key) = value
         /\ \A k \in Keys \ {key} :
               Resolve(Insert(t, key, value), k) = Resolve(t, k)
<1> DEFINE n == Insert(t, key, value)
<1>1. t \in [Keys -> Shapes]
  BY DEF Trees
<1>2. /\ n[key] = value
      /\ \A k \in Keys \ {key} :
            n[k] = IF <<k, key>> \in Above THEN "Section" ELSE t[k]
  BY DEF Insert
<1>3. n \in [Keys -> Shapes]
  BY <1>1 DEF Insert, Shapes
<1>4. ASSUME NEW k \in Keys, NEW j \in Keys, <<k, j>> \in Above, n[j] # "Absent"
      PROVE  n[k] = "Section"
  <2>1. CASE j = key
    <3>1. k # key
      BY <1>4, <2>1, DocumentAssumption
    <3> QED
      BY <1>2, <1>4, <2>1, <3>1
  <2>2. CASE j # key /\ <<j, key>> \in Above
    <3>1. <<k, key>> \in Above /\ k # key
      BY <1>4, <2>2, DocumentAssumption
    <3> QED
      BY <1>2, <3>1
  <2>3. CASE j # key /\ <<j, key>> \notin Above
    <3>1. t[k] = "Section"
      BY <1>2, <1>4, <2>3 DEF Trees
    <3>2. k # key
      BY <3>1 DEF Conflict
    <3> QED
      BY <1>2, <3>1, <3>2
  <2> QED
    BY <2>1, <2>2, <2>3
<1>5. n \in Trees
  BY <1>3, <1>4 DEF Trees
<1>6. Resolve(n, key) = value
  BY <1>2 DEF Resolve
<1>7. ASSUME NEW k \in Keys \ {key}
      PROVE  Resolve(n, k) = Resolve(t, k)
  <2>1. CASE <<k, key>> \in Above
    <3>1. t[k] \notin Scalars
      BY <2>1 DEF Conflict
    <3> QED
      BY <1>2, <2>1, <3>1, ScalarFacts DEF Resolve
  <2>2. CASE <<k, key>> \notin Above
    BY <1>2, <2>2 DEF Resolve
  <2> QED
    BY <2>1, <2>2
<1> QED
  BY <1>5, <1>6, <1>7

LEMMA RenderedType ==
  ASSUME NEW t \in Trees, NEW c \in Files
  PROVE  /\ Rendered(t, c) \in Contents
         /\ Torn(Rendered(t, c)) \in Contents
<1>1. BodyOf(c) \in Bodies
  BY DocumentAssumption DEF BodyOf, Files, Contents
<1>2. Rendered(t, c) \in Contents
  BY <1>1 DEF Rendered, Contents, Kinds
<1>3. Torn(Rendered(t, c)) =
         [kind |-> "Unterminated", tree |-> EmptyTree, body |-> BodyOf(c),
          escapes |-> FALSE]
  BY DEF Torn, Rendered
<1>4. Torn(Rendered(t, c)) \in Contents
  BY <1>1, <1>3, EmptyTreeType DEF Contents, Kinds
<1> QED
  BY <1>2, <1>4

LEMMA PlainType ==
  ASSUME NEW status \in ConfigErrors \cup {"None", "Ok", "Crashed"}
  PROVE  Plain(status) \in Replies
  BY DEF Plain, Replies

LEMMA AnswerType ==
  ASSUME NEW c \in Commands, NEW seen \in [Levels -> Files]
  PROVE  Answer(c, seen) \in Replies
<1>1. /\ DOMAIN c.levels = 1..Len(c.levels) /\ Len(c.levels) \in Nat
      /\ \A i \in DOMAIN c.levels : seen[c.levels[i]] \in Files
  BY CommandFacts
<1>2. Lookup(c, seen) \in Replies
  <2> DEFINE values == [i \in DOMAIN c.levels |->
                           Resolve(TreeOf(seen[c.levels[i]]), c.key)]
             found  == {i \in DOMAIN values : values[i] # "Absent"}
  <2>1. \A i \in DOMAIN values : values[i] \in Scalars \cup {"Absent"}
    BY DEF Resolve
  <2>4. Lookup(c, seen) = FirstFound(values)
    BY DEF Lookup
  <2>5. \A i \in DOMAIN values : i = 1 \/ i = 2
    BY CommandFacts
  <2> HIDE DEF values
  <2>2. CASE found = {}
    BY <2>2, <2>4, PlainType DEF FirstFound, ConfigErrors
  <2>3. CASE found # {}
    <3> DEFINE first == CHOOSE i \in found : \A j \in found : i <= j
    <3>5. \A i \in found : i = 1 \/ i = 2
      BY <2>5
    <3> HIDE DEF found
    <3>1. \E i \in found : \A j \in found : i <= j
      <4>1. CASE 1 \in found
        BY <3>5, <4>1
      <4>2. CASE 1 \notin found
        BY <2>3, <3>5, <4>2
      <4> QED
        BY <4>1, <4>2
    <3>2. first \in found
      BY <3>1
    <3>3. values[first] \in Scalars \cup {"Absent"}
      BY <2>1, <3>2 DEF found
    <3>4. FirstFound(values) = [status |-> "Ok", shown |-> <<>>, value |-> values[first]]
      BY <2>3 DEF FirstFound, found
    <3> HIDE DEF first
    <3> QED
      BY <2>4, <3>3, <3>4 DEF Replies
  <2> QED
    BY <2>2, <2>3
<1>3. Assembly(c, seen) \in Replies
  <2> DEFINE V == [above : Kinds \cup {"Nothing"}, body : Bodies]
             s == [i \in DOMAIN c.levels |-> Visible(seen[c.levels[i]])]
  <2>1. ASSUME NEW f \in Files
        PROVE  Visible(f) \in V
    BY DocumentAssumption DEF Visible, BodyOf, Files, Contents
  <2>2. s \in [1..Len(c.levels) -> V]
    BY <1>1, <2>1
  <2>3. s \in Seq(V)
    BY <1>1, <2>2
  <2>4. Assembly(c, seen) = [status |-> "Ok", value |-> "Absent", shown |-> s]
    BY DEF Assembly
  <2> HIDE DEF s
  <2> QED
    BY <2>3, <2>4 DEF Replies
<1> QED
  BY <1>2, <1>3 DEF Answer

-----------------------------------------------------------------------------
(* Types. *)

LEMMA CommandOf ==
  ASSUME TypeOK, NEW p \in Procs
  PROVE  /\ command[p] \in Commands
         /\ Level(p) \in Levels
         /\ \A i \in DOMAIN command[p].levels : command[p].levels[i] \in Levels
<1>1. command[p] \in Commands
  BY DEF TypeOK
<1>2. /\ command[p].levels \in Seq(Levels)
      /\ command[p].levels[1] \in Levels
  BY <1>1, CommandFacts
<1> QED
  BY <1>1, <1>2 DEF Level

LEMMA EndType ==
  ASSUME TypeOK, NEW p \in Procs, NEW answer \in Replies, End(p, answer)
  PROVE  /\ pc' \in [Procs -> Labels]
         /\ reply' \in [Procs -> Replies]
         /\ todo' \in [Procs -> Seq(Levels)]
         /\ got' \in [Procs -> [Levels -> Files]]
         /\ draft' \in [Procs -> Trees]
         /\ page' \in [Procs -> Files]
<1>1. Nothing \in [Levels -> Files] /\ NoFile \in Files
  BY DEF Nothing, Files
<1>2. <<>> \in Seq(Levels)
  OBVIOUS
<1>3. pc' \in [Procs -> Labels] /\ reply' \in [Procs -> Replies]
  BY DEF TypeOK, End, Goto, Labels
<1>4. todo' \in [Procs -> Seq(Levels)] /\ got' \in [Procs -> [Levels -> Files]]
  BY <1>1, <1>2 DEF TypeOK, End
<1>5. draft' \in [Procs -> Trees] /\ page' \in [Procs -> Files]
  BY <1>1, EmptyTreeType DEF TypeOK, End
<1> QED
  BY <1>3, <1>4, <1>5

(* A command that leaves. *)
LEMMA LeaveType ==
  ASSUME TypeOK, NEW p \in Procs, NEW answer \in Replies, Leave(p, answer),
         tmp' \in [Procs -> Files]
  PROVE  TypeOK'
<1>1. window' \in [Procs -> [Levels -> SUBSET Files]]
  BY DEF TypeOK, Leave, NoWindow
<1>2. End(p, answer) /\ UNCHANGED <<file, command, edits, overlapped>>
  BY DEF Leave
<1> QED
  BY <1>1, <1>2, EndType DEF TypeOK

(* A set that goes on. *)
LEMMA AdvanceType ==
  ASSUME TypeOK, NEW p \in Procs, NEW label \in Labels, Goto(p, label),
         UNCHANGED <<file, command, todo, got, draft, reply, edits, window, overlapped>>,
         tmp' \in [Procs -> Files], page' \in [Procs -> Files]
  PROVE  TypeOK'
  BY DEF TypeOK, Goto

LEMMA PutType ==
  ASSUME TypeOK, NEW level \in Levels, NEW content \in Files, Put(level, content)
  PROVE  /\ file' \in [Levels -> Files]
         /\ window' \in [Procs -> [Levels -> SUBSET Files]]
  BY DEF TypeOK, Put, NoWindow

LEMMA PageType ==
  ASSUME TypeOK, StoreInv, NEW p \in Procs, Writing(p)
  PROVE  page[p] \in Contents /\ Torn(page[p]) \in Contents
<1>1. PICK second \in window[p][Level(p)] : page[p] = Rendered(draft[p], second)
  BY DEF StoreInv, PageIsWhole
<1>2. second \in Files /\ draft[p] \in Trees
  BY CommandOf DEF TypeOK
<1> QED
  BY <1>1, <1>2, RenderedType

LEMMA InitType == Init => TypeOK
<1> SUFFICES ASSUME Init PROVE TypeOK
  OBVIOUS
<1>1. NoFile \in Files /\ <<>> \in Seq(Levels) /\ Plain("None") \in Replies
  BY PlainType DEF Files
<1>2. Nothing \in [Levels -> Files] /\ NoWindow \in [Levels -> SUBSET Files]
  BY <1>1 DEF Nothing, NoWindow
<1>3. file \in [Levels -> Files] /\ 0 \in 0..MaxEdits
  BY StoreAssumption DEF Init
<1> QED
  BY <1>1, <1>2, <1>3, EmptyTreeType DEF Init, TypeOK, Labels

LEMMA StepType ==
  ASSUME TypeOK, StoreInv, [Next]_vars
  PROVE  TypeOK'
<1>1. \A s \in ConfigErrors \cup {"None", "Ok", "Crashed"} : Plain(s) \in Replies
  BY PlainType
<1>2. \A s \in {"UnsafePath", "Io", "Malformed", "PathConflict", "Crashed", "Ok"} :
         Plain(s) \in Replies
  BY <1>1 DEF ConfigErrors
<1>3. \A p \in Procs : /\ command[p] \in Commands /\ Level(p) \in Levels
                       /\ file[Level(p)] \in Files /\ got[p] \in [Levels -> Files]
  BY CommandOf DEF TypeOK
<1>4. ASSUME NEW p \in Procs, NEW answer \in Replies, Leave(p, answer), UNCHANGED tmp
      PROVE  TypeOK'
  BY <1>4, LeaveType DEF TypeOK
<1>5. ASSUME NEW p \in Procs, Begin(p)
      PROVE  TypeOK'
  <2>1. command[p].levels \in Seq(Levels)
    BY <1>3, CommandFacts
  <2> QED
    BY <1>5, <2>1 DEF TypeOK, Begin, Goto, Labels
<1>6. ASSUME NEW p \in Procs, CheckPath(p)
      PROVE  TypeOK'
  <2>1. CASE \E s \in {"UnsafePath", "Io"} : Leave(p, Plain(s))
    BY <1>2, <1>4, <1>6, <2>1 DEF CheckPath
  <2>2. CASE ~\E s \in {"UnsafePath", "Io"} : Leave(p, Plain(s))
    BY <1>6, <2>2 DEF TypeOK, CheckPath, Goto, Labels, memory
  <2> QED
    BY <2>1, <2>2
<1>7. ASSUME NEW p \in Procs, Read(p)
      PROVE  TypeOK'
  <2>1. CASE \E s \in {"Malformed", "Io"} : Leave(p, Plain(s))
    BY <1>2, <1>4, <1>7, <2>1 DEF Read
  <2>2. CASE ~\E s \in {"Malformed", "Io"} : Leave(p, Plain(s))
    <3>1. Phase(pc[p]) = "Running" /\ todo[p] # <<>> /\ todo[p] \in Seq(Levels)
      BY <1>7 DEF TypeOK, StoreInv, ReadsAreCurrent, Read, Phase
    <3>2. Head(todo[p]) \in Levels /\ Tail(todo[p]) \in Seq(Levels)
      BY <3>1
    <3>3. file[Head(todo[p])] \in Files
      BY <3>2 DEF TypeOK
    <3>4. /\ got' = [got EXCEPT ![p][Head(todo[p])] = file[Head(todo[p])]]
          /\ todo' = [todo EXCEPT ![p] = Tail(@)]
          /\ Goto(p, IF Len(todo[p]) = 1 THEN "Decide" ELSE "Check")
          /\ UNCHANGED <<file, tmp, command, draft, page, reply, edits, window,
                         overlapped>>
      BY <1>7, <2>2 DEF Read
    <3>5. got' \in [Procs -> [Levels -> Files]]
      BY <3>3, <3>4 DEF TypeOK
    <3>6. todo' \in [Procs -> Seq(Levels)]
      BY <3>2, <3>4 DEF TypeOK
    <3>7. pc' \in [Procs -> Labels]
      BY <3>4 DEF TypeOK, Goto, Labels
    <3> QED
      BY <3>4, <3>5, <3>6, <3>7 DEF TypeOK
  <2> QED
    BY <2>1, <2>2
<1>8. ASSUME NEW p \in Procs, Return(p)
      PROVE  TypeOK'
  BY <1>3, <1>4, <1>8, AnswerType DEF Return
<1>9. ASSUME NEW p \in Procs, Modify(p)
      PROVE  TypeOK'
  <2>1. CASE Leave(p, Plain("PathConflict"))
    BY <1>2, <1>4, <1>9, <2>1 DEF Modify
  <2>2. CASE ~Leave(p, Plain("PathConflict"))
    <3> DEFINE tree == TreeOf(got[p][Level(p)])
    <3>1. tree \in Trees
      BY <1>3, TreeOfType
    <3>2. /\ command[p].op = "Set"
          /\ ~Conflict(tree, command[p].key)
          /\ draft' = [draft EXCEPT ![p] =
                          Insert(tree, command[p].key, command[p].value)]
          /\ Goto(p, "CheckAgain")
          /\ UNCHANGED <<file, tmp, command, todo, got, page, reply, edits, window,
                         overlapped>>
      BY <1>9, <2>2 DEF Modify
    <3>3. command[p].key \in Keys /\ command[p].value \in Scalars
      BY <1>3, <3>2, CommandFacts
    <3> HIDE DEF tree
    <3>4. Insert(tree, command[p].key, command[p].value) \in Trees
      BY <3>1, <3>2, <3>3, InsertIsSound
    <3> QED
      BY <3>2, <3>4 DEF TypeOK, Goto, Labels
  <2> QED
    BY <2>1, <2>2
<1>10. ASSUME NEW p \in Procs, CheckAgain(p)
       PROVE  TypeOK'
  <2>1. CASE \E s \in {"UnsafePath", "Io"} : Leave(p, Plain(s))
    BY <1>2, <1>4, <1>10, <2>1 DEF CheckAgain
  <2>2. CASE ~\E s \in {"UnsafePath", "Io"} : Leave(p, Plain(s))
    BY <1>10, <2>2 DEF TypeOK, CheckAgain, Goto, Labels, memory
  <2> QED
    BY <2>1, <2>2
<1>11. ASSUME NEW p \in Procs, ReadAgain(p)
       PROVE  TypeOK'
  <2>1. CASE \E s \in {"Malformed", "Io"} : Leave(p, Plain(s))
    BY <1>2, <1>4, <1>11, <2>1 DEF ReadAgain
  <2>2. CASE ~\E s \in {"Malformed", "Io"} : Leave(p, Plain(s))
    <3>1. Rendered(draft[p], file[Level(p)]) \in Files
      BY <1>3, RenderedType DEF TypeOK, Files
    <3>2. /\ Goto(p, "CreateTemp")
          /\ page' = [page EXCEPT ![p] = Rendered(draft[p], file[Level(p)])]
          /\ UNCHANGED <<file, tmp, command, todo, got, draft, reply, edits, window,
                         overlapped>>
      BY <1>11, <2>2 DEF ReadAgain
    <3>3. tmp' \in [Procs -> Files] /\ page' \in [Procs -> Files]
      BY <3>1, <3>2 DEF TypeOK
    <3> QED
      BY <3>2, <3>3, AdvanceType DEF Labels
  <2> QED
    BY <2>1, <2>2
<1>12. ASSUME NEW p \in Procs, CreateTemp(p)
       PROVE  TypeOK'
  <2>1. CASE Leave(p, Plain("Io")) /\ UNCHANGED tmp
    BY <1>2, <1>4, <2>1
  <2>2. CASE ~(Leave(p, Plain("Io")) /\ UNCHANGED tmp)
    <3>1. Torn(page[p]) \in Files
      BY <1>12, PageType DEF CreateTemp, Writing, Files
    <3>2. Goto(p, "WriteTemp") /\ tmp' = [tmp EXCEPT ![p] = Torn(page[p])]
      BY <1>12, <2>2 DEF CreateTemp
    <3>3. UNCHANGED <<file, command, todo, got, draft, page, reply, edits, window,
                      overlapped>>
      BY <1>12, <2>2 DEF CreateTemp, memory
    <3>4. tmp' \in [Procs -> Files] /\ page' \in [Procs -> Files]
      BY <3>1, <3>2, <3>3 DEF TypeOK
    <3> QED
      BY <3>2, <3>3, <3>4, AdvanceType DEF Labels
  <2> QED
    BY <2>1, <2>2
<1>13. ASSUME NEW p \in Procs, WriteTemp(p)
       PROVE  TypeOK'
  <2>1. CASE Leave(p, Plain("Io")) /\ tmp' = [tmp EXCEPT ![p] = NoFile]
    <3>1. tmp' \in [Procs -> Files]
      BY <2>1 DEF TypeOK, Files
    <3> QED
      BY <1>2, <2>1, <3>1, LeaveType
  <2>2. CASE ~(Leave(p, Plain("Io")) /\ tmp' = [tmp EXCEPT ![p] = NoFile])
    <3>1. Goto(p, "Rename") /\ tmp' = [tmp EXCEPT ![p] = page[p]]
      BY <1>13, <2>2 DEF WriteTemp
    <3>2. UNCHANGED <<file, command, todo, got, draft, page, reply, edits, window,
                      overlapped>>
      BY <1>13, <2>2 DEF WriteTemp, memory
    <3>3. tmp' \in [Procs -> Files] /\ page' \in [Procs -> Files]
      BY <3>1, <3>2 DEF TypeOK
    <3> QED
      BY <3>1, <3>2, <3>3, AdvanceType DEF Labels
  <2> QED
    BY <2>1, <2>2
<1>14. ASSUME NEW p \in Procs, Rename(p)
       PROVE  TypeOK'
  <2>1. tmp' \in [Procs -> Files]
    BY <1>14 DEF TypeOK, Rename, Files
  <2>2. CASE Leave(p, Plain("Io"))
    BY <1>2, <2>1, <2>2, LeaveType
  <2>3. CASE /\ End(p, Plain("Ok")) /\ Put(Level(p), tmp[p])
             /\ UNCHANGED <<command, edits, overlapped>>
    <3>1. tmp[p] \in Files
      BY DEF TypeOK
    <3>2. /\ file' \in [Levels -> Files]
          /\ window' \in [Procs -> [Levels -> SUBSET Files]]
      BY <1>3, <2>3, <3>1, PutType
    <3> QED
      BY <1>2, <2>1, <2>3, <3>2, EndType DEF TypeOK
  <2> QED
    BY <1>14, <2>2, <2>3 DEF Rename
<1>15. ASSUME NEW p \in Procs, Crash(p)
       PROVE  TypeOK'
  BY <1>2, <1>4, <1>15 DEF Crash
<1>16. ASSUME NEW level \in Levels, Edit(level)
       PROVE  TypeOK'
  <2>1. PICK content \in Drafts \cup {NoFile} : Put(level, content)
    BY <1>16 DEF Edit
  <2>2. content \in Files
    BY StoreAssumption DEF Files
  <2>3. /\ file' \in [Levels -> Files]
        /\ window' \in [Procs -> [Levels -> SUBSET Files]]
    BY <2>1, <2>2, PutType
  <2>4. edits' \in 0..MaxEdits /\ overlapped' \subseteq Levels
    BY <1>16, StoreAssumption DEF TypeOK, Edit
  <2> QED
    BY <1>16, <2>3, <2>4 DEF TypeOK, Edit, memory
<1>17. CASE UNCHANGED vars
  BY <1>17 DEF TypeOK, vars, memory
<1> QED
  BY <1>5, <1>6, <1>7, <1>8, <1>9, <1>10, <1>11, <1>12, <1>13, <1>14, <1>15,
     <1>16, <1>17 DEF Next, Step

-----------------------------------------------------------------------------
(* The invariant. *)

(* What a step leaves alone of a process it does not take. *)
Untouched(q) ==
    /\ pc'[q] = pc[q] /\ command'[q] = command[q] /\ tmp'[q] = tmp[q]
    /\ todo'[q] = todo[q] /\ got'[q] = got[q]
    /\ draft'[q] = draft[q] /\ page'[q] = page[q]

(* Every running process sees the documents that are put in place. *)
Sees(q) ==
    \A level \in Levels :
        file'[level] \in window'[q][level] /\ window[q][level] \subseteq window'[q][level]

ReaderInv(q) == ReadsAreCurrent(q) /\ DraftIsASet(q) /\ PageIsWhole(q)

LEMMA ContainedStays ==
  ASSUME NEW q \in Procs, NEW level \in Levels, Contained(q, level), Sees(q)
  PROVE  Contained(q, level)'
BY DEF Contained, Sees

(* What a command is about to read was checked. *)
LEMMA ReadingHead ==
  ASSUME TypeOK, NEW q \in Procs, ReadsAreCurrent(q), pc[q] = "Read"
  PROVE  Head(todo[q]) \in Levels /\ Contained(q, Head(todo[q]))
<1>1. todo[q] # <<>> /\ Contained(q, Head(todo[q]))
  BY DEF ReadsAreCurrent, Phase
<1>2. todo[q] \in Seq(Levels)
  BY DEF TypeOK
<1> QED
  BY <1>1, <1>2, ReadingFacts

LEMMA UntouchedInv ==
  ASSUME TypeOK, NEW q \in Procs, ReaderInv(q), Untouched(q),
         Phase(pc[q]) = "Running" => Sees(q)
  PROVE  ReaderInv(q)'
<1>1. Level(q) \in Levels /\ Level(q)' = Level(q)
  BY CommandOf DEF Untouched, Level
<1>2. \A i \in DOMAIN command[q].levels : command[q].levels[i] \in Levels
  BY CommandOf
<1>3. command[q] \in Commands
  BY CommandOf
<1>4. ReadsAreCurrent(q)'
  <2> SUFFICES ASSUME Phase(pc[q]) = "Running"
               PROVE  ReadsAreCurrent(q)'
    BY DEF ReadsAreCurrent, Untouched
  <2> DEFINE levels == command[q].levels
             done   == Len(levels) - Len(todo[q])
  <2>1. \A i \in 1..done : i \in DOMAIN levels
    BY <1>3, CommandFacts DEF TypeOK
  <2>2. \A i \in 1..done : HasRead(q, levels[i]) /\ levels[i] \in Levels
    BY <1>2, <2>1 DEF ReaderInv, ReadsAreCurrent
  <2>3. \A i \in 1..done : HasRead(q, levels[i])'
    BY <2>2, ContainedStays DEF HasRead, Untouched, Sees
  <2>4. \A level \in Levels : file'[level] \in window'[q][level]
    BY DEF Sees
  <2>5. done' = done /\ levels' = levels
    BY DEF Untouched
  <2>6. pc'[q] = "Read" => Contained(q, Head(todo[q]))'
    <3> SUFFICES ASSUME pc[q] = "Read"
                 PROVE  Contained(q, Head(todo[q]))'
      BY DEF Untouched
    <3>1. Head(todo[q]) \in Levels /\ Contained(q, Head(todo[q]))
      BY ReadingHead DEF ReaderInv
    <3> QED
      BY <3>1 DEF Contained, Untouched, Sees
  <2> HIDE DEF levels, done
  <2> QED
    BY <2>3, <2>4, <2>5, <2>6 DEF ReaderInv, ReadsAreCurrent, Untouched, levels, done
<1>5. DraftIsASet(q)'
  BY <1>1 DEF ReaderInv, DraftIsASet, Untouched, Writing
<1>6. PageIsWhole(q)'
  <2>1. Writing(q) => Phase(pc[q]) = "Running"
    BY DEF Writing, Phase
  <2> QED
    BY <1>1, <2>1 DEF ReaderInv, PageIsWhole, Untouched, Writing, Sees
<1> QED
  BY <1>4, <1>5, <1>6 DEF ReaderInv

(* A command that leaves has nothing to lose. *)
LEMMA LeaveInv ==
  ASSUME TypeOK, StoreInv, NEW p \in Procs, NEW answer, Leave(p, answer),
         \A q \in Procs \ {p} : tmp'[q] = tmp[q]
  PROVE  StoreInv'
<1>1. Phase(pc[p])' # "Running"
  BY DEF Leave, End, Goto, TypeOK, Phase
<1>2. ReaderInv(p)' /\ BodyIsCurrent(p)'
  BY <1>1 DEF Phase, ReaderInv, ReadsAreCurrent, DraftIsASet, PageIsWhole,
              BodyIsCurrent, Writing
<1>3. ASSUME NEW q \in Procs \ {p}
      PROVE  ReaderInv(q)' /\ BodyIsCurrent(q)'
  <2>1. Untouched(q) /\ window'[q] = window[q] /\ UNCHANGED <<file, overlapped>>
    BY DEF Leave, End, Goto, TypeOK, Untouched
  <2>2. Phase(pc[q]) = "Running" => Sees(q)
    BY <2>1 DEF StoreInv, ReadsAreCurrent, Sees
  <2>3. ReaderInv(q)'
    BY <2>1, <2>2, UntouchedInv DEF StoreInv, ReaderInv
  <2>4. BodyIsCurrent(q)'
    BY <2>1 DEF StoreInv, BodyIsCurrent, Writing, Level, Untouched
  <2> QED
    BY <2>3, <2>4
<1> QED
  BY <1>2, <1>3 DEF StoreInv, ReaderInv

(* A step of p that changes no document and does not leave. *)
LEMMA LocalInv ==
  ASSUME TypeOK, StoreInv, NEW p \in Procs,
         UNCHANGED <<file, command, overlapped>>,
         \A q \in Procs \ {p} : Untouched(q) /\ window'[q] = window[q],
         ReaderInv(p)', BodyIsCurrent(p)'
  PROVE  StoreInv'
<1>1. ASSUME NEW q \in Procs \ {p}
      PROVE  ReaderInv(q)' /\ BodyIsCurrent(q)'
  <2>1. Untouched(q) /\ window'[q] = window[q]
    OBVIOUS
  <2>2. Phase(pc[q]) = "Running" => Sees(q)
    BY <2>1 DEF StoreInv, ReadsAreCurrent, Sees
  <2>3. ReaderInv(q)'
    BY <2>1, <2>2, UntouchedInv DEF StoreInv, ReaderInv
  <2>4. BodyIsCurrent(q)'
    BY <2>1 DEF StoreInv, BodyIsCurrent, Writing, Level, Untouched
  <2> QED
    BY <2>3, <2>4
<1> QED
  BY <1>1 DEF StoreInv, ReaderInv

(* A document is put in place: only what process p does, if any, changes. *)
LEMMA PutSees ==
  ASSUME TypeOK, StoreInv, NEW q \in Procs, NEW level \in Levels, NEW content,
         Put(level, content), pc'[q] = pc[q], Phase(pc[q]) = "Running"
  PROVE  Sees(q)
<1>1. \A l \in Levels : file[l] \in window[q][l]
  BY DEF StoreInv, ReadsAreCurrent
<1>2. window'[q] = [window[q] EXCEPT ![level] = @ \cup {content}]
  BY DEF Put
<1>3. \A l \in Levels : file'[l] = IF l = level THEN content ELSE file[l]
  BY DEF Put, TypeOK
<1>4. window[q] \in [Levels -> SUBSET Files]
  BY DEF TypeOK
<1> QED
  BY <1>1, <1>2, <1>3, <1>4 DEF Sees

LEMMA InitInv == Init => StoreInv
<1> SUFFICES ASSUME Init, NEW p \in Procs PROVE ReaderInv(p) /\ BodyIsCurrent(p)
  BY DEF StoreInv, ReaderInv
<1>1. Phase(pc[p]) # "Running"
  BY DEF Init, Phase
<1> QED
  BY <1>1 DEF Phase, ReaderInv, ReadsAreCurrent, DraftIsASet, PageIsWhole,
              BodyIsCurrent, Writing

(* The steps that change no document. *)
LEMMA ReadStepsInv ==
  ASSUME TypeOK, StoreInv, NEW p \in Procs,
         Begin(p) \/ CheckPath(p) \/ Read(p) \/ Return(p)
  PROVE  StoreInv'
<1> DEFINE levels == command[p].levels
           done   == Len(levels) - Len(todo[p])
<1>1. /\ levels \in Seq(Levels) /\ Len(levels) \in 1..2
      /\ todo[p] \in Seq(Levels)
      /\ \A i \in DOMAIN levels : levels[i] \in Levels
  BY CommandOf, CommandFacts DEF TypeOK
<1>2. ASSUME Phase(pc[p]) = "Running"
      PROVE  /\ \A level \in Levels : file[level] \in window[p][level]
             /\ done \in Nat
             /\ \A i \in 1..done : HasRead(p, levels[i])
             /\ \A i \in DOMAIN todo[p] : todo[p][i] = levels[done + i]
             /\ (todo[p] # <<>>) <=> (pc[p] \in {"Check", "Read"})
             /\ pc[p] = "Read" => Contained(p, Head(todo[p]))
  BY <1>2 DEF StoreInv, ReadsAreCurrent
<1>3. ASSUME pc'[p] \in {"Check", "Read", "Decide"}
      PROVE  DraftIsASet(p)' /\ PageIsWhole(p)' /\ BodyIsCurrent(p)'
  BY <1>3 DEF DraftIsASet, PageIsWhole, BodyIsCurrent, Writing
<1>4. CASE Begin(p)
  <2>1. /\ pc'[p] = "Check" /\ todo'[p] = levels /\ command' = command
        /\ window'[p] = [l \in Levels |-> {file[l]}] /\ file' = file
    BY <1>4 DEF Begin, Goto, TypeOK
  <2>2. ReadsAreCurrent(p)'
    <3>1. command'[p].levels = levels /\ Len(command'[p].levels) - Len(todo'[p]) = 0
      BY <1>1, <2>1
    <3>2. todo'[p] # <<>>
      <4>1. levels # <<>>
        BY CommandOf, CommandFacts
      <4> QED
        BY <2>1, <4>1
    <3>3. \A level \in Levels : file'[level] \in window'[p][level]
      BY <2>1
    <3> QED
      BY <1>1, <2>1, <3>1, <3>2, <3>3 DEF ReadsAreCurrent
  <2>3. \A q \in Procs \ {p} : Untouched(q) /\ window'[q] = window[q]
    BY <1>4 DEF Begin, Goto, TypeOK, Untouched
  <2> QED
    BY <1>3, <1>4, <2>1, <2>2, <2>3, LocalInv DEF ReaderInv, Begin
<1>5. CASE CheckPath(p)
  <2>1. CASE \E s \in {"UnsafePath", "Io"} : Leave(p, Plain(s))
    BY <1>5, <2>1, LeaveInv DEF CheckPath
  <2>2. CASE ~\E s \in {"UnsafePath", "Io"} : Leave(p, Plain(s))
    <3>1. /\ pc[p] = "Check" /\ Goto(p, "Read")
          /\ ~Escapes(file[Head(todo[p])])
          /\ UNCHANGED <<file, tmp, command, memory, reply, edits, window, overlapped>>
      BY <1>5, <2>2 DEF CheckPath
    <3>2. pc'[p] = "Read" /\ Phase(pc[p]) = "Running"
      BY <3>1 DEF Goto, TypeOK, Phase
    <3>3. Head(todo[p]) \in Levels
      <4>1. todo[p] # <<>>
        BY <1>2, <3>1, <3>2
      <4> QED
        BY <1>1, <4>1, ReadingFacts
    <3>4. Contained(p, Head(todo[p]))'
      BY <1>2, <3>1, <3>2, <3>3 DEF Contained, memory
    <3>5. ReadsAreCurrent(p)'
      <4>1. \A i \in 1..done : HasRead(p, levels[i])'
        BY <1>2, <3>1, <3>2 DEF HasRead, Contained, memory
      <4>2. done' = done /\ levels' = levels
        BY <3>1 DEF memory
      <4> HIDE DEF levels, done
      <4> QED
        BY <1>2, <3>1, <3>2, <3>4, <4>1, <4>2 DEF ReadsAreCurrent, memory, levels, done
    <3>6. \A q \in Procs \ {p} : Untouched(q) /\ window'[q] = window[q]
      BY <3>1 DEF Goto, TypeOK, Untouched, memory
    <3> QED
      BY <1>3, <3>1, <3>2, <3>5, <3>6, LocalInv DEF ReaderInv
  <2> QED
    BY <2>1, <2>2
<1>6. CASE Read(p)
  <2>1. CASE \E s \in {"Malformed", "Io"} : Leave(p, Plain(s))
    BY <1>6, <2>1, LeaveInv DEF Read
  <2>2. CASE ~\E s \in {"Malformed", "Io"} : Leave(p, Plain(s))
    <3> DEFINE level == Head(todo[p])
    <3>1. /\ pc[p] = "Read"
          /\ IF command[p].op = "Context" THEN ~Unsplit(file[level])
             ELSE ~Malformed(file[level])
          /\ got' = [got EXCEPT ![p][level] = file[level]]
          /\ todo' = [todo EXCEPT ![p] = Tail(@)]
          /\ Goto(p, IF Len(todo[p]) = 1 THEN "Decide" ELSE "Check")
          /\ UNCHANGED <<file, tmp, command, draft, page, reply, edits, window,
                         overlapped>>
      BY <1>6, <2>2 DEF Read
    <3>2. Phase(pc[p]) = "Running" /\ todo[p] # <<>>
      BY <1>2, <3>1 DEF Phase
    <3>3. /\ level = todo[p][1] /\ level \in Levels
          /\ Tail(todo[p]) \in Seq(Levels)
          /\ Len(Tail(todo[p])) = Len(todo[p]) - 1
          /\ DOMAIN todo[p] = 1..Len(todo[p])
          /\ DOMAIN Tail(todo[p]) = 1..(Len(todo[p]) - 1)
          /\ \A i \in 1..(Len(todo[p]) - 1) : Tail(todo[p])[i] = todo[p][i + 1]
          /\ Len(todo[p]) \in Nat \ {0}
      BY <1>1, <3>2, ReadingFacts
    <3>4. /\ pc'[p] \in {"Decide", "Check"}
          /\ pc'[p] = "Check" <=> Len(todo[p]) # 1
          /\ todo'[p] = Tail(todo[p])
          /\ got'[p] = [got[p] EXCEPT ![level] = file[level]]
      BY <3>1 DEF Goto, TypeOK
    <3>5. ReadsAreCurrent(p)'
      <4> DEFINE after == Len(command'[p].levels) - Len(todo'[p])
      <4>1. /\ after = done + 1 /\ done \in Nat
            /\ done + Len(todo[p]) = Len(levels)
        <5>1. Len(todo'[p]) = Len(todo[p]) - 1 /\ command'[p].levels = levels
          BY <3>1, <3>3, <3>4
        <5>2. done \in Nat
          BY <1>2, <3>2
        <5>3. Len(levels) \in Nat /\ Len(todo[p]) \in Nat
          BY <1>1, <3>3
        <5> QED
          BY <5>1, <5>2, <5>3
      <4>11. \A i \in 1..Len(todo[p]) : todo[p][i] = levels[done + i]
        BY <1>2, <3>2, <3>3
      <4>12. DOMAIN levels = 1..Len(levels)
        BY <1>1, ReadingFacts
      <4> HIDE DEF done, after
      <4>2. level = levels[done + 1]
        BY <3>3, <4>11
      <4>3. ASSUME NEW l \in Levels, l = level
            PROVE  HasRead(p, l)'
        <5>1. got'[p][l] = file[l]
          BY <3>4, <4>3 DEF TypeOK
        <5>2. file[l] \in window[p][l] /\ Contained(p, l)
          BY <1>2, <3>1, <3>2, <4>3
        <5> QED
          BY <3>1, <4>3, <5>1, <5>2 DEF HasRead, Contained
      <4>4. ASSUME NEW l \in Levels, l # level, HasRead(p, l)
            PROVE  HasRead(p, l)'
        <5>1. got'[p][l] = got[p][l]
          BY <3>3, <3>4, <4>4 DEF TypeOK
        <5> QED
          BY <3>1, <4>4, <5>1 DEF HasRead, Contained
      <4>5. \A i \in 1..after : \A l \in Levels : l = levels[i] => HasRead(p, l)'
        <5> SUFFICES ASSUME NEW i \in 1..after, NEW l \in Levels, l = levels[i]
                     PROVE  HasRead(p, l)'
          OBVIOUS
        <5>1. CASE l = level
          BY <4>3, <5>1
        <5>2. CASE l # level
          <6>1. i \in 1..done
            BY <4>1, <4>2, <5>2
          <6>2. HasRead(p, l)
            BY <1>2, <3>2, <6>1 DEF done
          <6> QED
            BY <4>4, <5>2, <6>2
        <5> QED
          BY <5>1, <5>2
      <4>13. \A i \in 1..after : levels[i] \in Levels
        BY <1>1, <3>3, <4>1, <4>12
      <4>6. \A i \in DOMAIN todo'[p] : todo'[p][i] = levels[after + i]
        <5> SUFFICES ASSUME NEW i \in 1..(Len(todo[p]) - 1)
                     PROVE  todo'[p][i] = levels[after + i]
          BY <3>3, <3>4
        <5>1. todo'[p][i] = todo[p][i + 1] /\ i + 1 \in 1..Len(todo[p])
          BY <3>3, <3>4
        <5>2. after + i = done + (i + 1)
          BY <3>3, <4>1
        <5> QED
          BY <4>11, <5>1, <5>2
      <4>7. (todo'[p] # <<>>) <=> (pc'[p] \in {"Check", "Read"})
        <5>1. (Tail(todo[p]) # <<>>) <=> (Len(todo[p]) - 1 # 0)
          BY <3>3, ReadingFacts
        <5> QED
          BY <3>3, <3>4, <5>1
      <4>8. \A l \in Levels : file'[l] \in window'[p][l]
        BY <1>2, <3>1, <3>2
      <4>9. after \in Nat
        BY <4>1
      <4>10. command'[p].levels = levels
        BY <3>1
      <4> QED
        BY <3>4, <4>5, <4>6, <4>7, <4>8, <4>9, <4>10, <4>13 DEF ReadsAreCurrent, after
    <3>6. \A q \in Procs \ {p} : Untouched(q) /\ window'[q] = window[q]
      BY <3>1 DEF Goto, TypeOK, Untouched
    <3> QED
      BY <1>3, <3>1, <3>4, <3>5, <3>6, LocalInv DEF ReaderInv
  <2> QED
    BY <2>1, <2>2
<1>7. CASE Return(p)
  BY <1>7, LeaveInv DEF Return
<1> QED
  BY <1>4, <1>5, <1>6, <1>7

LEMMA WriteStepsInv ==
  ASSUME TypeOK, StoreInv, NEW p \in Procs,
         \/ Modify(p) \/ CheckAgain(p) \/ ReadAgain(p) \/ CreateTemp(p) \/ WriteTemp(p)
  PROVE  StoreInv'
<1> DEFINE levels == command[p].levels
<1>1. Level(p) \in Levels /\ command[p] \in Commands
  BY CommandOf
<1>2. pc[p] \in {"Decide", "CheckAgain", "ReadAgain", "CreateTemp", "WriteTemp"}
  BY DEF Modify, CheckAgain, ReadAgain, CreateTemp, WriteTemp
<1>3. /\ \A level \in Levels : file[level] \in window[p][level]
      /\ Len(levels) - Len(todo[p]) \in Nat
      /\ \A i \in 1..(Len(levels) - Len(todo[p])) : HasRead(p, levels[i])
      /\ \A i \in DOMAIN todo[p] : todo[p][i] = levels[Len(levels) - Len(todo[p]) + i]
      /\ todo[p] = <<>>
  BY <1>2 DEF StoreInv, ReadsAreCurrent, Phase
<1>4. ASSUME pc'[p] \in {"CheckAgain", "ReadAgain", "CreateTemp", "WriteTemp", "Rename"},
             UNCHANGED <<file, command, todo, got, window>>
      PROVE  ReadsAreCurrent(p)'
  BY <1>3, <1>4 DEF ReadsAreCurrent, HasRead, Contained
<1>5. CASE Modify(p)
  <2>1. CASE Leave(p, Plain("PathConflict"))
    BY <1>5, <2>1, LeaveInv DEF Modify
  <2>2. CASE ~Leave(p, Plain("PathConflict"))
    <3> DEFINE tree == TreeOf(got[p][Level(p)])
    <3>1. /\ command[p].op = "Set"
          /\ ~Conflict(tree, command[p].key)
          /\ draft' = [draft EXCEPT ![p] =
                          Insert(tree, command[p].key, command[p].value)]
          /\ Goto(p, "CheckAgain")
          /\ UNCHANGED <<file, tmp, command, todo, got, page, reply, edits, window,
                         overlapped>>
      BY <1>5, <2>2 DEF Modify
    <3>2. pc'[p] = "CheckAgain"
      BY <3>1 DEF Goto, TypeOK
    <3>3. /\ DraftIsASet(p)'
          /\ PageIsWhole(p)' /\ BodyIsCurrent(p)'
      <4>1. draft'[p] = Insert(tree, command[p].key, command[p].value)
        BY <3>1 DEF TypeOK
      <4>2. Level(p)' = Level(p)
        BY <3>1 DEF Level
      <4> QED
        BY <3>1, <3>2, <4>1, <4>2 DEF DraftIsASet, PageIsWhole, BodyIsCurrent, Writing
    <3>4. \A q \in Procs \ {p} : Untouched(q) /\ window'[q] = window[q]
      BY <3>1 DEF Goto, TypeOK, Untouched
    <3> QED
      BY <1>4, <3>1, <3>2, <3>3, <3>4, LocalInv DEF ReaderInv
  <2> QED
    BY <2>1, <2>2
<1>6. CASE CheckAgain(p)
  <2>1. CASE \E s \in {"UnsafePath", "Io"} : Leave(p, Plain(s))
    BY <1>6, <2>1, LeaveInv DEF CheckAgain
  <2>2. CASE ~\E s \in {"UnsafePath", "Io"} : Leave(p, Plain(s))
    <3>1. /\ pc[p] = "CheckAgain" /\ Goto(p, "ReadAgain")
          /\ UNCHANGED <<file, tmp, command, memory, reply, edits, window, overlapped>>
      BY <1>6, <2>2 DEF CheckAgain
    <3>2. pc'[p] = "ReadAgain"
      BY <3>1 DEF Goto, TypeOK
    <3>3. DraftIsASet(p)' /\ PageIsWhole(p)' /\ BodyIsCurrent(p)'
      BY <3>1, <3>2 DEF StoreInv, DraftIsASet, PageIsWhole, BodyIsCurrent, Writing,
                        Level, memory
    <3>4. \A q \in Procs \ {p} : Untouched(q) /\ window'[q] = window[q]
      BY <3>1 DEF Goto, TypeOK, Untouched, memory
    <3>5. ReadsAreCurrent(p)'
      BY <1>4, <3>1, <3>2 DEF memory
    <3> QED
      BY <3>1, <3>3, <3>4, <3>5, LocalInv DEF ReaderInv
  <2> QED
    BY <2>1, <2>2
<1>7. CASE ReadAgain(p)
  <2>1. CASE \E s \in {"Malformed", "Io"} : Leave(p, Plain(s))
    BY <1>7, <2>1, LeaveInv DEF ReadAgain
  <2>2. CASE ~\E s \in {"Malformed", "Io"} : Leave(p, Plain(s))
    <3> DEFINE second == file[Level(p)]
    <3>1. /\ pc[p] = "ReadAgain" /\ Goto(p, "CreateTemp")
          /\ ~Malformed(second)
          /\ page' = [page EXCEPT ![p] = Rendered(draft[p], second)]
          /\ UNCHANGED <<file, tmp, command, todo, got, draft, reply, edits, window,
                         overlapped>>
      BY <1>7, <2>2 DEF ReadAgain
    <3>2. pc'[p] = "CreateTemp" /\ page'[p] = Rendered(draft[p], second)
      BY <3>1 DEF Goto, TypeOK
    <3>3. second \in window[p][Level(p)]
      BY <1>1, <1>3
    <3>4. page'[p].body = BodyOf(second)
      BY <3>2 DEF Rendered
    <3>5. DraftIsASet(p)'
      BY <3>1, <3>2 DEF StoreInv, DraftIsASet, Writing, Level
    <3>6. PageIsWhole(p)'
      BY <3>1, <3>2, <3>3 DEF PageIsWhole, Writing, Level
    <3>7. BodyIsCurrent(p)'
      BY <3>1, <3>2, <3>4 DEF BodyIsCurrent, Level
    <3>8. \A q \in Procs \ {p} : Untouched(q) /\ window'[q] = window[q]
      BY <3>1 DEF Goto, TypeOK, Untouched
    <3>9. ReadsAreCurrent(p)'
      BY <1>4, <3>1, <3>2
    <3> QED
      BY <3>1, <3>5, <3>6, <3>7, <3>8, <3>9, LocalInv DEF ReaderInv
  <2> QED
    BY <2>1, <2>2
<1>8. ASSUME NEW label \in {"WriteTemp", "Rename"}, NEW content,
             Writing(p), Goto(p, label), tmp' = [tmp EXCEPT ![p] = content],
             label = "Rename" => content = page[p],
             UNCHANGED <<file, command, memory, reply, edits, window, overlapped>>
      PROVE  StoreInv'
  <2>1. pc'[p] = label /\ tmp'[p] = content /\ Writing(p)'
    BY <1>8 DEF Goto, TypeOK, Writing
  <2>2. DraftIsASet(p)' /\ BodyIsCurrent(p)'
    BY <1>8, <2>1 DEF StoreInv, DraftIsASet, BodyIsCurrent, Level, memory
  <2>3. PageIsWhole(p)'
    BY <1>8, <2>1 DEF StoreInv, PageIsWhole, Level, memory
  <2>4. ReadsAreCurrent(p)'
    BY <1>4, <1>8, <2>1 DEF memory
  <2>5. \A q \in Procs \ {p} : Untouched(q) /\ window'[q] = window[q]
    BY <1>8 DEF Goto, TypeOK, Untouched, memory
  <2> QED
    BY <1>8, <2>2, <2>3, <2>4, <2>5, LocalInv DEF ReaderInv
<1>9. CASE CreateTemp(p)
  <2>1. CASE Leave(p, Plain("Io")) /\ UNCHANGED tmp
    BY <2>1, LeaveInv
  <2>2. CASE ~(Leave(p, Plain("Io")) /\ UNCHANGED tmp)
    BY <1>8, <1>9, <2>2 DEF CreateTemp, Writing
  <2> QED
    BY <2>1, <2>2
<1>10. CASE WriteTemp(p)
  <2>1. CASE Leave(p, Plain("Io")) /\ tmp' = [tmp EXCEPT ![p] = NoFile]
    BY <2>1, LeaveInv DEF TypeOK
  <2>2. CASE ~(Leave(p, Plain("Io")) /\ tmp' = [tmp EXCEPT ![p] = NoFile])
    BY <1>8, <1>10, <2>2 DEF WriteTemp, Writing
  <2> QED
    BY <2>1, <2>2
<1> QED
  BY <1>5, <1>6, <1>7, <1>9, <1>10

(* What a set is about to write is a document like any other. *)
LEMMA PageFacts ==
  ASSUME TypeOK, StoreInv, NEW p \in Procs, Writing(p)
  PROVE  /\ page[p] # NoFile /\ page[p].kind = "Mapping"
         /\ ~Malformed(page[p]) /\ BodyOf(page[p]) = page[p].body
<1>1. PICK second \in window[p][Level(p)] : page[p] = Rendered(draft[p], second)
  BY DEF StoreInv, PageIsWhole
<1>2. page[p] \in Contents
  BY PageType
<1>3. page[p] # NoFile
  BY <1>2, NoFileAssumption
<1>4. page[p].kind = "Mapping"
  BY <1>1 DEF Rendered
<1> QED
  BY <1>3, <1>4 DEF Malformed, BodyOf

LEMMA RenameInv ==
  ASSUME TypeOK, StoreInv, NEW p \in Procs, Rename(p)
  PROVE  StoreInv'
<1>1. pc[p] = "Rename" /\ Writing(p) /\ Level(p) \in Levels
  BY CommandOf DEF Rename, Writing
<1>2. CASE Leave(p, Plain("Io"))
  <2>1. \A q \in Procs \ {p} : tmp'[q] = tmp[q]
    BY DEF Rename, TypeOK
  <2> QED
    BY <1>2, <2>1, LeaveInv
<1>3. CASE ~Leave(p, Plain("Io"))
  <2>1. /\ End(p, Plain("Ok")) /\ Put(Level(p), tmp[p])
        /\ tmp' = [tmp EXCEPT ![p] = NoFile]
        /\ UNCHANGED <<command, edits, overlapped>>
    BY <1>3 DEF Rename
  <2>2. tmp[p] = page[p]
    BY <1>1 DEF StoreInv, PageIsWhole
  <2>3. file' = [file EXCEPT ![Level(p)] = page[p]]
    BY <2>1, <2>2 DEF Put
  <2>4. pc'[p] = "Ended"
    BY <2>1 DEF End, Goto, TypeOK
  <2>5. ReaderInv(p)' /\ BodyIsCurrent(p)'
    BY <2>4 DEF Phase, ReaderInv, ReadsAreCurrent, DraftIsASet, PageIsWhole,
                BodyIsCurrent, Writing
  <2>6. ASSUME NEW q \in Procs \ {p}
        PROVE  ReaderInv(q)' /\ BodyIsCurrent(q)'
    <3>1. Untouched(q)
      BY <2>1 DEF End, Goto, TypeOK, Untouched
    <3>2. Phase(pc[q]) = "Running" => Sees(q)
      BY <1>1, <2>1, <3>1, PutSees DEF Untouched
    <3>3. ReaderInv(q)'
      BY <3>1, <3>2, UntouchedInv DEF StoreInv, ReaderInv
    <3>4. BodyIsCurrent(q)'
      <4> SUFFICES ASSUME Writing(q)', Level(q)' \notin overlapped'
                   PROVE  /\ ~Malformed(file[Level(q)])'
                          /\ page'[q].body = BodyOf(file[Level(q)])'
        BY DEF BodyIsCurrent
      <4>1. /\ Level(q)' = Level(q) /\ Level(q) \in Levels /\ page'[q] = page[q]
            /\ Writing(q) /\ Level(q) \notin overlapped
        BY <2>1, <3>1, CommandOf DEF Untouched, Writing, Level
      <4>2. ~Malformed(file[Level(q)]) /\ page[q].body = BodyOf(file[Level(q)])
        BY <4>1 DEF StoreInv, BodyIsCurrent
      <4>3. CASE Level(q) # Level(p)
        <5>1. file'[Level(q)] = file[Level(q)]
          BY <2>3, <4>1, <4>3 DEF TypeOK
        <5> QED
          BY <4>1, <4>2, <5>1
      <4>4. CASE Level(q) = Level(p)
        <5>1. file'[Level(q)] = page[p]
          BY <1>1, <2>3, <4>4 DEF TypeOK
        <5>2. page[p].body = BodyOf(file[Level(p)])
          BY <1>1, <4>1, <4>4 DEF StoreInv, BodyIsCurrent
        <5>3. ~Malformed(page[p]) /\ BodyOf(page[p]) = page[p].body
          BY <1>1, PageFacts
        <5> QED
          BY <4>1, <4>2, <4>4, <5>1, <5>2, <5>3
      <4> QED
        BY <4>3, <4>4
    <3> QED
      BY <3>3, <3>4
  <2> QED
    BY <2>5, <2>6 DEF StoreInv, ReaderInv
<1> QED
  BY <1>2, <1>3

LEMMA EditInv ==
  ASSUME TypeOK, StoreInv, NEW level \in Levels, Edit(level)
  PROVE  StoreInv'
<1>1. PICK content \in Drafts \cup {NoFile} : Put(level, content)
  BY DEF Edit
<1>2. ASSUME NEW q \in Procs
      PROVE  ReaderInv(q)' /\ BodyIsCurrent(q)'
  <2>1. Untouched(q)
    BY DEF Edit, Untouched, memory
  <2>2. Phase(pc[q]) = "Running" => Sees(q)
    BY <1>1, <2>1, PutSees DEF Untouched
  <2>3. ReaderInv(q)'
    BY <2>1, <2>2, UntouchedInv DEF StoreInv, ReaderInv
  <2>4. BodyIsCurrent(q)'
    <3> SUFFICES ASSUME Writing(q)', Level(q)' \notin overlapped'
                 PROVE  /\ ~Malformed(file[Level(q)])'
                        /\ page'[q].body = BodyOf(file[Level(q)])'
      BY DEF BodyIsCurrent
    <3>1. /\ Level(q)' = Level(q) /\ Level(q) \in Levels /\ page'[q] = page[q]
          /\ Writing(q)
      BY <2>1, CommandOf DEF Untouched, Writing, Level
    <3>2. Level(q) \notin overlapped /\ Level(q) # level
      BY <3>1 DEF Edit
    <3>3. ~Malformed(file[Level(q)]) /\ page[q].body = BodyOf(file[Level(q)])
      BY <3>1, <3>2 DEF StoreInv, BodyIsCurrent
    <3>4. file'[Level(q)] = file[Level(q)]
      BY <1>1, <3>1, <3>2 DEF Put, TypeOK
    <3> QED
      BY <3>1, <3>3, <3>4
  <2> QED
    BY <2>3, <2>4
<1> QED
  BY <1>2 DEF StoreInv, ReaderInv

LEMMA StepInv ==
  ASSUME TypeOK, StoreInv, [Next]_vars
  PROVE  StoreInv'
<1>1. ASSUME NEW p \in Procs, Begin(p) \/ Step(p) \/ Crash(p)
      PROVE  StoreInv'
  <2>1. CASE Begin(p) \/ CheckPath(p) \/ Read(p) \/ Return(p)
    BY <2>1, ReadStepsInv
  <2>2. CASE Modify(p) \/ CheckAgain(p) \/ ReadAgain(p) \/ CreateTemp(p) \/ WriteTemp(p)
    BY <2>2, WriteStepsInv
  <2>3. CASE Rename(p)
    BY <2>3, RenameInv
  <2>4. CASE Crash(p)
    BY <2>4, LeaveInv DEF Crash
  <2> QED
    BY <1>1, <2>1, <2>2, <2>3, <2>4 DEF Step
<1>2. CASE UNCHANGED vars
  BY <1>2 DEF vars, memory, StoreInv, ReadsAreCurrent, DraftIsASet, PageIsWhole,
              BodyIsCurrent, HasRead, Contained, Writing, Level
<1> QED
  BY <1>1, <1>2, EditInv DEF Next

(* In every state every variable has its type, every running command has    *)
(* read only documents that were in place since it began, and a set holds a *)
(* whole document with the body that is still in place.                     *)
THEOREM InvariantHolds == Spec => [](TypeOK /\ StoreInv)
<1>1. Init => TypeOK /\ StoreInv
  BY InitType, InitInv
<1>2. TypeOK /\ StoreInv /\ [Next]_vars => (TypeOK /\ StoreInv)'
  BY StepType, StepInv
<1> QED
  BY <1>1, <1>2, PTL DEF Spec

THEOREM TypeCorrect == Spec => []TypeOK
  BY InvariantHolds, PTL

-----------------------------------------------------------------------------
(* Replacing a document. *)

LEMMA ReplacesIsRename ==
  ASSUME TypeOK, StoreInv, [Next]_vars,
         NEW p \in Procs, NEW level \in Levels, Replaces(p, level)
  PROVE  Writing(p) /\ Level(p) = level /\ file'[level] = page[p]
<1>1. pc[p] = "Rename" /\ pc'[p] = "Ended" /\ file'[level] # file[level]
  BY DEF Replaces
<1>2. ~UNCHANGED pc /\ ~UNCHANGED file
  BY <1>1
<1>3. ~UNCHANGED vars /\ ~\E l \in Levels : Edit(l)
  BY <1>2 DEF vars, Edit
<1>4. PICK q \in Procs : Begin(q) \/ Step(q) \/ Crash(q)
  BY <1>3 DEF Next
<1>5. q = p
  <2>1. SUFFICES ASSUME q # p PROVE pc'[p] = pc[p]
    BY <1>1
  <2> QED
    BY <1>4, <2>1 DEF Begin, Step, Crash, CheckPath, Read, Return, Modify, CheckAgain,
                      ReadAgain, CreateTemp, WriteTemp, Rename, Leave, End, Goto, TypeOK
<1>6. Rename(p)
  BY <1>1, <1>4, <1>5 DEF Begin, Step, Crash, CheckPath, Read, Return, Modify,
                          CheckAgain, ReadAgain, CreateTemp, WriteTemp, Leave
<1>7. Put(Level(p), tmp[p]) /\ tmp[p] = page[p]
  BY <1>1, <1>2, <1>6 DEF Rename, Leave, StoreInv, PageIsWhole
<1>8. file' = [file EXCEPT ![Level(p)] = page[p]]
  BY <1>7 DEF Put
<1>9. Level(p) = level /\ file'[level] = page[p]
  BY <1>1, <1>8 DEF TypeOK
<1> QED
  BY <1>1, <1>9 DEF Writing

(* However many sets overlap, none loses the prose of a document that       *)
(* nobody edits while one of them writes it, if what stands between its     *)
(* fences is frontmatter and not prose.                                     *)
THEOREM BodiesSurvive == Spec => BodySurvivesSets
<1>1. ASSUME TypeOK, StoreInv, [Next]_vars,
             NEW p \in Procs, NEW level \in Levels, Replaces(p, level),
             file[level] = NoFile \/ file[level].kind # "Prose"
      PROVE  Visible(file'[level]) = Visible(file[level])
  <2>1. Writing(p) /\ Level(p) = level /\ file'[level] = page[p] /\ level \notin overlapped
    BY <1>1, ReplacesIsRename DEF Replaces
  <2>2. ~Malformed(file[level]) /\ page[p].body = BodyOf(file[level])
    BY <1>1, <2>1 DEF StoreInv, BodyIsCurrent
  <2>3. page[p] # NoFile /\ page[p].kind = "Mapping" /\ BodyOf(page[p]) = page[p].body
    BY <1>1, <2>1, PageFacts
  <2>4. file[level] = NoFile \/ file[level].kind = "Mapping"
    <3>1. file[level] # NoFile => file[level].kind \in Kinds
      BY <1>1 DEF TypeOK, Files, Contents
    <3> QED
      BY <1>1, <2>2, <3>1 DEF Kinds, Malformed
  <2> QED
    BY <2>1, <2>2, <2>3, <2>4 DEF Visible
<1>2. TypeOK /\ StoreInv /\ [Next]_vars =>
      [\A p \in Procs, level \in Levels :
          Replaces(p, level) /\ (file[level] = NoFile \/ file[level].kind # "Prose")
          => Visible(file'[level]) = Visible(file[level])]_vars
  BY <1>1
<1> QED
  BY <1>2, InvariantHolds, PTL DEF Spec, BodySurvivesSets

(* ... and none replaces a malformed document.                              *)
THEOREM MalformedKept == Spec => MalformedSurvives
<1>1. ASSUME TypeOK, StoreInv, [Next]_vars,
             NEW p \in Procs, NEW level \in Levels, Replaces(p, level)
      PROVE  ~Malformed(file[level])
  <2>1. Writing(p) /\ Level(p) = level /\ level \notin overlapped
    BY <1>1, ReplacesIsRename DEF Replaces
  <2> QED
    BY <1>1, <2>1 DEF StoreInv, BodyIsCurrent
<1>2. TypeOK /\ StoreInv /\ [Next]_vars =>
      [\A p \in Procs, level \in Levels :
          Replaces(p, level) => ~Malformed(file[level])]_vars
  BY <1>1
<1> QED
  BY <1>2, InvariantHolds, PTL DEF Spec, MalformedSurvives

-----------------------------------------------------------------------------
(* The refinement. *)

phases == [p \in Procs |-> Phase(pc[p])]

(* The contract's operators are the store's. *)
LEMMA SameOperators ==
  /\ Contract!Levels = Levels
  /\ \A s : Contract!Plain(s) = Plain(s)
  /\ \A c : Contract!Escapes(c) <=> Escapes(c)
  /\ \A c : Contract!Malformed(c) <=> Malformed(c)
  /\ \A c : Contract!Unsplit(c) <=> Unsplit(c)
  /\ \A c : Contract!TreeOf(c) = TreeOf(c)
  /\ \A t, k : Contract!Conflict(t, k) <=> Conflict(t, k)
  /\ \A t, k, v : Contract!Insert(t, k, v) = Insert(t, k, v)
  /\ \A t, c : Contract!Rendered(t, c) = Rendered(t, c)
<1>1. Contract!EmptyTree = EmptyTree
  BY DEF Contract!EmptyTree, EmptyTree
<1>2. \A c : Contract!BodyOf(c) = BodyOf(c)
  BY DEF Contract!BodyOf, BodyOf
<1> QED
  BY <1>1, <1>2 DEF Contract!Levels, Levels, Contract!Plain, Plain, Contract!Escapes, Escapes,
     Contract!Malformed, Malformed, Contract!Unsplit, Unsplit, Contract!TreeOf, TreeOf,
     Contract!Conflict, Conflict, Contract!Insert, Insert, Contract!Rendered, Rendered

LEMMA SameAnswer == \A c, seen : Contract!Answer(c, seen) = Answer(c, seen)
<1>1. \A c : Contract!TreeOf(c) = TreeOf(c)
  BY SameOperators
<1>2. \A s : Contract!Plain(s) = Plain(s)
  BY SameOperators
<1>3. \A t, k : Contract!Resolve(t, k) = Resolve(t, k)
  BY DEF Contract!Resolve, Resolve
<1>4. \A c : Contract!Visible(c) = Visible(c)
  BY DEF Contract!Visible, Visible, Contract!BodyOf, BodyOf
<1>5. \A v : Contract!FirstFound(v) = FirstFound(v)
  BY <1>2 DEF Contract!FirstFound, FirstFound
<1>6. ASSUME NEW c, NEW seen
      PROVE  Contract!Lookup(c, seen) = Lookup(c, seen)
  BY <1>1, <1>3, <1>5 DEF Contract!Lookup, Lookup
<1>7. ASSUME NEW c, NEW seen
      PROVE  Contract!Assembly(c, seen) = Assembly(c, seen)
  BY <1>4 DEF Contract!Assembly, Assembly
<1> QED
  BY <1>6, <1>7 DEF Contract!Answer, Answer

(* A step that neither begins nor ends a command and changes no document.   *)
LEMMA SilentStep ==
  ASSUME TypeOK, NEW p \in Procs, NEW label \in Labels \ {"New", "Ended"},
         Phase(pc[p]) = "Running", Goto(p, label),
         UNCHANGED <<file, command, window, reply>>
  PROVE  UNCHANGED Contract!vars
<1>1. phases' = phases
  BY DEF phases, Phase, Goto, TypeOK
<1> QED
  BY <1>1 DEF Contract!vars, phases

(* A command that ends without an answer had a reason to. *)
LEMMA LeaveRefines ==
  ASSUME TypeOK, NEW p \in Procs, Phase(pc[p]) = "Running",
         NEW error \in ConfigErrors \cup {"Crashed"},
         Leave(p, Plain(error)), Contract!Justified(p, error)
  PROVE  Contract!Fail(p)
<1>1. phases' = [phases EXCEPT ![p] = "Ended"] /\ phases[p] = "Running"
  BY DEF phases, Phase, Leave, End, Goto, TypeOK
<1>2. window' = [window EXCEPT ![p] = [l \in Contract!Levels |-> {}]]
  BY SameOperators DEF Leave, NoWindow
<1>3. reply' = [reply EXCEPT ![p] = Contract!Plain(error)]
  BY SameOperators DEF Leave, End
<1>4. Contract!Finish(p, Contract!Plain(error))
  BY <1>1, <1>3 DEF Contract!Finish, phases, Leave
<1>5. error \in Contract!ConfigErrors \cup {"Crashed"}
  BY DEF Contract!ConfigErrors, ConfigErrors
<1> QED
  BY <1>2, <1>4, <1>5 DEF Contract!Fail, Leave

(* A document that was in place when the command found fault with it. *)
LEMMA Reason ==
  ASSUME TypeOK, NEW p \in Procs, NEW i \in DOMAIN command[p].levels,
         NEW c \in window[p][command[p].levels[i]], NEW error,
         \/ error = "UnsafePath" /\ Escapes(c)
         \/ error = "Malformed" /\ Malformed(c)
         \/ /\ error = "PathConflict" /\ command[p].op = "Set"
            /\ Conflict(TreeOf(c), command[p].key)
  PROVE  Contract!Justified(p, error)
  BY SameOperators DEF Contract!Justified

LEMMA BeginRefines ==
  ASSUME TypeOK, NEW p \in Procs, Begin(p)
  PROVE  Contract!Begin(p)
<1>1. phases' = [phases EXCEPT ![p] = "Running"] /\ phases[p] = "New"
  BY DEF phases, Phase, Begin, Goto, TypeOK
<1> QED
  BY <1>1, SameOperators DEF Contract!Begin, phases, Begin

(* Where a command is that still reads: at a level of its own, the document *)
(* of which it may see.                                                     *)
LEMMA ReadingWhere ==
  ASSUME TypeOK, StoreInv, NEW p \in Procs, pc[p] \in {"Check", "Read"}
  PROVE  /\ Phase(pc[p]) = "Running"
         /\ \E i \in DOMAIN command[p].levels : command[p].levels[i] = Head(todo[p])
         /\ file[Head(todo[p])] \in window[p][Head(todo[p])]
<1> DEFINE levels == command[p].levels
           done   == Len(levels) - Len(todo[p])
<1>1. Phase(pc[p]) = "Running"
  BY DEF Phase
<1>2. /\ \A level \in Levels : file[level] \in window[p][level]
      /\ done \in Nat
      /\ \A i \in DOMAIN todo[p] : todo[p][i] = levels[done + i]
      /\ todo[p] # <<>>
  BY <1>1 DEF StoreInv, ReadsAreCurrent
<1>3. todo[p] \in Seq(Levels) /\ levels \in Seq(Levels)
  BY CommandOf, CommandFacts DEF TypeOK
<1>4. /\ Head(todo[p]) = todo[p][1] /\ Head(todo[p]) \in Levels
      /\ DOMAIN todo[p] = 1..Len(todo[p]) /\ Len(todo[p]) \in Nat /\ Len(todo[p]) >= 1
      /\ DOMAIN levels = 1..Len(levels) /\ Len(levels) \in Nat
  BY <1>2, <1>3, ReadingFacts
<1>5. ASSUME NEW d \in Nat, NEW m \in Nat, NEW n \in Nat, m >= 1, d = n - m
      PROVE  d + 1 \in 1..n /\ 1 \in 1..m
  BY <1>5
<1>6. done + 1 \in DOMAIN levels /\ 1 \in DOMAIN todo[p]
  BY <1>2, <1>4, <1>5
<1>7. levels[done + 1] = Head(todo[p])
  BY <1>2, <1>4, <1>6
<1> QED
  BY <1>1, <1>2, <1>4, <1>6, <1>7

(* ... and one that has read everything. *)
LEMMA HasReadAll ==
  ASSUME TypeOK, StoreInv, NEW p \in Procs,
         pc[p] \in {"Decide", "CheckAgain", "ReadAgain", "CreateTemp", "WriteTemp", "Rename"}
  PROVE  /\ Phase(pc[p]) = "Running"
         /\ 1 \in DOMAIN command[p].levels
         /\ \A level \in Levels : file[level] \in window[p][level]
         /\ \A i \in DOMAIN command[p].levels : HasRead(p, command[p].levels[i])
<1> DEFINE levels == command[p].levels
           done   == Len(levels) - Len(todo[p])
<1>1. Phase(pc[p]) = "Running"
  BY DEF Phase
<1>2. /\ \A level \in Levels : file[level] \in window[p][level]
      /\ \A i \in 1..done : HasRead(p, levels[i])
      /\ todo[p] = <<>>
  BY <1>1 DEF StoreInv, ReadsAreCurrent
<1>3. levels \in Seq(Levels) /\ 1 \in DOMAIN levels
  BY CommandOf, CommandFacts
<1>4. DOMAIN levels = 1..Len(levels) /\ Len(levels) \in Nat
  BY <1>3, ReadingFacts
<1>5. done = Len(levels)
  BY <1>2, <1>4, EmptySeq
<1> QED
  BY <1>1, <1>2, <1>3, <1>4, <1>5

LEMMA SameContained ==
  ASSUME NEW p \in Procs, NEW level, Contained(p, level)
  PROVE  Contract!Contained(p, level)
BY SameOperators DEF Contained, Contract!Contained

LEMMA ReturnRefines ==
  ASSUME TypeOK, StoreInv, NEW p \in Procs, Return(p)
  PROVE  Contract!Return(p)
<1> DEFINE levels    == command[p].levels
           team      == IF \E i \in DOMAIN levels : levels[i] = "Team"
                        THEN got[p]["Team"] ELSE file["Team"]
           personal  == IF \E i \in DOMAIN levels : levels[i] = "Personal"
                        THEN got[p]["Personal"] ELSE file["Personal"]
           seen      == [l \in Levels |-> IF l = "Team" THEN team ELSE personal]
<1>1. /\ pc[p] = "Decide" /\ command[p].op # "Set" /\ Leave(p, Answer(command[p], got[p]))
  BY DEF Return
<1>2. /\ Phase(pc[p]) = "Running"
      /\ \A level \in Levels : file[level] \in window[p][level]
      /\ \A i \in DOMAIN levels : HasRead(p, levels[i])
  BY <1>1, HasReadAll
<1>3. \A i \in DOMAIN levels : levels[i] \in Levels
  BY CommandOf
<1>4. team \in window[p]["Team"] /\ personal \in window[p]["Personal"]
  BY <1>2 DEF HasRead, Levels
<1>5. \A i \in DOMAIN levels : seen[levels[i]] = got[p][levels[i]]
  BY <1>3 DEF Levels
<1>6. Answer(command[p], seen) = Answer(command[p], got[p])
  <2>1. [i \in DOMAIN levels |-> Resolve(TreeOf(seen[levels[i]]), command[p].key)]
        = [i \in DOMAIN levels |-> Resolve(TreeOf(got[p][levels[i]]), command[p].key)]
    BY <1>5
  <2>2. [i \in DOMAIN levels |-> Visible(seen[levels[i]])]
        = [i \in DOMAIN levels |-> Visible(got[p][levels[i]])]
    BY <1>5
  <2> QED
    BY <2>1, <2>2 DEF Answer, Lookup, Assembly
<1>7. \A i \in DOMAIN levels : IF command[p].op = "Get" THEN ~Malformed(seen[levels[i]])
                               ELSE ~Unsplit(seen[levels[i]])
  <2>1. command[p].op \in {"Get", "Context"}
    BY <1>1, CommandOf, CommandFacts DEF Ops
  <2> QED
    BY <1>2, <1>5, <2>1 DEF HasRead
<1>8. phases' = [phases EXCEPT ![p] = "Ended"] /\ phases[p] = "Running"
  BY <1>1, <1>2 DEF phases, Phase, Leave, End, Goto, TypeOK
<1>9. Contract!Finish(p, Contract!Answer(command[p], seen))
  BY <1>1, <1>6, <1>8, SameAnswer DEF Contract!Finish, phases, Leave, End
<1>10. window' = [window EXCEPT ![p] = [l \in Contract!Levels |-> {}]]
  BY <1>1, SameOperators DEF Leave, NoWindow
<1>11. \A i \in DOMAIN levels :
          IF command[p].op = "Get" THEN ~Contract!Malformed(seen[levels[i]])
          ELSE ~Contract!Unsplit(seen[levels[i]])
  BY <1>7, SameOperators
<1>12. \A i \in DOMAIN command[p].levels : Contract!Contained(p, command[p].levels[i])
  BY <1>2, SameContained DEF HasRead
<1> HIDE DEF team, personal
<1>13. \E t \in window[p]["Team"], q \in window[p]["Personal"] :
          LET s == [l \in Contract!Levels |-> IF l = "Team" THEN t ELSE q]
          IN  /\ \A i \in DOMAIN command[p].levels :
                    IF command[p].op = "Get"
                    THEN ~Contract!Malformed(s[command[p].levels[i]])
                    ELSE ~Contract!Unsplit(s[command[p].levels[i]])
              /\ Contract!Finish(p, Contract!Answer(command[p], s))
  BY <1>4, <1>9, <1>11 DEF Contract!Levels, Levels
<1> QED
  BY <1>1, <1>10, <1>12, <1>13 DEF Contract!Return, Leave

LEMMA RenameRefines ==
  ASSUME TypeOK, StoreInv, NEW p \in Procs, Rename(p), ~Leave(p, Plain("Io"))
  PROVE  Contract!Install(p)
<1> DEFINE first == got[p][Level(p)]
<1>1. /\ pc[p] = "Rename" /\ Writing(p)
      /\ End(p, Plain("Ok")) /\ Put(Level(p), tmp[p]) /\ UNCHANGED command
  BY DEF Rename, Writing
<1>2. /\ command[p].op = "Set" /\ ~Conflict(TreeOf(first), command[p].key)
      /\ draft[p] = Insert(TreeOf(first), command[p].key, command[p].value)
  BY <1>1 DEF StoreInv, DraftIsASet
<1>3. PICK second \in window[p][Level(p)] :
         ~Malformed(second) /\ page[p] = Rendered(draft[p], second)
  BY <1>1 DEF StoreInv, PageIsWhole
<1>4. tmp[p] = Rendered(Insert(TreeOf(first), command[p].key, command[p].value), second)
  BY <1>1, <1>2, <1>3 DEF StoreInv, PageIsWhole
<1>5. first \in window[p][Level(p)] /\ ~Malformed(first) /\ Phase(pc[p]) = "Running"
  BY <1>1, <1>2, HasReadAll DEF HasRead, Level
<1>6. phases' = [phases EXCEPT ![p] = "Ended"] /\ phases[p] = "Running"
  BY <1>1, <1>5 DEF phases, Phase, End, Goto, TypeOK
<1>7. Contract!Finish(p, Contract!Plain("Ok"))
  BY <1>1, <1>6, SameOperators DEF Contract!Finish, phases, End
<1>8. Contract!Put(Level(p), tmp[p])
  BY <1>1 DEF Contract!Put, Put, NoWindow, Contract!Levels, Levels
<1> HIDE DEF first
<1>9. Contract!Put(command[p].levels[1],
         Contract!Rendered(Contract!Insert(Contract!TreeOf(first), command[p].key,
                                           command[p].value), second))
  BY <1>4, <1>8, SameOperators DEF Level
<1>10. /\ first \in window[p][command[p].levels[1]]
       /\ second \in window[p][command[p].levels[1]]
       /\ ~Contract!Malformed(first) /\ ~Contract!Malformed(second)
       /\ ~Contract!Conflict(Contract!TreeOf(first), command[p].key)
  BY <1>2, <1>3, <1>5, SameOperators DEF Level
<1>11. Contract!Contained(p, command[p].levels[1])
  BY <1>1, HasReadAll, SameContained DEF HasRead
<1> QED
  BY <1>2, <1>7, <1>9, <1>10, <1>11 DEF Contract!Install

LEMMA EditRefines ==
  ASSUME NEW level \in Levels, Edit(level)
  PROVE  Contract!Edit(level)
<1>1. PICK content \in Drafts \cup {NoFile} : Put(level, content)
  BY DEF Edit
<1>2. Contract!Put(level, content)
  BY <1>1 DEF Contract!Put, Put, NoWindow, Contract!Levels, Levels
<1>3. phases' = phases
  BY DEF phases, Edit
<1> QED
  BY <1>2, <1>3 DEF Contract!Edit, phases, Edit

(* The steps of a command that reads, and of one that writes. *)
LEMMA ReaderRefines ==
  ASSUME TypeOK, StoreInv, NEW p \in Procs,
         Begin(p) \/ CheckPath(p) \/ Read(p) \/ Return(p)
  PROVE  \/ Contract!Begin(p) \/ Contract!Return(p) \/ Contract!Fail(p)
         \/ UNCHANGED Contract!vars
<1>1. CASE Begin(p)
  BY <1>1, BeginRefines
<1>2. CASE CheckPath(p) \/ Read(p)
  <2> DEFINE level == Head(todo[p])
  <2>1. Phase(pc[p]) = "Running" /\ pc[p] \in {"Check", "Read"}
    BY <1>2, ReadingWhere DEF CheckPath, Read
  <2>2. PICK i \in DOMAIN command[p].levels : command[p].levels[i] = level
    BY <2>1, ReadingWhere
  <2>3. file[level] \in window[p][level]
    BY <2>1, ReadingWhere
  <2>4. CASE Leave(p, Plain("UnsafePath")) /\ Escapes(file[level])
    <3>1. Contract!Justified(p, "UnsafePath")
      BY <2>2, <2>3, <2>4, Reason
    <3> QED
      BY <2>1, <2>4, <3>1, LeaveRefines DEF ConfigErrors
  <2>5. CASE Leave(p, Plain("Malformed")) /\ Malformed(file[level])
    <3>1. Contract!Justified(p, "Malformed")
      BY <2>2, <2>3, <2>5, Reason
    <3> QED
      BY <2>1, <2>5, <3>1, LeaveRefines DEF ConfigErrors
  <2>6. CASE IoFaults /\ Leave(p, Plain("Io"))
    <3>1. Contract!Justified(p, "Io")
      BY <2>6 DEF Contract!Justified
    <3> QED
      BY <2>1, <2>6, <3>1, LeaveRefines DEF ConfigErrors
  <2>7. CASE \E label \in {"Check", "Read", "Decide"} :
               Goto(p, label) /\ UNCHANGED <<file, command, window, reply>>
    BY <2>1, <2>7, SilentStep DEF Labels
  <2>8. Unsplit(file[level]) => Malformed(file[level])
    BY DEF Unsplit, Malformed
  <2>9. CASE CheckPath(p)
    BY <2>4, <2>6, <2>7, <2>9 DEF CheckPath
  <2>10. CASE Read(p)
    <3>1. \/ Leave(p, Plain("Malformed")) /\ Malformed(file[level])
          \/ IoFaults /\ Leave(p, Plain("Io"))
          \/ /\ Goto(p, IF Len(todo[p]) = 1 THEN "Decide" ELSE "Check")
             /\ UNCHANGED <<file, command, window, reply>>
      BY <2>8, <2>10 DEF Read
    <3> QED
      BY <2>5, <2>6, <2>7, <3>1
  <2> QED
    BY <1>2, <2>9, <2>10
<1>3. CASE Return(p)
  BY <1>3, ReturnRefines
<1> QED
  BY <1>1, <1>2, <1>3

LEMMA WriterRefines ==
  ASSUME TypeOK, StoreInv, NEW p \in Procs,
         \/ Modify(p) \/ CheckAgain(p) \/ ReadAgain(p)
         \/ CreateTemp(p) \/ WriteTemp(p) \/ Rename(p)
  PROVE  Contract!Install(p) \/ Contract!Fail(p) \/ UNCHANGED Contract!vars
<1>1. /\ pc[p] \in {"Decide", "CheckAgain", "ReadAgain", "CreateTemp", "WriteTemp",
                   "Rename"}
  BY DEF Modify, CheckAgain, ReadAgain, CreateTemp, WriteTemp, Rename
<1>2. /\ Phase(pc[p]) = "Running" /\ 1 \in DOMAIN command[p].levels
      /\ Level(p) \in Levels /\ Level(p) = command[p].levels[1]
      /\ file[Level(p)] \in window[p][Level(p)]
      /\ HasRead(p, Level(p))
  BY <1>1, HasReadAll, CommandOf DEF Level
<1>3. ASSUME NEW error \in {"UnsafePath", "Malformed", "PathConflict"},
             Leave(p, Plain(error)),
             NEW c \in window[p][Level(p)],
             \/ error = "UnsafePath" /\ Escapes(c)
             \/ error = "Malformed" /\ Malformed(c)
             \/ /\ error = "PathConflict" /\ command[p].op = "Set"
                /\ Conflict(TreeOf(c), command[p].key)
      PROVE  Contract!Fail(p)
  <2>1. Contract!Justified(p, error)
    BY <1>2, <1>3, Reason
  <2> QED
    BY <1>2, <1>3, <2>1, LeaveRefines DEF ConfigErrors
<1>4. CASE IoFaults /\ Leave(p, Plain("Io"))
  <2>1. Contract!Justified(p, "Io")
    BY <1>4 DEF Contract!Justified
  <2> QED
    BY <1>2, <1>4, <2>1, LeaveRefines DEF ConfigErrors
<1>5. CASE \E label \in {"CheckAgain", "ReadAgain", "CreateTemp", "WriteTemp", "Rename"} :
             Goto(p, label) /\ UNCHANGED <<file, command, window, reply>>
  BY <1>2, <1>5, SilentStep DEF Labels
<1>6. CASE Modify(p)
  <2>1. got[p][Level(p)] \in window[p][Level(p)]
    BY <1>2 DEF HasRead
  <2> QED
    BY <1>3, <1>5, <1>6, <2>1 DEF Modify
<1>7. CASE CheckAgain(p)
  BY <1>2, <1>3, <1>4, <1>5, <1>7 DEF CheckAgain, memory
<1>8. CASE ReadAgain(p)
  BY <1>2, <1>3, <1>4, <1>5, <1>8 DEF ReadAgain
<1>9. CASE CreateTemp(p)
  BY <1>4, <1>5, <1>9 DEF CreateTemp
<1>10. CASE WriteTemp(p)
  BY <1>4, <1>5, <1>10 DEF WriteTemp
<1>11. CASE Rename(p)
  <2>1. CASE Leave(p, Plain("Io")) /\ IoFaults
    BY <1>4, <2>1
  <2>2. CASE ~Leave(p, Plain("Io"))
    BY <1>11, <2>2, RenameRefines
  <2>3. Leave(p, Plain("Io")) => IoFaults
    <3>1. reply'[p] = Plain("Io") => reply'[p] # Plain("Ok")
      BY DEF Plain
    <3> QED
      BY <1>11, <3>1 DEF Rename, Leave, End, TypeOK
  <2> QED
    BY <2>1, <2>2, <2>3
<1> QED
  BY <1>6, <1>7, <1>8, <1>9, <1>10, <1>11

LEMMA StepRefines ==
  ASSUME TypeOK, StoreInv, [Next]_vars
  PROVE  [Contract!Next]_Contract!vars
<1>1. ASSUME NEW p \in Procs, Begin(p) \/ CheckPath(p) \/ Read(p) \/ Return(p)
      PROVE  [Contract!Next]_Contract!vars
  BY <1>1, ReaderRefines DEF Contract!Next
<1>2. ASSUME NEW p \in Procs,
             \/ Modify(p) \/ CheckAgain(p) \/ ReadAgain(p)
             \/ CreateTemp(p) \/ WriteTemp(p) \/ Rename(p)
      PROVE  [Contract!Next]_Contract!vars
  BY <1>2, WriterRefines DEF Contract!Next
<1>3. ASSUME NEW p \in Procs, Crash(p)
      PROVE  Contract!Next
  <2>1. Contract!Justified(p, "Crashed")
    BY <1>3 DEF Crash, Contract!Justified
  <2>2. Contract!Fail(p)
    BY <1>3, <2>1, LeaveRefines DEF Crash
  <2> QED
    BY <2>2 DEF Contract!Next
<1>4. ASSUME NEW level \in Levels, Edit(level)
      PROVE  Contract!Next
  BY <1>4, EditRefines, SameOperators DEF Contract!Next
<1>5. CASE UNCHANGED vars
  BY <1>5 DEF vars, Contract!vars
<1> QED
  BY <1>1, <1>2, <1>3, <1>4, <1>5 DEF Next, Step

LEMMA InitRefines ==
  ASSUME Init
  PROVE  Contract!Init
<1>1. phases = [p \in Procs |-> "New"]
  BY DEF phases, Phase, Init
<1> QED
  BY <1>1 DEF Init, Contract!Init, phases, NoWindow, Contract!Levels, Levels,
              Contract!Plain, Plain

(* Whatever overlaps, fails or is killed: the commands keep the contract.   *)
THEOREM ContractKept == Spec => KeepsContract
<1>1. Init => Contract!Init
  BY InitRefines
<1>2. TypeOK /\ StoreInv /\ [Next]_vars => [Contract!Next]_Contract!vars
  BY StepRefines
<1> QED
  BY <1>1, <1>2, InvariantHolds, PTL DEF Spec, KeepsContract, Contract!Spec
=============================================================================
