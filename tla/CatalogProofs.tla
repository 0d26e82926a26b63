---------------------------- MODULE CatalogProofs ----------------------------
(****************************************************************************)
(* What createRole, updateRole, deleteRole and their twins for permissions  *)
(* guarantee for any number of entries, names, owners and requests.         *)
(****************************************************************************)
EXTENDS Catalog, TLAPS

(* What a request half way relies on. *)

\* r: a running request; overtaken: whether what it read has changed since; table,
\* assigned: the entries and the assignments.
Sound(r, overtaken, table, assigned) ==
  /\ r.op = "create" =>
       r.name \in Names /\ r.info \in Infos /\ table[r.id] = None /\ r.phase # "find"
  /\ r.op = "update" /\ r.phase \in {"duplicate", "write"} =>
       /\ r.copy \in Entry /\ ~r.copy.deleted /\ table[r.id] # None
       /\ overtaken \/ table[r.id] = r.copy
  /\ r.op = "update" /\ r.phase = "duplicate" => r.name # None
  /\ r.op = "delete" /\ r.phase \in {"holders", "write"} => table[r.id] # None
  /\ r.op = "delete" /\ r.phase = "write" => overtaken \/ ~Assigned(assigned, r.id)

CallsSound == \A a \in Admins : Running(a) => Sound(call[a], moved[a], entry, rows)

\* An id is given to one new entry only.
CreatesDiffer ==
  \A a, b \in Admins :
    a # b /\ Running(a) /\ Running(b) /\ call[a].op = "create" /\ call[b].op = "create"
      => call[a].id # call[b].id

IInv == TypeOK /\ NamesUnique /\ RefusalsWereTrue /\ CallsSound /\ CreatesDiffer

-----------------------------------------------------------------------------
(* The shape of a step. *)

Step(a) ==
  \/ CheckNewName(a) \/ Insert(a)
  \/ FindToUpdate(a) \/ CheckName(a) \/ UpdateEntity(a)
  \/ FindToDelete(a) \/ CheckHolders(a) \/ SoftDelete(a)
  \/ \E op \in {"create", "update", "delete"} : StatementFails(a, op)

\* The handler goes on to its next statement.
Continues(a) ==
  /\ entry' = entry
  /\ \E phase \in {"duplicate", "holders", "write"}, copy \in Entry \cup {None} :
       /\ call' = [call EXCEPT ![a] = Asks(call[a], phase, copy)]
       /\ Sound(Asks(call[a], phase, copy), moved[a], entry, rows)

\* The row of a's entry becomes e.
Puts(a, e) ==
  /\ entry' = [entry EXCEPT ![call[a].id] = e]
  /\ call[a].op = "create" <=> entry[call[a].id] = None
  /\ \A j \in Ids \ {call[a].id} : entry[j] # None => entry[j].name # e.name

Ends(a) ==
  /\ \E reply \in Replies :
       Answer(a, reply) /\ (reply \in Refusals => True(reply, call[a], entry, rows))
  /\ \/ entry' = entry
     \/ /\ \E e \in Entry : Puts(a, e)
        /\ call'[a].reply \in {"ok", "error"}

LEMMA RunningIsCall ==
  ASSUME TypeOK, NEW a \in Admins, Running(a)
  PROVE  call[a] \in Call
BY DEF TypeOK, Running, Done

LEMMA EntryIsSome == None \notin Entry
BY NoneIsNoValue

LEMMA AsksIsCall ==
  ASSUME NEW r \in Call, NEW phase \in {"duplicate", "holders", "write"},
         NEW copy \in Entry \cup {None}
  PROVE  Asks(r, phase, copy) \in Call
BY DEF Call, Asks

LEMMA AssignIsEntry ==
  ASSUME NEW e \in Entry, NEW r \in Call
  PROVE  Assign(e, r) \in Entry
BY DEF Assign, Entry, Call

LEMMA CreateMoves ==
  ASSUME IInv, NEW a \in Admins, CheckNewName(a) \/ Insert(a)
  PROVE  Running(a) /\ rows' = rows /\ Observe /\ (Continues(a) \/ Ends(a))
<1>1. TypeOK /\ Running(a) /\ call[a] \in Call /\ Sound(call[a], moved[a], entry, rows)
      /\ call[a].op = "create"
  BY RunningIsCall DEF IInv, CallsSound, CheckNewName, Insert, At
<1>2. CASE CheckNewName(a)
  <2>1. CASE NameInUse(entry, call[a].name, call[a].id)
    <3>1. Answer(a, "alreadyExists") /\ entry' = entry
      BY <1>2, <2>1 DEF CheckNewName
    <3>2. True("alreadyExists", call[a], entry, rows)
      BY <1>1, <2>1, NoneIsNoValue DEF True, Sound
    <3>3. QED
      BY <1>1, <1>2, <3>1, <3>2 DEF CheckNewName, Ends, Replies, Refusals
  <2>2. CASE ~NameInUse(entry, call[a].name, call[a].id)
    <3>1. Goto(a, "write", None) /\ entry' = entry
      BY <1>2, <2>2 DEF CheckNewName
    <3>2. Sound(Asks(call[a], "write", None), moved[a], entry, rows)
      BY <1>1 DEF Sound, Asks
    <3>3. QED
      BY <1>1, <1>2, <3>1, <3>2 DEF Goto, CheckNewName, Continues
  <2>3. QED
    BY <2>1, <2>2
<1>3. CASE Insert(a)
  <2>1. CASE Indexed(call[a].name, call[a].id)
    BY <1>1, <1>3, <2>1 DEF Insert, Ends, Replies, Refusals
  <2>2. CASE ~Indexed(call[a].name, call[a].id)
    <3> DEFINE e == [name |-> call[a].name, info |-> call[a].info, deleted |-> FALSE]
    <3>1. e \in Entry
      BY <1>1 DEF Sound, Entry
    <3>2. entry' = [entry EXCEPT ![call[a].id] = e]
      BY <1>3, <2>2 DEF Insert
    <3>3. Puts(a, e)
      BY <1>1, <2>2, <3>2 DEF Puts, Sound, Indexed
    <3>4. PICK reply \in {"ok", "error"} : Answer(a, reply)
      BY <1>3, <2>2 DEF Insert
    <3>5. call'[a].reply = reply
      BY <1>1, <3>4 DEF Answer, Done, TypeOK
    <3> HIDE DEF e
    <3>6. QED
      BY <1>1, <1>3, <3>1, <3>3, <3>4, <3>5 DEF Insert, Ends, Replies, Refusals
  <2>3. QED
    BY <2>1, <2>2
<1>4. QED
  BY <1>2, <1>3

LEMMA UpdateMoves ==
  ASSUME IInv, NEW a \in Admins, FindToUpdate(a) \/ CheckName(a) \/ UpdateEntity(a)
  PROVE  Running(a) /\ rows' = rows /\ Observe /\ (Continues(a) \/ Ends(a))
<1>1. TypeOK /\ Running(a) /\ call[a] \in Call /\ Sound(call[a], moved[a], entry, rows)
      /\ call[a].op = "update"
  BY RunningIsCall DEF IInv, CallsSound, FindToUpdate, CheckName, UpdateEntity, At
<1>2. CASE FindToUpdate(a)
  <2> DEFINE found == entry[call[a].id]
             phase == IF call[a].name \notin {None, found.name} THEN "duplicate" ELSE "write"
  <2>1. CASE ~Live(found)
    <3>1. Answer(a, "notFound") /\ entry' = entry
      BY <1>2, <2>1 DEF FindToUpdate
    <3>2. True("notFound", call[a], entry, rows)
      BY <2>1 DEF True
    <3>3. QED
      BY <1>1, <1>2, <3>1, <3>2 DEF FindToUpdate, Ends, Replies, Refusals
  <2>2. CASE Live(found)
    <3>1. Goto(a, phase, found) /\ entry' = entry
      BY <1>2, <2>2 DEF FindToUpdate
    <3>2. found \in Entry /\ ~found.deleted /\ found # None
      BY <1>1, <2>2 DEF Live, TypeOK, Call
    <3>3. Sound(Asks(call[a], phase, found), moved[a], entry, rows)
      BY <1>1, <3>2 DEF Sound, Asks
    <3>4. phase \in {"duplicate", "holders", "write"}
      OBVIOUS
    <3>5. call' = [call EXCEPT ![a] = Asks(call[a], phase, found)]
      BY <1>1, <3>1, <3>2, <3>4 DEF Goto
    <3> HIDE DEF found, phase
    <3>6. Continues(a)
      BY <3>1, <3>2, <3>3, <3>4, <3>5 DEF Continues
    <3>7. QED
      BY <1>1, <1>2, <3>6 DEF FindToUpdate
  <2>3. QED
    BY <2>1, <2>2
<1>3. CASE CheckName(a)
  <2>1. CASE NameInUse(entry, call[a].name, call[a].id)
    <3>1. Answer(a, "alreadyExists") /\ entry' = entry
      BY <1>3, <2>1 DEF CheckName
    <3>2. True("alreadyExists", call[a], entry, rows)
      BY <1>1, <1>3, <2>1 DEF True, Sound, CheckName, At
    <3>3. QED
      BY <1>1, <1>3, <3>1, <3>2 DEF CheckName, Ends, Replies, Refusals
  <2>2. CASE ~NameInUse(entry, call[a].name, call[a].id)
    <3>1. Goto(a, "write", call[a].copy) /\ entry' = entry /\ call[a].phase = "duplicate"
      BY <1>3, <2>2 DEF CheckName, At
    <3>2. call[a].copy \in Entry
      BY <1>1, <3>1 DEF Sound
    <3>3. Sound(Asks(call[a], "write", call[a].copy), moved[a], entry, rows)
      BY <1>1, <3>1 DEF Sound, Asks
    <3>4. call' = [call EXCEPT ![a] = Asks(call[a], "write", call[a].copy)]
      BY <1>1, <3>1, <3>2 DEF Goto
    <3>5. Continues(a)
      BY <3>1, <3>2, <3>3, <3>4 DEF Continues
    <3>6. QED
      BY <1>1, <1>3, <3>5 DEF CheckName
  <2>3. QED
    BY <2>1, <2>2
<1>4. CASE UpdateEntity(a)
  <2> DEFINE new == Assign(call[a].copy, call[a])
  <2>0. call[a].copy \in Entry /\ entry[call[a].id] # None /\ entry[call[a].id] \in Entry
    BY <1>1, <1>4 DEF Sound, UpdateEntity, At, TypeOK, Call
  <2>1. new \in Entry
    BY <1>1, <2>0, AssignIsEntry
  <2>2. CASE Indexed(new.name, call[a].id)
    BY <1>1, <1>4, <2>2 DEF UpdateEntity, Ends, Replies, Refusals
  <2>3. CASE ~Indexed(new.name, call[a].id)
    <3>1. PICK deleted \in {FALSE, entry[call[a].id].deleted} :
            entry' = [entry EXCEPT ![call[a].id] = [new EXCEPT !.deleted = deleted]]
      BY <1>4, <2>3 DEF UpdateEntity
    <3> DEFINE e == [new EXCEPT !.deleted = deleted]
    <3>2. deleted \in BOOLEAN
      BY <2>0 DEF Entry
    <3> HIDE DEF new
    <3>3. e \in Entry /\ e.name = new.name
      BY <2>1, <3>2 DEF Entry
    <3>4. Puts(a, e)
      BY <1>1, <2>0, <2>3, <3>1, <3>3 DEF Puts, Indexed
    <3> HIDE DEF e
    <3>5. PICK reply \in {"ok", "error"} : Answer(a, reply)
      BY <1>4, <2>3 DEF UpdateEntity, new
    <3>6. call'[a].reply = reply
      BY <1>1, <3>5 DEF Answer, Done, TypeOK
    <3>7. QED
      BY <1>1, <1>4, <3>3, <3>4, <3>5, <3>6 DEF UpdateEntity, Ends, Replies, Refusals
  <2>4. QED
    BY <2>2, <2>3
<1>5. QED
  BY <1>2, <1>3, <1>4

LEMMA DeleteMoves ==
  ASSUME IInv, NEW a \in Admins, FindToDelete(a) \/ CheckHolders(a) \/ SoftDelete(a)
  PROVE  Running(a) /\ rows' = rows /\ Observe /\ (Continues(a) \/ Ends(a))
<1>1. TypeOK /\ Running(a) /\ call[a] \in Call /\ Sound(call[a], moved[a], entry, rows)
      /\ call[a].op = "delete"
  BY RunningIsCall DEF IInv, CallsSound, FindToDelete, CheckHolders, SoftDelete, At
<1>2. CASE FindToDelete(a)
  <2>1. CASE Live(entry[call[a].id])
    <3>1. Goto(a, "holders", None) /\ entry' = entry
      BY <1>2, <2>1 DEF FindToDelete
    <3>2. Sound(Asks(call[a], "holders", None), moved[a], entry, rows)
      BY <1>1, <2>1 DEF Sound, Asks, Live
    <3>3. QED
      BY <1>1, <1>2, <3>1, <3>2 DEF Goto, FindToDelete, Continues
  <2>2. CASE ~Live(entry[call[a].id])
    <3>1. Answer(a, "notFound") /\ entry' = entry
      BY <1>2, <2>2 DEF FindToDelete
    <3>2. True("notFound", call[a], entry, rows)
      BY <2>2 DEF True
    <3>3. QED
      BY <1>1, <1>2, <3>1, <3>2 DEF FindToDelete, Ends, Replies, Refusals
  <2>3. QED
    BY <2>1, <2>2
<1>3. CASE CheckHolders(a)
  <2>1. CASE Assigned(rows, call[a].id)
    <3>1. Answer(a, "inUse") /\ entry' = entry
      BY <1>3, <2>1 DEF CheckHolders
    <3>2. True("inUse", call[a], entry, rows)
      BY <2>1 DEF True
    <3>3. QED
      BY <1>1, <1>3, <3>1, <3>2 DEF CheckHolders, Ends, Replies, Refusals
  <2>2. CASE ~Assigned(rows, call[a].id)
    <3>1. Goto(a, "write", None) /\ entry' = entry
      BY <1>3, <2>2 DEF CheckHolders
    <3>2. Sound(Asks(call[a], "write", None), moved[a], entry, rows)
      BY <1>1, <1>3, <2>2 DEF Sound, Asks, CheckHolders, At
    <3>3. QED
      BY <1>1, <1>3, <3>1, <3>2 DEF Goto, CheckHolders, Continues
  <2>3. QED
    BY <2>1, <2>2
<1>4. CASE SoftDelete(a)
  <2> DEFINE i == call[a].id
             e == [entry[i] EXCEPT !.deleted = TRUE]
  <2>1. i \in Ids /\ entry[i] # None /\ entry[i] \in Entry
    BY <1>1, <1>4 DEF Sound, SoftDelete, At, TypeOK, Call
  <2>2. e \in Entry /\ e.name = entry[i].name
    BY <2>1 DEF Entry
  <2>3. entry' = [entry EXCEPT ![i] = e]
    BY <1>1, <1>4, <2>1 DEF SoftDelete, TypeOK
  <2> HIDE DEF e
  <2>4. Puts(a, e)
    BY <1>1, <2>1, <2>2, <2>3 DEF Puts, IInv, NamesUnique
  <2>5. PICK reply \in {"ok", "error"} : Answer(a, reply)
    BY <1>4 DEF SoftDelete
  <2>6. call'[a].reply = reply
    BY <1>1, <2>5 DEF Answer, Done, TypeOK
  <2>7. QED
    BY <1>1, <1>4, <2>2, <2>4, <2>5, <2>6 DEF SoftDelete, Ends, Replies, Refusals
<1>5. QED
  BY <1>2, <1>3, <1>4

LEMMA StepMoves ==
  ASSUME IInv, NEW a \in Admins, Step(a)
  PROVE  Running(a) /\ rows' = rows /\ Observe /\ (Continues(a) \/ Ends(a))
<1>1. CASE \E op \in {"create", "update", "delete"} : StatementFails(a, op)
  BY <1>1 DEF StatementFails, Ends, Replies, Refusals
<1>2. QED
  BY <1>1, CreateMoves, UpdateMoves, DeleteMoves DEF Step

-----------------------------------------------------------------------------
(* Every step keeps the invariant. *)

LEMMA StepKeepsKind == ASSUME NEW a \in Admins, Step(a) PROVE kind' = kind
BY DEF Step, CheckNewName, Insert, FindToUpdate, CheckName, UpdateEntity, FindToDelete,
       CheckHolders, SoftDelete, StatementFails

LEMMA ObserveTypes ==
  ASSUME TypeOK, Observe
  PROVE  grounds' \in [Admins -> SUBSET Refusals] /\ moved' \in [Admins -> BOOLEAN]
<1>1. grounds' \in [Admins -> SUBSET Refusals]
  BY DEF Observe, TypeOK
<1>2. \A a \in Admins : (Running(a)' /\ (moved[a] \/ Stale(call[a]))) \in BOOLEAN
  OBVIOUS
<1>3. moved' \in [Admins -> BOOLEAN]
  BY <1>2 DEF Observe
<1>4. QED
  BY <1>1, <1>3

\* What a step leaves of the calls and the entries.
LEMMA StepTypes ==
  ASSUME IInv, NEW a \in Admins, Step(a)
  PROVE  /\ TypeOK'
         /\ \A b \in Admins \ {a} : call'[b] = call[b]
         /\ \A i \in Ids : entry[i] # None => entry'[i] # None
<1>1. TypeOK /\ Running(a) /\ rows' = rows /\ Observe /\ kind' = kind /\ call[a] \in Call
  BY StepMoves, StepKeepsKind, RunningIsCall DEF IInv
<1>2. CASE Continues(a)
  <2>1. PICK phase \in {"duplicate", "holders", "write"}, copy \in Entry \cup {None} :
          call' = [call EXCEPT ![a] = Asks(call[a], phase, copy)]
    BY <1>2 DEF Continues
  <2>2. Asks(call[a], phase, copy) \in Call
    BY <1>1, AsksIsCall
  <2>3. QED
    BY <1>1, <1>2, <2>1, <2>2, ObserveTypes DEF Continues, TypeOK
<1>3. CASE Ends(a)
  <2>1. PICK reply \in Replies : call' = [call EXCEPT ![a] = Done(reply)]
    BY <1>3 DEF Ends, Answer
  <2>2. \/ entry' = entry
        \/ \E e \in Entry : entry' = [entry EXCEPT ![call[a].id] = e]
    BY <1>3 DEF Ends, Puts
  <2>3. entry' \in [Ids -> Entry \cup {None}]
        /\ \A i \in Ids : entry[i] # None => entry'[i] # None
    BY <1>1, <2>2, EntryIsSome DEF TypeOK
  <2>4. QED
    BY <1>1, <2>1, <2>3, ObserveTypes DEF TypeOK
<1>4. QED
  BY <1>2, <1>3, StepMoves

LEMMA ContinuesRuns ==
  ASSUME TypeOK, NEW a \in Admins, Continues(a)
  PROVE  Running(a)' /\ call'[a].id = call[a].id /\ call'[a].op = call[a].op
<1>1. PICK phase \in {"duplicate", "holders", "write"}, copy \in Entry \cup {None} :
        call' = [call EXCEPT ![a] = Asks(call[a], phase, copy)]
  BY DEF Continues
<1>2. call'[a] = Asks(call[a], phase, copy)
  BY <1>1 DEF TypeOK
<1>3. QED
  BY <1>2 DEF Asks, Running

LEMMA EndsIsDone ==
  ASSUME TypeOK, NEW a \in Admins, Ends(a)
  PROVE  ~Running(a)'
BY DEF Ends, Answer, Done, Running, TypeOK

LEMMA StepKeepsNames ==
  ASSUME IInv, NEW a \in Admins, Step(a)
  PROVE  NamesUnique'
<1>1. TypeOK /\ NamesUnique /\ Running(a) /\ call[a] \in Call
  BY StepMoves, RunningIsCall DEF IInv
<1>2. CASE entry' = entry
  BY <1>1, <1>2 DEF NamesUnique
<1>3. CASE \E e \in Entry : Puts(a, e)
  BY <1>1, <1>3 DEF NamesUnique, Puts, TypeOK, Call
<1>4. QED
  BY <1>2, <1>3, StepMoves DEF Continues, Ends

LEMMA StepKeepsRefusals ==
  ASSUME IInv, NEW a \in Admins, Step(a)
  PROVE  RefusalsWereTrue'
<1>1. TypeOK /\ RefusalsWereTrue /\ Running(a) /\ Observe /\ rows' = rows
  BY StepMoves DEF IInv
<1>2. SUFFICES ASSUME NEW b \in Admins, ~Running(b)', call'[b].reply \in Refusals
               PROVE  call'[b].reply \in grounds'[b]
  BY DEF RefusalsWereTrue
<1>3. CASE b # a
  <2>1. call'[b] = call[b]
    BY <1>3, StepTypes
  <2>2. ~Running(b) /\ grounds'[b] = grounds[b]
    BY <1>1, <1>2, <2>1 DEF Running, Observe
  <2>3. QED
    BY <1>1, <1>2, <2>1, <2>2 DEF RefusalsWereTrue
<1>4. CASE b = a
  <2>1. Ends(a)
    BY <1>1, <1>2, <1>4, StepMoves, ContinuesRuns
  <2>2. PICK reply \in Replies :
          Answer(a, reply) /\ (reply \in Refusals => True(reply, call[a], entry, rows))
    BY <2>1 DEF Ends
  <2>3. call'[a].reply = reply
    BY <1>1, <2>2 DEF Answer, Done, TypeOK
  <2>4. entry' = entry
    BY <1>2, <1>4, <2>1 DEF Ends, Refusals
  <2>5. True(reply, call[a], entry', rows')
    BY <1>1, <1>2, <1>4, <2>2, <2>3, <2>4
  <2>6. grounds'[a] = (grounds[a] \cup {why \in Refusals : True(why, call[a], entry', rows')})
                        \cap {call'[a].reply}
    BY <1>1, <1>2, <1>4 DEF Observe
  <2>7. QED
    BY <1>2, <1>4, <2>3, <2>5, <2>6
<1>5. QED
  BY <1>3, <1>4

\* A change of the tables that a's request does not make.
LEMMA OthersStaySound ==
  ASSUME TypeOK, CallsSound, Observe, NEW b \in Admins, Running(b), call'[b] = call[b],
         \A i \in Ids : entry[i] # None => entry'[i] # None,
         call[b].op = "create" => entry'[call[b].id] = entry[call[b].id]
  PROVE  Sound(call'[b], moved'[b], entry', rows')
<1>1. call[b] \in Call /\ call[b].id \in Ids
  BY RunningIsCall DEF Call
<1>2. Sound(call[b], moved[b], entry, rows)
  BY DEF CallsSound
<1>3. moved'[b] <=> moved[b] \/ Stale(call[b])
  BY DEF Observe, Running
<1>4. CASE call[b].op = "create"
  BY <1>2, <1>4 DEF Sound
<1>5. CASE call[b].op = "update"
  <2>1. CASE call[b].phase \in {"duplicate", "write"}
    <3>1. call[b].copy # None /\ call[b].copy \in Entry /\ entry[call[b].id] # None
      BY <1>2, <1>5, <2>1, EntryIsSome DEF Sound
    <3>2. moved'[b] \/ entry'[call[b].id] = call[b].copy
      BY <1>2, <1>3, <1>5, <2>1, <3>1 DEF Sound, Stale
    <3>3. QED
      BY <1>1, <1>2, <1>5, <2>1, <3>1, <3>2 DEF Sound
  <2>2. QED
    BY <1>2, <1>5, <2>1 DEF Sound
<1>6. CASE call[b].op = "delete"
  <2>1. call[b].phase = "write" => moved'[b] \/ ~Assigned(rows', call[b].id)
    BY <1>3, <1>6 DEF Stale
  <2>2. QED
    BY <1>1, <1>2, <1>6, <2>1 DEF Sound
<1>7. QED
  BY <1>1, <1>4, <1>5, <1>6 DEF Call

LEMMA StepKeepsSound ==
  ASSUME IInv, NEW a \in Admins, Step(a)
  PROVE  CallsSound'
<1>1. TypeOK /\ CallsSound /\ CreatesDiffer /\ Running(a) /\ Observe /\ rows' = rows
      /\ call[a] \in Call
  BY StepMoves, RunningIsCall DEF IInv
<1>2. SUFFICES ASSUME NEW b \in Admins, Running(b)'
               PROVE  Sound(call'[b], moved'[b], entry', rows')
  BY DEF CallsSound
<1>3. CASE b # a
  <2>1. call'[b] = call[b] /\ Running(b) /\ call[b] \in Call
    BY <1>1, <1>2, <1>3, StepTypes, RunningIsCall DEF Running
  <2>2. ASSUME call[b].op = "create"
        PROVE  entry'[call[b].id] = entry[call[b].id]
    <3>1. entry[call[b].id] = None
      BY <1>1, <2>1, <2>2 DEF CallsSound, Sound
    <3>2. CASE \E e \in Entry : Puts(a, e)
      <4>1. call[a].id # call[b].id
        BY <1>1, <1>3, <2>1, <2>2, <3>1, <3>2 DEF CreatesDiffer, Puts
      <4>2. QED
        BY <1>1, <2>1, <3>2, <4>1 DEF Puts, TypeOK, Call
    <3>3. QED
      BY <3>2, StepMoves DEF Continues, Ends
  <2>3. QED
    BY <1>1, <2>1, <2>2, StepTypes, OthersStaySound
<1>4. CASE b = a
  <2>1. Continues(a)
    BY <1>1, <1>2, <1>4, StepMoves, EndsIsDone
  <2>2. PICK phase \in {"duplicate", "holders", "write"}, copy \in Entry \cup {None} :
          /\ call' = [call EXCEPT ![a] = Asks(call[a], phase, copy)]
          /\ Sound(Asks(call[a], phase, copy), moved[a], entry, rows)
    BY <2>1 DEF Continues
  <2>3. call'[a] = Asks(call[a], phase, copy) /\ entry' = entry
    BY <1>1, <2>1, <2>2 DEF TypeOK, Continues
  <2>4. moved[a] => moved'[a]
    BY <1>1, <1>2, <1>4 DEF Observe, Running
  <2>5. QED
    BY <1>1, <1>4, <2>2, <2>3, <2>4 DEF Sound
<1>5. QED
  BY <1>3, <1>4

LEMMA StepKeepsCreates ==
  ASSUME IInv, NEW a \in Admins, Step(a)
  PROVE  CreatesDiffer'
<1>1. TypeOK /\ CreatesDiffer /\ Running(a)
  BY StepMoves DEF IInv
<1>2. \A b \in Admins : Running(b)' =>
        Running(b) /\ call'[b].id = call[b].id /\ call'[b].op = call[b].op
  <2> SUFFICES ASSUME NEW b \in Admins, Running(b)'
               PROVE  Running(b) /\ call'[b].id = call[b].id /\ call'[b].op = call[b].op
    OBVIOUS
  <2>1. CASE b # a
    BY <2>1, StepTypes DEF Running
  <2>2. CASE b = a
    BY <1>1, <2>2, StepMoves, ContinuesRuns, EndsIsDone
  <2>3. QED
    BY <2>1, <2>2
<1>3. QED
  BY <1>1, <1>2 DEF CreatesDiffer

LEMMA StepKeepsInv ==
  ASSUME IInv, NEW a \in Admins, Step(a)
  PROVE  IInv'
BY StepTypes, StepKeepsNames, StepKeepsRefusals, StepKeepsSound, StepKeepsCreates DEF IInv

LEMMA ArriveKeepsInv ==
  ASSUME IInv, NEW a \in Admins, ArriveCreate(a) \/ ArriveUpdate(a) \/ ArriveDelete(a),
         kind' = kind
  PROVE  IInv'
<1>1. TypeOK /\ NamesUnique /\ RefusalsWereTrue /\ CallsSound /\ CreatesDiffer
  BY DEF IInv
<1>2. PICK r \in Call :
        /\ Arrive(a, r)
        /\ r.op = "create" =>
             /\ r.name \in Names /\ r.info \in Infos /\ entry[r.id] = None /\ r.phase # "find"
             /\ \A b \in Admins : Running(b) => call[b].id # r.id
        /\ r.op # "create" => r.phase = "find"
        /\ r.phase # "done"
  <2>1. CASE ArriveCreate(a)
    <3>1. PICK i \in Ids, name \in Names, info \in Infos :
            /\ entry[i] = None
            /\ \A b \in Admins : Running(b) => call[b].id # i
            /\ Arrive(a, Request("create", i, name, info, "duplicate"))
      BY <2>1 DEF ArriveCreate
    <3>2. Request("create", i, name, info, "duplicate") \in Call
      BY DEF Request, Call
    <3>3. QED
      BY <3>1, <3>2 DEF Request
  <2>2. CASE ArriveUpdate(a)
    <3>1. PICK i \in Ids, name \in Names \cup {None}, info \in Infos \cup {None} :
            Arrive(a, Request("update", i, name, info, "find"))
      BY <2>2 DEF ArriveUpdate
    <3>2. Request("update", i, name, info, "find") \in Call
      BY DEF Request, Call
    <3>3. QED
      BY <3>1, <3>2 DEF Request
  <2>3. CASE ArriveDelete(a)
    <3>1. PICK i \in Ids : Arrive(a, Request("delete", i, None, None, "find"))
      BY <2>3 DEF ArriveDelete
    <3>2. Request("delete", i, None, None, "find") \in Call
      BY DEF Request, Call
    <3>3. QED
      BY <3>1, <3>2 DEF Request
  <2>4. QED
    BY <2>1, <2>2, <2>3
<1>3. /\ call' = [call EXCEPT ![a] = r] /\ ~Running(a)
      /\ entry' = entry /\ rows' = rows /\ moved' = moved
      /\ grounds' = [grounds EXCEPT ![a] = {why \in Refusals : True(why, r, entry, rows)}]
  BY <1>2 DEF Arrive
<1>4. /\ call'[a] = r /\ Running(a)'
      /\ \A b \in Admins \ {a} : call'[b] = call[b] /\ grounds'[b] = grounds[b]
  BY <1>1, <1>2, <1>3 DEF TypeOK, Running
<1>5. TypeOK'
  BY <1>1, <1>3 DEF TypeOK
<1>6. NamesUnique'
  BY <1>1, <1>3 DEF NamesUnique
<1>7. RefusalsWereTrue'
  BY <1>1, <1>4 DEF RefusalsWereTrue, Running
<1>8. CallsSound'
  <2> SUFFICES ASSUME NEW b \in Admins, Running(b)'
               PROVE  Sound(call'[b], moved[b], entry, rows)
    BY <1>3 DEF CallsSound
  <2>1. CASE b = a
    BY <1>2, <1>4, <2>1 DEF Sound
  <2>2. CASE b # a
    BY <1>1, <1>4, <2>2 DEF CallsSound, Running
  <2>3. QED
    BY <2>1, <2>2
<1>9. CreatesDiffer'
  BY <1>1, <1>2, <1>4 DEF CreatesDiffer, Running
<1>10. QED
  BY <1>5, <1>6, <1>7, <1>8, <1>9 DEF IInv

LEMMA AssignmentsKeepInv ==
  ASSUME IInv, AssignmentsChange
  PROVE  IInv'
<1>1. /\ TypeOK /\ NamesUnique /\ RefusalsWereTrue /\ CallsSound /\ CreatesDiffer
      /\ kind' = kind /\ entry' = entry /\ call' = call /\ Observe
  BY DEF IInv, AssignmentsChange
<1>2. rows' \subseteq Owners \X Ids
  BY <1>1 DEF AssignmentsChange, TypeOK
<1>3. TypeOK'
  BY <1>1, <1>2, ObserveTypes DEF TypeOK
<1>4. RefusalsWereTrue'
  <2> SUFFICES ASSUME NEW b \in Admins, ~Running(b), call[b].reply \in Refusals
               PROVE  call[b].reply \in grounds'[b]
    BY <1>1 DEF RefusalsWereTrue, Running
  <2>1. grounds'[b] = grounds[b]
    BY <1>1 DEF Observe
  <2>2. QED
    BY <1>1, <2>1 DEF RefusalsWereTrue
<1>5. CallsSound'
  <2> SUFFICES ASSUME NEW b \in Admins, Running(b)
               PROVE  Sound(call'[b], moved'[b], entry', rows')
    BY <1>1 DEF CallsSound, Running
  <2>1. QED
    BY <1>1, OthersStaySound
<1>6. NamesUnique' /\ CreatesDiffer'
  BY <1>1 DEF NamesUnique, CreatesDiffer, Running
<1>7. QED
  BY <1>3, <1>4, <1>5, <1>6 DEF IInv

\* The two services, action by action.
LEMMA NextIsStep ==
  ASSUME Next
  PROVE  \/ \E a \in Admins : Step(a)
         \/ \E a \in Admins :
              (ArriveCreate(a) \/ ArriveUpdate(a) \/ ArriveDelete(a)) /\ kind' = kind
         \/ AssignmentsChange
BY DEF Next, Step, createRole, updateRole, deleteRole, createPermission, updatePermission,
       deletePermission, Create, Update, Delete, ArriveCreate, ArriveUpdate, ArriveDelete, Arrive

LEMMA InitHasInv == Init => IInv
<1> SUFFICES ASSUME Init PROVE IInv
  OBVIOUS
<1>1. \A a \in Admins : call[a] = Done("none")
  BY DEF Init
<1>2. \A a \in Admins : ~Running(a) /\ call[a].reply \notin Refusals
  BY <1>1 DEF Running, Done, Refusals
<1>3. TypeOK
  BY DEF Init, TypeOK, Replies
<1>4. RefusalsWereTrue /\ CallsSound /\ CreatesDiffer
  BY <1>2 DEF RefusalsWereTrue, CallsSound, CreatesDiffer
<1>5. NamesUnique
  BY DEF Init
<1>6. QED
  BY <1>3, <1>4, <1>5 DEF IInv

\* What the proofs rest on holds always: a call has seen of the table what its progress
\* says, and its record is sound.
THEOREM Invariant == Spec => []IInv
<1>1. IInv /\ UNCHANGED vars => IInv'
  BY DEF IInv, vars, TypeOK, NamesUnique, RefusalsWereTrue, CallsSound, CreatesDiffer, Running,
         Sound
<1>2. IInv /\ Next => IInv'
  BY NextIsStep, StepKeepsInv, ArriveKeepsInv, AssignmentsKeepInv
<1>3. QED
  BY <1>1, <1>2, InitHasInv, PTL DEF Spec

\* Entries, assignments and requests keep their types.
THEOREM TypeCorrect == Spec => []TypeOK
BY Invariant, PTL DEF IInv

\* The unique index keeps names apart, whatever the duplicate checks have seen.
THEOREM NamesStayUnique == Spec => []NamesUnique
BY Invariant, PTL DEF IInv

\* "Already exists", "not found" and "in use" were true while the request ran.
THEOREM RefusalsCorrect == Spec => []RefusalsWereTrue
BY Invariant, PTL DEF IInv

-----------------------------------------------------------------------------
(* What is written. *)

LEMMA EndsWhenAnswered ==
  ASSUME TypeOK, NEW a \in Admins, NEW reply, Answer(a, reply)
  PROVE  ~Running(a)'
BY DEF TypeOK, Answer, Done, Running

\* A step that changes an entry is the last one of a request for it.
LEMMA StepWrites ==
  ASSUME IInv, NEW a \in Admins, Step(a), NEW i \in Ids, entry'[i] # entry[i]
  PROVE  /\ Writes(a, i)
         /\ Live(entry[i]) /\ ~Live(entry'[i]) /\ Assigned(rows, i) => moved[a]
<1>1. TypeOK /\ Running(a) /\ call[a] \in Call /\ Sound(call[a], moved[a], entry, rows)
  BY StepMoves, RunningIsCall DEF IInv, CallsSound
<1>2. Insert(a) \/ UpdateEntity(a) \/ SoftDelete(a)
  BY DEF Step, CheckNewName, FindToUpdate, CheckName, FindToDelete, CheckHolders, StatementFails
<1>3. CASE Insert(a)
  <2> DEFINE e == [name |-> call[a].name, info |-> call[a].info, deleted |-> FALSE]
  <2>1. call[a].op = "create" /\ call[a].phase = "write" /\ entry[call[a].id] = None
    BY <1>1, <1>3 DEF Insert, At, Sound
  <2>2. entry' = [entry EXCEPT ![call[a].id] = e] /\ (Answer(a, "ok") \/ Answer(a, "error"))
    BY <1>3 DEF Insert
  <2>3. i = call[a].id /\ entry'[i] = e
    BY <1>1, <2>2 DEF TypeOK
  <2>4. e \in Entry /\ e.deleted = FALSE
    BY <1>1, <2>1 DEF Sound, Entry
  <2> HIDE DEF e
  <2>5. Live(entry'[i]) /\ ~Live(entry[i])
    BY <2>1, <2>3, <2>4, EntryIsSome DEF Live
  <2>6. ~Running(a)'
    BY <1>1, <2>2, EndsWhenAnswered
  <2>7. QED
    BY <1>1, <2>1, <2>3, <2>5, <2>6 DEF Writes
<1>4. CASE UpdateEntity(a)
  <2> DEFINE new == Assign(call[a].copy, call[a])
  <2>1. /\ call[a].op = "update" /\ call[a].phase = "write"
        /\ call[a].copy \in Entry /\ call[a].copy.deleted = FALSE
        /\ entry[call[a].id] \in Entry
        /\ moved[a] \/ entry[call[a].id] = call[a].copy
    BY <1>1, <1>4 DEF UpdateEntity, At, Sound, Entry, TypeOK, Call
  <2>2. new \in Entry /\ new.deleted = FALSE
    BY <1>1, <2>1, AssignIsEntry DEF Assign
  <2>3. Answer(a, "ok") \/ Answer(a, "error")
    BY <1>4 DEF UpdateEntity
  <2>4. PICK deleted \in {FALSE, entry[call[a].id].deleted} :
          entry' = [entry EXCEPT ![call[a].id] = [new EXCEPT !.deleted = deleted]]
    BY <1>4 DEF UpdateEntity
  <2> DEFINE e == [new EXCEPT !.deleted = deleted]
  <2>5. i = call[a].id /\ entry'[i] = e
    BY <1>1, <2>4 DEF TypeOK
  <2> HIDE DEF new
  <2>6. e.deleted = deleted /\ (deleted = FALSE => e = new)
    BY <2>2 DEF Entry
  <2>7. e \in Entry
    BY <2>1, <2>2 DEF Entry
  <2> HIDE DEF e
  <2>8. moved[a] \/ entry'[i] = Assign(entry[i], call[a])
    BY <2>1, <2>4, <2>5, <2>6 DEF new
  <2>9. Live(entry[i]) => Live(entry'[i])
    BY <2>4, <2>5, <2>6, <2>7, EntryIsSome DEF Live
  <2>10. ~Running(a)'
    BY <1>1, <2>3, EndsWhenAnswered
  <2>11. QED
    BY <1>1, <2>1, <2>5, <2>8, <2>9, <2>10 DEF Writes
<1>5. CASE SoftDelete(a)
  <2>1. /\ call[a].op = "delete" /\ call[a].phase = "write"
        /\ moved[a] \/ ~Assigned(rows, call[a].id)
    BY <1>1, <1>5 DEF SoftDelete, At, Sound
  <2>2. /\ entry' = [entry EXCEPT ![call[a].id].deleted = TRUE]
        /\ Answer(a, "ok") \/ Answer(a, "error")
    BY <1>5 DEF SoftDelete
  <2>3. i = call[a].id /\ entry'[i] = [entry[i] EXCEPT !.deleted = TRUE]
    BY <1>1, <2>2 DEF TypeOK
  <2>4. ~Running(a)'
    BY <1>1, <2>2, EndsWhenAnswered
  <2>5. QED
    BY <1>1, <2>1, <2>3, <2>4 DEF Writes
<1>6. QED
  BY <1>2, <1>3, <1>4, <1>5

LEMMA WriterSteps ==
  ASSUME IInv, Next, NEW i \in Ids, entry'[i] # entry[i]
  PROVE  \E a \in Admins : Step(a)
BY NextIsStep DEF ArriveCreate, ArriveUpdate, ArriveDelete, Arrive, AssignmentsChange

\* No update undoes another request's unless it was overtaken after it read the row,
\* and nothing but a request for the entry changes it.
THEOREM WritesExact == Spec => WritesAreExact
<1>1. IInv /\ [Next]_vars
        => [\A i \in Ids : entry'[i] # entry[i] => \E a \in Admins : Writes(a, i)]_vars
  BY WriterSteps, StepWrites
<1>2. QED
  BY <1>1, Invariant, PTL DEF Spec, WritesAreExact

\* What is assigned is deleted only by a request that looked before the assignment.
THEOREM AssignedKept == Spec => AssignedAreKept
<1>1. IInv /\ [Next]_vars
        => [\A i \in Ids : Live(entry[i]) /\ ~Live(entry'[i]) /\ Assigned(rows, i)
              => \E a \in Admins : Writes(a, i) /\ moved[a]]_vars
  BY WriterSteps, StepWrites
<1>2. QED
  BY <1>1, Invariant, PTL DEF Spec, AssignedAreKept

=============================================================================
