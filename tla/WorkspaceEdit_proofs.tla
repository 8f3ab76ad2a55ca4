------------------------ MODULE WorkspaceEdit_proofs ------------------------
(***************************************************************************)
(* The safety properties of a workspace edit, for any number of            *)
(* operations, saves by another program and failing calls.                 *)
(*                                                                         *)
(* Four facts carry them.  The undo journal holds the operations committed *)
(* so far, in their order.  The old content of a file nobody else changed  *)
(* is under the name that undoes its entry, or under its own.  The new     *)
(* content is at its target only with an entry, or where an entry could    *)
(* not be undone.  And a transaction that has met a save has failed: it    *)
(* only goes back, and compares before it touches anything.                *)
(***************************************************************************)
EXTENDS WorkspaceEdit, SequenceTheorems, FiniteSetTheorems, TLAPS

-----------------------------------------------------------------------------
(* The invariant *)

Phases == {"prepare", "stage", "revalidate", "commit", "tidy", "sync",
           "verify", "backups", "rollback", "done"}
Calls == {"verify", "absent", "backup", "remove", "install", "unstage",
          "compare", "restore", "drop"}
Failures == {"none", "prepare", "stage", "revalidate", "commit", "sync", "verify"}
Entries == [op : Ops, installed : BOOLEAN]

(* TypeOK in three parts: the transaction, the files, the rest.            *)
ControlOK ==
  /\ phase \in Phases /\ op \in Ops /\ todo \in Seq(Calls)
  /\ journal \in Seq(Entries) /\ failure \in Failures
  /\ complete \in BOOLEAN /\ reported \subseteq Names
FilesOK ==
  /\ dir \in [Names -> Contents \cup {None}]
  /\ content \in [Contents -> Contents]
RestOK ==
  /\ kinds \in [Ops -> Kinds] /\ stopped \in BOOLEAN
  /\ saves \in 0..MaxSaves /\ faults \in 0..MaxFaults
  /\ touched \subseteq Ops /\ met \subseteq Ops
  /\ noticed \subseteq Contents \cup {None}

Source(k) == <<"source", k>>
HasBackup(k) == kinds[k] \in {"update", "delete"}

(* An inode holds what it was made for or what a save has put there since, *)
(* and a name is linked to an inode of its own operation or of a save.     *)
Saved == {Other(n) : n \in 1..saves}

ContentsFit ==
  /\ \A c \in Contents : content[c] = c \/ content[c] \in Saved
  /\ \A n \in 1..MaxSaves : n > saves => content[Other(n)] = Other(n)

NamesFit(k) ==
  /\ dir[Stage(k)] \in {None, New(k)}
  /\ dir[Source(k)] \in {None, Old(k)} \cup Saved
  /\ dir[To(k)] \in {None, Old(k), New(k)} \cup Saved
  /\ dir[Backup(k)] \in {None, Old(k)} \cup Saved
  /\ Exists(Backup(k)) => HasBackup(k)
  /\ dir[To(k)] = New(k) => kinds[k] \in {"create", "update"}

DiskFits == ContentsFit /\ \A k \in Ops : NamesFit(k)

(* What is left of an operation before it has its entry in the journal,    *)
(* after that, and while the entry is undone.                              *)
Before(kind) ==
  CASE kind = "create" -> {<<"absent", "install", "unstage">>, <<"install", "unstage">>}
    [] kind = "update" -> {<<"verify", "backup", "remove", "install", "unstage">>,
                           <<"backup", "remove", "install", "unstage">>}
    [] kind = "delete" -> {<<"verify", "backup", "remove">>, <<"backup", "remove">>}
    [] kind = "rename" -> {<<"verify", "absent", "install", "remove">>,
                           <<"absent", "install", "remove">>, <<"install", "remove">>}
After(kind) ==
  CASE kind = "create" -> {<<"unstage">>}
    [] kind = "update" -> {<<"remove", "install", "unstage">>, <<"install", "unstage">>,
                           <<"unstage">>}
    [] kind = "delete" -> {<<"remove">>}
    [] kind = "rename" -> {<<"remove">>}
Undoings(kind) ==
  {<<"compare">>, <<"drop">>}
  \cup (IF kind = "create" THEN {} ELSE {<<"restore", "drop">>})
  \cup (IF kind \in {"update", "delete"} THEN {<<"remove", "restore", "drop">>} ELSE {})

(* The journal has an entry of each operation committed, in their order,   *)
(* and loses them from the end.                                            *)
Course ==
  /\ Len(journal) <= N /\ \A i \in 1..Len(journal) : journal[i].op = i
  /\ failure = "none" => complete
  /\ phase \in {"prepare", "stage", "revalidate"} => failure = "none" /\ journal = <<>>
  /\ phase = "prepare" => reported = {}
  /\ phase = "commit" =>
       /\ failure = "none"
       /\ \/ Len(journal) = op - 1 /\ todo \in Before(kinds[op])
          \/ Len(journal) = op /\ todo \in After(kinds[op])
  /\ phase \in {"verify", "backups"} => failure = "none"
  /\ phase \in {"tidy", "sync", "verify", "backups", "done"} =>
       IF failure = "none" THEN Len(journal) = N ELSE journal = <<>>
  /\ phase = "rollback" =>
       /\ failure # "none" /\ Len(journal) > 0
       /\ todo \in Undoings(kinds[Len(journal)])

(* A file that no other program has changed is under the name that undoes  *)
(* its entry, or still, or again, under its own.                           *)
Kept(k) ==
  /\ content[Old(k)] = Old(k) /\ content[New(k)] = New(k)
  /\ kinds[k] # "create" =>
       /\ k <= Len(journal) /\ phase \notin {"backups", "done"} => dir[Spare(k)] = Old(k)
       /\ phase = "rollback" /\ k = Len(journal) /\ todo = <<"drop">> => dir[From(k)] = Old(k)
       /\ k > Len(journal) => \/ dir[From(k)] = Old(k)
                              \/ failure # "none" /\ dir[Spare(k)] = Old(k)

(* An undisturbed operation is untouched without an entry and made with    *)
(* one, once its calls are behind it.                                      *)
Original(k) ==
  /\ kinds[k] # "create" => dir[From(k)] = Old(k)
  /\ kinds[k] \in {"create", "rename"} => dir[To(k)] = None
Made(k) ==
  /\ kinds[k] \in {"create", "update"} => dir[To(k)] = New(k)
  /\ kinds[k] = "delete" => dir[To(k)] = None
  /\ kinds[k] = "rename" => dir[From(k)] = None /\ dir[To(k)] = Old(k)
Settled(k) ==
  k <= Len(journal) /\ (phase = "commit" /\ k = op => Head(todo) = "unstage")

Followed(k) ==
  /\ k > Len(journal) /\ complete => Original(k)
  /\ failure = "none" /\ Settled(k) => Made(k)

(* The Agent's content is at a target only with an entry, or where an      *)
(* entry could not be undone.                                              *)
Gone(k) == dir[To(k)] = New(k) => content[New(k)] # New(k)
NewIsKnown(k) ==
  /\ k > Len(journal) /\ complete => Gone(k)
  /\ failure = "none" /\ dir[To(k)] = New(k) => k <= Len(journal)
  /\ phase = "rollback" /\ k = Len(journal) /\ kinds[k] # "create"
       /\ Head(todo) \in {"restore", "drop"} => Gone(k)

(* A stage is still to be removed, or it is named; a backup has an entry,  *)
(* or it is named.                                                         *)
Leftover(k) ==
  /\ Exists(Stage(k)) =>
       \/ phase \in {"stage", "revalidate", "commit", "rollback"}
       \/ phase = "tidy" /\ k >= op
       \/ Stage(k) \in reported
  /\ Exists(Backup(k)) =>
       \/ k <= Len(journal) /\ phase # "done" /\ ~(phase = "backups" /\ k < op)
       \/ Backup(k) \in reported /\ (failure # "none" \/ phase \in {"backups", "done"})

(* The transaction that has seen a save has failed, and while it undoes an *)
(* entry it has not seen a save under the names of the entry.              *)
Known ==
  /\ \A n \in 1..MaxSaves : Other(n) \in noticed => n <= saves /\ failure # "none"
  /\ phase = "rollback" /\ Head(todo) # "compare" =>
       \A name \in Paths(Len(journal)) \cup {Backup(Len(journal))} :
         \A n \in 1..MaxSaves : Content(name) = Other(n) => Other(n) \notin noticed

AllKept == \A k \in Ops \ touched : Kept(k)
AllFollowed == \A k \in Undisturbed : Followed(k)
AllKnown == \A k \in Ops : NewIsKnown(k)
AllLeft == \A k \in Ops : Leftover(k)
FilesFit == AllKept /\ AllFollowed /\ AllKnown /\ AllLeft

IInv == TypeOK /\ Course /\ DiskFits /\ FilesFit /\ Known

-----------------------------------------------------------------------------
(* Operations, sequences and contents *)

LEMMA TypesFit == TypeOK <=> ControlOK /\ FilesOK /\ RestOK
BY DEF TypeOK, ControlOK, FilesOK, RestOK, Phases, Calls, Failures, Entries

LEMMA TypesFitAfter == ControlOK' /\ FilesOK' /\ RestOK' => TypeOK'
BY DEF TypeOK, ControlOK, FilesOK, RestOK, Phases, Calls, Failures, Entries

LEMMA OpsFit ==
  /\ N \in Nat /\ N >= 1 /\ 1 \in Ops
  /\ \A k : k \in Ops <=> k \in Nat /\ 1 <= k /\ k <= N
BY EditAssumption DEF Ops

LEMMA FrontFits ==
  ASSUME NEW S, NEW s \in Seq(S), Len(s) > 0
  PROVE  /\ Front(s) \in Seq(S) /\ Len(Front(s)) = Len(s) - 1
         /\ \A i \in 1..Len(s) - 1 : Front(s)[i] = s[i]
<1>1. Front(s) = SubSeq(s, 1, Len(s) - 1)
  BY DEF Front
<1>2. Len(s) - 1 \in Nat /\ Len(s) - 1 <= Len(s)
  OBVIOUS
<1>3. PICK n \in Nat : n = Len(s) - 1
  BY <1>2
<1>4. /\ SubSeq(s, 1, n) \in Seq(S) /\ Len(SubSeq(s, 1, n)) = n
      /\ \A i \in 1..n : SubSeq(s, 1, n)[i] = s[i]
  BY <1>2, <1>3
<1> QED
  BY <1>1, <1>3, <1>4

LEMMA AppendFits ==
  ASSUME NEW S, NEW s \in Seq(S), NEW e \in S
  PROVE  /\ Append(s, e) \in Seq(S) /\ Len(Append(s, e)) = Len(s) + 1
         /\ \A i \in 1..Len(s) : Append(s, e)[i] = s[i]
         /\ Append(s, e)[Len(s) + 1] = e
OBVIOUS

LEMMA EmptyFits ==
  ASSUME NEW S
  PROVE  <<>> \in Seq(S) /\ Len(<<>>) = 0
OBVIOUS

LEMMA Apart ==
  ASSUME NEW k \in Ops, NEW n \in 1..MaxSaves
  PROVE  /\ None # Old(k) /\ None # New(k) /\ None # Other(n)
         /\ Old(k) \in Contents /\ New(k) \in Contents /\ Other(n) \in Contents
         /\ Old(k) # New(k) /\ Old(k) # Other(n) /\ New(k) # Other(n)
BY EditAssumption DEF Old, New, Other, Contents

LEMMA OwnContents ==
  ASSUME NEW k \in Ops
  PROVE  /\ None # Old(k) /\ None # New(k) /\ Old(k) # New(k)
         /\ Old(k) \in Contents /\ New(k) \in Contents /\ None \notin Contents
         /\ \A j \in Ops : (Old(j) = Old(k) <=> j = k) /\ (New(j) = New(k) <=> j = k)
                           /\ New(j) # Old(k)
BY EditAssumption DEF Old, New, Contents

LEMMA SavedContents ==
  ASSUME RestOK
  PROVE  /\ Saved \subseteq Contents
         /\ \A k \in Ops : Old(k) \notin Saved /\ New(k) \notin Saved
         /\ None \notin Saved
         /\ \A n \in 1..MaxSaves : Other(n) \in Saved <=> n <= saves
BY EditAssumption DEF RestOK, Saved, Contents, Old, New, Other

LEMMA OwnNames ==
  ASSUME NEW k \in Ops
  PROVE  /\ Stage(k) \in Names /\ Source(k) \in Names /\ To(k) \in Names /\ Backup(k) \in Names
         /\ From(k) = IF kinds[k] = "rename" THEN Source(k) ELSE To(k)
         /\ From(k) \in Names /\ Spare(k) \in Names
         /\ Paths(k) = {From(k), To(k)}
BY DEF Stage, Source, To, From, Backup, Names, Places, Paths, Spare

-----------------------------------------------------------------------------
(* The course of the transaction *)

LEMMA StepsFit ==
  ASSUME NEW kind \in Kinds
  PROVE  StepsOf(kind) \in Seq(Calls) /\ StepsOf(kind) \in Before(kind)
<1>1. CASE kind = "create"
  BY <1>1 DEF StepsOf, Before, Calls
<1>2. CASE kind = "update"
  BY <1>2 DEF StepsOf, Before, Calls
<1>3. CASE kind = "delete"
  BY <1>3 DEF StepsOf, Before, Calls
<1>4. CASE kind = "rename"
  BY <1>4 DEF StepsOf, Before, Calls
<1> QED
  BY <1>1, <1>2, <1>3, <1>4 DEF Kinds

LEMMA Entering ==
  ASSUME RestOK, NEW p, Enter(p)
  PROVE  /\ phase' = p /\ op' = 1 /\ op' \in Ops /\ todo' \in Seq(Calls)
         /\ p = "commit" => todo' \in Before(kinds[1])
         /\ p = "rollback" => todo' = <<"compare">>
<1>1. kinds[1] \in Kinds
  BY OpsFit DEF RestOK
<1>2. phase' = p /\ op' = 1
  BY DEF Enter
<1>3. CASE p = "commit"
  BY <1>1, <1>2, <1>3, OpsFit, StepsFit DEF Enter
<1>4. CASE p = "rollback"
  <2>1. <<"compare">> \in Seq(Calls)
    BY DEF Calls
  <2> QED
    BY <1>2, <1>4, <2>1, OpsFit DEF Enter
<1>5. CASE p \notin {"commit", "rollback"}
  <2>1. <<>> \in Seq(Calls)
    OBVIOUS
  <2> QED
    BY <1>2, <1>5, <2>1, OpsFit DEF Enter
<1> QED
  BY <1>3, <1>4, <1>5

LEMMA GoingOn ==
  ASSUME RestOK, op \in Ops, NEW p, NEW q, NextOp(p, q)
  PROVE  \/ /\ op = N /\ phase' = q /\ op' = 1 /\ op' \in Ops /\ todo' \in Seq(Calls)
            /\ q = "commit" => todo' \in Before(kinds[1])
         \/ /\ op < N /\ phase' = p /\ op' = op + 1 /\ op' \in Ops /\ todo' \in Seq(Calls)
            /\ p = "commit" => todo' \in Before(kinds[op + 1])
<1>1. CASE op = N
  BY <1>1, Entering DEF NextOp
<1>2. CASE op # N
  <2>1. op + 1 \in Ops /\ op < N
    BY <1>2, OpsFit
  <2>2. kinds[op + 1] \in Kinds
    BY <2>1 DEF RestOK
  <2>3. phase' = p /\ op' = op + 1
    BY <1>2 DEF NextOp
  <2>4. CASE p = "commit"
    BY <1>2, <2>1, <2>2, <2>3, <2>4, StepsFit DEF NextOp
  <2>5. CASE p # "commit"
    <3>1. <<>> \in Seq(Calls)
      OBVIOUS
    <3> QED
      BY <1>2, <2>1, <2>3, <2>5, <3>1 DEF NextOp
  <2> QED
    BY <2>4, <2>5
<1> QED
  BY <1>1, <1>2

(* The call a commit is at tells where it is.                              *)
Halfway(kind, rest, entries) ==
  /\ rest \in Seq(Calls) /\ Len(rest) > 0
  /\ Head(rest) \in {"verify", "absent", "backup", "remove", "install", "unstage"}
  /\ Head(rest) = "verify" =>
       /\ kind # "create" /\ entries = 0 /\ Len(rest) > 1 /\ Tail(rest) \in Before(kind)
  /\ Head(rest) = "absent" =>
       /\ kind \in {"create", "rename"} /\ entries = 0
       /\ Len(rest) > 1 /\ Tail(rest) \in Before(kind)
  /\ Head(rest) = "backup" =>
       /\ kind \in {"update", "delete"} /\ entries = 0
       /\ Len(rest) > 1 /\ Tail(rest) \in After(kind) /\ Head(Tail(rest)) = "remove"
  /\ Head(rest) = "remove" =>
       /\ kind # "create" /\ entries = 1
       /\ kind = "update" => /\ Len(rest) > 1 /\ Tail(rest) \in After(kind)
                             /\ Head(Tail(rest)) = "install"
       /\ kind # "update" => Len(rest) = 1
  /\ Head(rest) = "install" =>
       /\ kind # "delete" /\ entries = IF kind = "update" THEN 1 ELSE 0
       /\ Len(rest) > 1 /\ Tail(rest) \in After(kind)
       /\ Head(Tail(rest)) = IF kind = "rename" THEN "remove" ELSE "unstage"
  /\ Head(rest) = "unstage" =>
       /\ kind \in {"create", "update"} /\ entries = 1 /\ Len(rest) = 1

LEMMA HalfwayThere ==
  ASSUME NEW kind \in Kinds, NEW rest, NEW entries,
         \/ entries = 0 /\ rest \in Before(kind)
         \/ entries = 1 /\ rest \in After(kind)
  PROVE  Halfway(kind, rest, entries)
<1>1. CASE kind = "create"
  <2>1. CASE entries = 0 /\ rest = <<"absent", "install", "unstage">>
    BY <1>1, <2>1 DEF Halfway, Before, After, Calls
  <2>2. CASE entries = 0 /\ rest = <<"install", "unstage">>
    BY <1>1, <2>2 DEF Halfway, Before, After, Calls
  <2>3. CASE entries = 1 /\ rest = <<"unstage">>
    BY <1>1, <2>3 DEF Halfway, Before, After, Calls
  <2> QED
    BY <1>1, <2>1, <2>2, <2>3 DEF Before, After
<1>2. CASE kind = "update"
  <2>1. CASE entries = 0 /\ rest = <<"verify", "backup", "remove", "install", "unstage">>
    BY <1>2, <2>1 DEF Halfway, Before, After, Calls
  <2>2. CASE entries = 0 /\ rest = <<"backup", "remove", "install", "unstage">>
    BY <1>2, <2>2 DEF Halfway, Before, After, Calls
  <2>3. CASE entries = 1 /\ rest = <<"remove", "install", "unstage">>
    BY <1>2, <2>3 DEF Halfway, Before, After, Calls
  <2>4. CASE entries = 1 /\ rest = <<"install", "unstage">>
    BY <1>2, <2>4 DEF Halfway, Before, After, Calls
  <2>5. CASE entries = 1 /\ rest = <<"unstage">>
    BY <1>2, <2>5 DEF Halfway, Before, After, Calls
  <2> QED
    BY <1>2, <2>1, <2>2, <2>3, <2>4, <2>5 DEF Before, After
<1>3. CASE kind = "delete"
  <2>1. CASE entries = 0 /\ rest = <<"verify", "backup", "remove">>
    BY <1>3, <2>1 DEF Halfway, Before, After, Calls
  <2>2. CASE entries = 0 /\ rest = <<"backup", "remove">>
    BY <1>3, <2>2 DEF Halfway, Before, After, Calls
  <2>3. CASE entries = 1 /\ rest = <<"remove">>
    BY <1>3, <2>3 DEF Halfway, Before, After, Calls
  <2> QED
    BY <1>3, <2>1, <2>2, <2>3 DEF Before, After
<1>4. CASE kind = "rename"
  <2>1. CASE entries = 0 /\ rest = <<"verify", "absent", "install", "remove">>
    BY <1>4, <2>1 DEF Halfway, Before, After, Calls
  <2>2. CASE entries = 0 /\ rest = <<"absent", "install", "remove">>
    BY <1>4, <2>2 DEF Halfway, Before, After, Calls
  <2>3. CASE entries = 0 /\ rest = <<"install", "remove">>
    BY <1>4, <2>3 DEF Halfway, Before, After, Calls
  <2>4. CASE entries = 1 /\ rest = <<"remove">>
    BY <1>4, <2>4 DEF Halfway, Before, After, Calls
  <2> QED
    BY <1>4, <2>1, <2>2, <2>3, <2>4 DEF Before, After
<1> QED
  BY <1>1, <1>2, <1>3, <1>4 DEF Kinds

LEMMA AtCommit ==
  ASSUME TypeOK, Course, phase = "commit"
  PROVE  /\ op \in Ops /\ kinds[op] \in Kinds /\ failure = "none"
         /\ \/ Len(journal) = op - 1 /\ Halfway(kinds[op], todo, 0)
            \/ Len(journal) = op /\ Halfway(kinds[op], todo, 1)
<1>1. op \in Ops /\ kinds[op] \in Kinds
  BY TypesFit DEF ControlOK, RestOK
<1>2. CASE Len(journal) = op - 1 /\ todo \in Before(kinds[op])
  BY <1>1, <1>2, HalfwayThere DEF Course
<1>3. CASE Len(journal) = op /\ todo \in After(kinds[op])
  BY <1>1, <1>3, HalfwayThere DEF Course
<1> QED
  BY <1>1, <1>2, <1>3 DEF Course

(* The entry the rollback is at, and what is left to do for it.            *)
LEMMA AtEntry ==
  ASSUME TypeOK, Course, phase = "rollback"
  PROVE  /\ Len(journal) \in Ops /\ Entry \in Entries /\ Entry.op = Len(journal)
         /\ failure # "none" /\ kinds[Len(journal)] \in Kinds
         /\ Head(todo) \in {"compare", "remove", "restore", "drop"}
         /\ Head(todo) = "compare" => todo = <<"compare">>
         /\ Head(todo) = "remove" => /\ HasBackup(Len(journal)) /\ Len(todo) = 3
                                     /\ Tail(todo) = <<"restore", "drop">>
         /\ Head(todo) = "restore" => /\ kinds[Len(journal)] # "create" /\ Len(todo) = 2
                                      /\ Tail(todo) = <<"drop">>
         /\ Head(todo) = "drop" => Len(todo) = 1 /\ todo = <<"drop">>
<1>1. /\ journal \in Seq(Entries) /\ Len(journal) > 0 /\ Len(journal) <= N /\ failure # "none"
      /\ \A i \in 1..Len(journal) : journal[i].op = i
      /\ todo \in Undoings(kinds[Len(journal)])
  BY TypesFit DEF ControlOK, Course
<1>2. PICK n \in Nat : n = Len(journal)
  BY <1>1
<1>3. n \in Ops /\ n \in 1..Len(journal)
  BY <1>1, <1>2, OpsFit
<1>4. Entry = journal[n] /\ journal[n] \in Entries /\ journal[n].op = n
  BY <1>1, <1>2, <1>3 DEF Entry, Last
<1>5. kinds[n] \in Kinds
  BY <1>3, TypesFit DEF RestOK
<1>6. /\ Head(todo) \in {"compare", "remove", "restore", "drop"}
      /\ Head(todo) = "compare" => todo = <<"compare">>
      /\ Head(todo) = "remove" => /\ HasBackup(n) /\ Len(todo) = 3
                                  /\ Tail(todo) = <<"restore", "drop">>
      /\ Head(todo) = "restore" => /\ kinds[n] # "create" /\ Len(todo) = 2
                                   /\ Tail(todo) = <<"drop">>
      /\ Head(todo) = "drop" => Len(todo) = 1 /\ todo = <<"drop">>
  <2>1. CASE todo = <<"compare">>
    BY <2>1
  <2>2. CASE todo = <<"drop">>
    BY <2>2
  <2>3. CASE todo = <<"restore", "drop">> /\ kinds[n] # "create"
    BY <2>3
  <2>4. CASE todo = <<"remove", "restore", "drop">> /\ kinds[n] \in {"update", "delete"}
    BY <2>4 DEF HasBackup
  <2> QED
    BY <1>1, <1>2, <2>1, <2>2, <2>3, <2>4 DEF Undoings
<1> QED
  BY <1>1, <1>2, <1>3, <1>4, <1>5, <1>6

-----------------------------------------------------------------------------
(* What the parts of a step do to the course *)

Refused(stage) ==
  /\ failure' = stage /\ journal' = journal /\ complete' = complete /\ reported' = {}
  /\ op' = 1
  /\ \/ phase' = "rollback" /\ todo' = <<"compare">> /\ journal # <<>>
     \/ phase' = "tidy" /\ journal = <<>>
     \/ phase' = "done" /\ journal = <<>> /\ stage = "prepare"

LEMMA Refusing ==
  ASSUME TypeOK, Course, failure = "none", kinds' = kinds,
         NEW stage \in Failures \ {"none"}, Refuse(stage),
         stage \in {"prepare", "stage", "revalidate"} => journal = <<>>
  PROVE  ControlOK' /\ Course' /\ Refused(stage)
<1>1. /\ failure' = stage /\ journal' = journal /\ complete' = complete /\ reported' = {}
  BY DEF Refuse
<1>2. PICK p : /\ Enter(p)
               /\ p = CASE stage = "prepare" -> "done"
                        [] stage \in {"stage", "revalidate"} -> "tidy"
                        [] OTHER -> IF journal = <<>> THEN "tidy" ELSE "rollback"
  BY DEF Refuse
<1>3. \/ p = "rollback" /\ journal # <<>>
      \/ p = "tidy" /\ journal = <<>>
      \/ p = "done" /\ journal = <<>> /\ stage = "prepare"
  BY <1>2 DEF Failures
<1>4. /\ phase' = p /\ op' = 1 /\ op' \in Ops /\ todo' \in Seq(Calls)
      /\ p = "rollback" => todo' = <<"compare">>
  BY <1>2, Entering, TypesFit
<1>5. Refused(stage)
  BY <1>1, <1>3, <1>4 DEF Refused
<1>6. ControlOK'
  BY <1>1, <1>3, <1>4, TypesFit DEF ControlOK, Phases
<1>7. journal \in Seq(Entries) /\ (journal # <<>> => Len(journal) > 0)
  BY TypesFit DEF ControlOK
<1>8. Course'
  BY <1>1, <1>3, <1>4, <1>7 DEF Course, Undoings, Failures
<1> QED
  BY <1>5, <1>6, <1>8

Follows(p, q) ==
  <<p, q>> \in {<<"prepare", "stage">>, <<"stage", "revalidate">>, <<"revalidate", "commit">>,
                <<"verify", "backups">>}

LEMMA Proceeding ==
  ASSUME TypeOK, Course, failure = "none", kinds' = kinds,
         NEW p, NEW q, Follows(p, q), phase = p, Proceed(p, q)
  PROVE  /\ ControlOK' /\ Course'
         /\ failure' = failure /\ journal' = journal /\ complete' = complete /\ reported' = reported
         /\ phase' = p \/ (phase' = q /\ op' = 1)
<1>1. /\ failure' = failure /\ journal' = journal /\ complete' = complete /\ reported' = reported
      /\ NextOp(p, q)
  BY DEF Proceed
<1>2. op \in Ops /\ RestOK /\ ControlOK
  BY TypesFit DEF ControlOK
<1>3. /\ op' \in Ops /\ todo' \in Seq(Calls)
      /\ phase' = p \/ (phase' = q /\ op' = 1)
      /\ q = "commit" /\ phase' = q => todo' \in Before(kinds[1])
  BY <1>1, <1>2, GoingOn DEF Follows
<1>4. ControlOK'
  BY <1>1, <1>2, <1>3 DEF ControlOK, Phases, Follows
<1>5. journal = <<>> => Len(journal) = 0
  OBVIOUS
<1>6. CASE q = "commit" /\ phase' = q
  <2>1. journal = <<>> /\ Len(journal) = 0
    BY <1>5, <1>6 DEF Course, Follows
  <2>2. op' = 1 /\ todo' \in Before(kinds'[op']) /\ Len(journal') = op' - 1 /\ 0 <= N
    BY <1>1, <1>3, <1>6, <2>1, OpsFit DEF Follows
  <2> QED
    BY <1>1, <1>3, <1>4, <1>6, <2>1, <2>2 DEF Course
<1>7. CASE ~(q = "commit" /\ phase' = q)
  <2>1. CASE p = "prepare"
    BY <1>1, <1>3, <1>4, <1>7, <2>1 DEF Course, Follows
  <2>2. CASE p = "stage"
    BY <1>1, <1>3, <1>4, <1>7, <2>2 DEF Course, Follows
  <2>3. CASE p = "revalidate"
    BY <1>1, <1>3, <1>4, <1>7, <2>3 DEF Course, Follows
  <2>4. CASE p = "verify"
    BY <1>1, <1>3, <1>4, <1>7, <2>4 DEF Course, Follows
  <2> QED
    BY <2>1, <2>2, <2>3, <2>4 DEF Follows
<1> QED
  BY <1>1, <1>3, <1>4, <1>6, <1>7

LEMMA Continuing ==
  ASSUME TypeOK, Course, phase = "commit", kinds' = kinds, AfterStep,
         UNCHANGED <<failure, complete, reported>>,
         journal' \in Seq(Entries), \A i \in 1..Len(journal') : journal'[i].op = i,
         \/ Len(todo) = 1 /\ Len(journal') = op
         \/ /\ Len(todo) > 1
            /\ \/ Len(journal') = op - 1 /\ Tail(todo) \in Before(kinds[op])
               \/ Len(journal') = op /\ Tail(todo) \in After(kinds[op])
  PROVE  /\ ControlOK' /\ Course'
         /\ Len(todo) = 1 => \/ op = N /\ phase' = "tidy" /\ op' = 1
                             \/ op < N /\ phase' = "commit" /\ op' = op + 1
         /\ Len(todo) > 1 => phase' = "commit" /\ op' = op /\ todo' = Tail(todo)
<1>1. op \in Ops /\ RestOK /\ ControlOK /\ failure = "none"
  BY TypesFit, AtCommit DEF ControlOK
<1>2. op \in Nat /\ op >= 1 /\ op <= N /\ N \in Nat
  BY <1>1, OpsFit
<1>0. PICK left \in Nat : left = Len(todo)
  BY <1>1 DEF ControlOK
<1>3. CASE left = 1
  <2>1. \/ op = N /\ phase' = "tidy" /\ op' = 1 /\ op' \in Ops /\ todo' \in Seq(Calls)
        \/ /\ op < N /\ phase' = "commit" /\ op' = op + 1 /\ op' \in Ops
           /\ todo' \in Seq(Calls) /\ todo' \in Before(kinds[op + 1])
    BY <1>0, <1>1, <1>3, GoingOn DEF AfterStep
  <2>2. Len(journal') = op
    BY <1>0, <1>3
  <2>3. ControlOK'
    BY <1>1, <2>1 DEF ControlOK, Phases
  <2>4. Course'
    BY <1>1, <1>2, <2>1, <2>2 DEF Course
  <2> QED
    BY <1>0, <1>3, <2>1, <2>3, <2>4
<1>4. CASE left > 1
  <2>1. phase' = "commit" /\ op' = op /\ todo' = Tail(todo)
    BY <1>0, <1>4 DEF AfterStep
  <2>2. Tail(todo) \in Seq(Calls)
    BY <1>0, <1>1, <1>4 DEF ControlOK
  <2>3. ControlOK'
    BY <1>1, <2>1, <2>2 DEF ControlOK
  <2>4. Len(journal') <= N
    BY <1>0, <1>2, <1>4
  <2>5. kinds'[op'] = kinds[op]
    BY <2>1
  <2>6. \/ Len(journal') = op' - 1 /\ todo' \in Before(kinds'[op'])
        \/ Len(journal') = op' /\ todo' \in After(kinds'[op'])
    BY <1>0, <1>4, <2>1, <2>5
  <2>7. Course'
    BY <1>1, <2>1, <2>4, <2>6 DEF Course
  <2> QED
    BY <1>0, <1>4, <2>1, <2>3, <2>7
<1> QED
  BY <1>0, <1>3, <1>4

LEMMA Ending ==
  ASSUME TypeOK, Course, phase = "rollback", kinds' = kinds,
         NEW undone \in BOOLEAN, EntryEnds(undone)
  PROVE  /\ ControlOK' /\ Course'
         /\ failure' = failure /\ Len(journal') = Len(journal) - 1
         /\ complete' = (complete /\ undone) /\ reported \subseteq reported'
         /\ \/ phase' = "tidy" /\ op' = 1
            \/ phase' = "rollback" /\ todo' = <<"compare">>
         /\ HasBackup(Len(journal)) /\ dir'[Backup(Len(journal))] # None =>
              Backup(Len(journal)) \in reported'
<1>1. PICK n \in Ops : n = Len(journal) /\ Entry.op = n /\ failure # "none"
  BY AtEntry
<1>2. ControlOK /\ RestOK /\ journal \in Seq(Entries) /\ n \in Nat /\ n > 0 /\ n <= N
  BY <1>1, TypesFit, OpsFit DEF ControlOK
<1>3. /\ journal' = Front(journal) /\ complete' = (complete /\ undone) /\ failure' = failure
      /\ Enter(IF Len(journal) = 1 THEN "tidy" ELSE "rollback")
      /\ reported' = IF HasBackup(n) /\ dir'[Backup(n)] # None
                     THEN reported \cup {Backup(n)} ELSE reported
  BY <1>1 DEF EntryEnds, Named, HasBackup
<1>4. /\ journal' \in Seq(Entries) /\ Len(journal') = n - 1
      /\ \A i \in 1..n - 1 : journal'[i] = journal[i]
  BY <1>1, <1>2, <1>3, FrontFits
<1>5. \A i \in 1..Len(journal') : journal'[i].op = i
  BY <1>1, <1>2, <1>4 DEF Course
<1>6. \/ /\ n = 1 /\ phase' = "tidy" /\ op' = 1 /\ op' \in Ops /\ todo' \in Seq(Calls)
      \/ /\ n > 1 /\ phase' = "rollback" /\ op' \in Ops /\ todo' \in Seq(Calls)
         /\ todo' = <<"compare">>
  BY <1>1, <1>2, <1>3, Entering
<1>7. ControlOK'
  <2>1. complete' \in BOOLEAN
    BY <1>2, <1>3 DEF ControlOK
  <2>2. reported' \subseteq Names
    BY <1>2, <1>3, OwnNames DEF ControlOK
  <2> QED
    BY <1>2, <1>3, <1>4, <1>6, <2>1, <2>2 DEF ControlOK, Phases
<1>8. n = 1 => journal' = <<>>
  BY <1>4
<1>9. Course'
  <2>1. CASE n = 1
    <3>1. Len(journal') = 0
      BY <1>4, <2>1
    <3>2. 0 <= N
      BY OpsFit
    <3> QED
      BY <1>1, <1>2, <1>3, <1>5, <1>6, <1>8, <2>1, <3>1, <3>2 DEF Course
  <2>2. CASE n > 1
    <3>1. Len(journal') > 0 /\ Len(journal') <= N
      <4>1. n - 1 > 0 /\ n - 1 <= N /\ N \in Nat
        BY <1>2, <2>2, OpsFit
      <4> QED
        BY <1>4, <4>1
    <3> QED
      BY <1>1, <1>2, <1>3, <1>5, <1>6, <2>2, <3>1 DEF Course, Undoings
  <2> QED
    BY <1>2, <2>1, <2>2
<1> QED
  BY <1>1, <1>3, <1>4, <1>6, <1>7, <1>9

-----------------------------------------------------------------------------
(* What the parts of a step do to the files *)

(* The name of operation k in one place gets the inode v.                  *)
Only(place, k, v) ==
  \A j \in Ops :
    /\ dir'[Stage(j)] = IF place = "stage" /\ j = k THEN v ELSE dir[Stage(j)]
    /\ dir'[Source(j)] = IF place = "source" /\ j = k THEN v ELSE dir[Source(j)]
    /\ dir'[To(j)] = IF place = "target" /\ j = k THEN v ELSE dir[To(j)]
    /\ dir'[Backup(j)] = IF place = "backup" /\ j = k THEN v ELSE dir[Backup(j)]

LEMMA Changing ==
  ASSUME TypeOK, content' = content, NEW place \in Places, NEW k \in Ops,
         NEW v \in Contents \cup {None}, dir' = [dir EXCEPT ![<<place, k>>] = v]
  PROVE  FilesOK' /\ Only(place, k, v)
<1>1. dir \in [Names -> Contents \cup {None}] /\ content \in [Contents -> Contents]
  BY TypesFit DEF FilesOK
<1>2. <<place, k>> \in Names
  BY DEF Names
<1>3. FilesOK'
  BY <1>1, <1>2 DEF FilesOK
<1>4. Only(place, k, v)
  BY <1>1, <1>2 DEF Only, Names, Places, Stage, Source, To, Backup
<1> QED
  BY <1>3, <1>4

LEMMA Contenting ==
  ASSUME TypeOK, NEW name \in Names
  PROVE  /\ dir[name] \in Contents \cup {None} /\ Content(name) \in Contents \cup {None}
         /\ Content(name) = None <=> dir[name] = None
         /\ dir[name] # None => Content(name) = content[dir[name]]
<1>1. /\ dir \in [Names -> Contents \cup {None}] /\ content \in [Contents -> Contents]
      /\ None \notin Contents
  BY TypesFit, EditAssumption DEF FilesOK
<1> QED
  BY <1>1 DEF Content

(* A content of the edit's own shows where it is.                          *)
LEMMA OwnContentTells ==
  ASSUME TypeOK, DiskFits, NEW name \in Names, NEW k \in Ops
  PROVE  /\ Content(name) = Old(k) => dir[name] = Old(k)
         /\ Content(name) = New(k) => dir[name] = New(k) /\ content[New(k)] = New(k)
<1>1. /\ dir[name] \in Contents \cup {None}
      /\ Content(name) = None <=> dir[name] = None
      /\ dir[name] # None => Content(name) = content[dir[name]]
  BY Contenting
<1>2. /\ Old(k) \notin Saved /\ New(k) \notin Saved /\ None # Old(k) /\ None # New(k)
  BY SavedContents, OwnContents, TypesFit
<1>3. \A c \in Contents : content[c] = c \/ content[c] \in Saved
  BY DEF DiskFits, ContentsFit
<1> QED
  BY <1>1, <1>2, <1>3

LEMMA DiskChanges ==
  ASSUME DiskFits, UNCHANGED <<kinds, content, saves>>,
         NEW place, NEW k \in Ops, NEW v, Only(place, k, v),
         place = "stage" => v \in {None, New(k)},
         place = "source" => v \in {None, Old(k)} \cup Saved,
         place = "target" => /\ v \in {None, Old(k), New(k)} \cup Saved
                             /\ v = New(k) => kinds[k] \in {"create", "update"},
         place = "backup" => /\ v \in {None, Old(k)} \cup Saved
                             /\ v # None => HasBackup(k)
  PROVE  DiskFits'
<1>1. Saved' = Saved
  BY DEF Saved
<1>2. ContentsFit'
  BY <1>1 DEF DiskFits, ContentsFit
<1>3. ASSUME NEW j \in Ops PROVE NamesFit(j)'
  <2>1. NamesFit(j)
    BY DEF DiskFits
  <2>2. /\ dir'[Stage(j)] = IF place = "stage" /\ j = k THEN v ELSE dir[Stage(j)]
        /\ dir'[Source(j)] = IF place = "source" /\ j = k THEN v ELSE dir[Source(j)]
        /\ dir'[To(j)] = IF place = "target" /\ j = k THEN v ELSE dir[To(j)]
        /\ dir'[Backup(j)] = IF place = "backup" /\ j = k THEN v ELSE dir[Backup(j)]
    BY DEF Only
  <2>3. /\ dir'[Stage(j)] \in {None, New(j)}
        /\ dir'[Source(j)] \in {None, Old(j)} \cup Saved
        /\ dir'[To(j)] \in {None, Old(j), New(j)} \cup Saved
        /\ dir'[Backup(j)] \in {None, Old(j)} \cup Saved
    BY <2>1, <2>2 DEF NamesFit
  <2>4. dir'[Backup(j)] # None => HasBackup(j)
    BY <2>1, <2>2 DEF NamesFit, Exists
  <2>5. dir'[To(j)] = New(j) => kinds[j] \in {"create", "update"}
    BY <2>1, <2>2 DEF NamesFit
  <2> QED
    BY <1>1, <2>3, <2>4, <2>5
       DEF NamesFit, Exists, HasBackup, Stage, Source, To, Backup, Old, New
<1> QED
  BY <1>2, <1>3 DEF DiskFits

LEMMA DiskStays ==
  ASSUME DiskFits, UNCHANGED <<kinds, dir, content, saves>>
  PROVE  DiskFits'
<1>1. Saved' = Saved
  BY DEF Saved
<1> QED
  BY <1>1 DEF DiskFits, ContentsFit, NamesFit, Exists, HasBackup, Stage, Source, To, Backup,
              Old, New

(* The step leaves all names alone but those of the stages.                *)
FilesStay ==
  /\ UNCHANGED <<kinds, content, touched, met>>
  /\ \A j \in Ops : /\ dir'[Source(j)] = dir[Source(j)]
                    /\ dir'[To(j)] = dir[To(j)]
                    /\ dir'[Backup(j)] = dir[Backup(j)]

LEMMA NamesStay ==
  ASSUME kinds' = kinds, NEW k \in Ops
  PROVE  /\ From(k)' = From(k) /\ Spare(k)' = Spare(k) /\ HasBackup(k)' = HasBackup(k)
         /\ To(k)' = To(k) /\ Backup(k)' = Backup(k) /\ Stage(k)' = Stage(k)
         /\ Old(k)' = Old(k) /\ New(k)' = New(k) /\ Paths(k)' = Paths(k)
BY DEF From, Spare, HasBackup, To, Backup, Stage, Old, New, Paths

LEMMA NamesAlike ==
  ASSUME FilesStay, NEW k \in Ops
  PROVE  dir'[From(k)] = dir[From(k)] /\ dir'[Spare(k)] = dir[Spare(k)] /\ dir'[To(k)] = dir[To(k)]
<1>1. /\ dir'[Source(k)] = dir[Source(k)] /\ dir'[To(k)] = dir[To(k)]
      /\ dir'[Backup(k)] = dir[Backup(k)]
  BY DEF FilesStay
<1>2. From(k) \in {Source(k), To(k)} /\ Spare(k) \in {To(k), Backup(k)}
  BY DEF From, Spare, Source, To
<1> QED
  BY <1>1, <1>2

(* The three parts about the files, at one operation after the step.       *)
KeptAfter(k) ==
  /\ content'[Old(k)] = Old(k) /\ content'[New(k)] = New(k)
  /\ kinds[k] # "create" =>
       /\ k <= Len(journal') /\ phase' \notin {"backups", "done"} => dir'[Spare(k)] = Old(k)
       /\ phase' = "rollback" /\ k = Len(journal') /\ todo' = <<"drop">> => dir'[From(k)] = Old(k)
       /\ k > Len(journal') => \/ dir'[From(k)] = Old(k)
                               \/ failure' # "none" /\ dir'[Spare(k)] = Old(k)
OriginalAfter(k) ==
  /\ kinds[k] # "create" => dir'[From(k)] = Old(k)
  /\ kinds[k] \in {"create", "rename"} => dir'[To(k)] = None
MadeAfter(k) ==
  /\ kinds[k] \in {"create", "update"} => dir'[To(k)] = New(k)
  /\ kinds[k] = "delete" => dir'[To(k)] = None
  /\ kinds[k] = "rename" => dir'[From(k)] = None /\ dir'[To(k)] = Old(k)
SettledAfter(k) ==
  k <= Len(journal') /\ (phase' = "commit" /\ k = op' => Head(todo') = "unstage")
FollowedAfter(k) ==
  /\ k > Len(journal') /\ complete' => OriginalAfter(k)
  /\ failure' = "none" /\ SettledAfter(k) => MadeAfter(k)
GoneAfter(k) == dir'[To(k)] = New(k) => content'[New(k)] # New(k)
NewIsKnownAfter(k) ==
  /\ k > Len(journal') /\ complete' => GoneAfter(k)
  /\ failure' = "none" /\ dir'[To(k)] = New(k) => k <= Len(journal')
  /\ phase' = "rollback" /\ k = Len(journal') /\ kinds[k] # "create"
       /\ Head(todo') \in {"restore", "drop"} => GoneAfter(k)
LeftoverAfter(k) ==
  /\ dir'[Stage(k)] # None =>
       \/ phase' \in {"stage", "revalidate", "commit", "rollback"}
       \/ phase' = "tidy" /\ k >= op'
       \/ Stage(k) \in reported'
  /\ dir'[Backup(k)] # None =>
       \/ k <= Len(journal') /\ phase' # "done" /\ ~(phase' = "backups" /\ k < op')
       \/ Backup(k) \in reported' /\ (failure' # "none" \/ phase' \in {"backups", "done"})

LEMMA AfterIsPrimed ==
  ASSUME kinds' = kinds, NEW k \in Ops
  PROVE  /\ Kept(k)' <=> KeptAfter(k)
         /\ Followed(k)' <=> FollowedAfter(k)
         /\ NewIsKnown(k)' <=> NewIsKnownAfter(k)
         /\ Leftover(k)' <=> LeftoverAfter(k)
<1> USE NamesStay
<1>1. Kept(k)' <=> KeptAfter(k)
  BY DEF Kept, KeptAfter
<1>2. Original(k)' <=> OriginalAfter(k)
  BY DEF Original, OriginalAfter
<1>3. Made(k)' <=> MadeAfter(k)
  BY DEF Made, MadeAfter
<1>4. Settled(k)' <=> SettledAfter(k)
  BY DEF Settled, SettledAfter
<1>5. Followed(k)' <=> FollowedAfter(k)
  BY <1>2, <1>3, <1>4 DEF Followed, FollowedAfter
<1>6. Gone(k)' <=> GoneAfter(k)
  BY DEF Gone, GoneAfter
<1>7. NewIsKnown(k)' <=> NewIsKnownAfter(k)
  BY <1>6 DEF NewIsKnown, NewIsKnownAfter
<1>8. Leftover(k)' <=> LeftoverAfter(k)
  BY DEF Leftover, LeftoverAfter, Exists
<1> QED
  BY <1>1, <1>5, <1>7, <1>8

LEMMA AllAfter ==
  ASSUME kinds' = kinds, touched' = touched, met' = met
  PROVE  /\ (\A k \in Ops \ touched : KeptAfter(k)) => AllKept'
         /\ (\A k \in Undisturbed : FollowedAfter(k)) => AllFollowed'
         /\ (\A k \in Ops : NewIsKnownAfter(k)) => AllKnown'
         /\ (\A k \in Ops : LeftoverAfter(k)) => AllLeft'
BY AfterIsPrimed DEF AllKept, AllFollowed, AllKnown, AllLeft, Undisturbed

LEMMA RefusingFiles ==
  ASSUME TypeOK, Course, FilesFit, failure = "none", phase \notin {"backups", "done"},
         FilesStay, NEW stage, stage # "none", Refused(stage),
         stage = "prepare" => phase = "prepare" /\ dir' = dir
  PROVE  FilesFit'
<1>1. /\ failure' = stage /\ journal' = journal /\ complete' = complete /\ complete
      /\ op' = 1
      /\ \/ phase' = "rollback" /\ todo' = <<"compare">> /\ journal # <<>>
         \/ phase' = "tidy" /\ journal = <<>>
         \/ phase' = "done" /\ journal = <<>> /\ stage = "prepare"
  BY DEF Refused, Course
<1>2. /\ UNCHANGED <<kinds, content, touched, met>>
      /\ \A k \in Ops : dir'[Backup(k)] = dir[Backup(k)]
      /\ \A k \in Ops : dir'[From(k)] = dir[From(k)] /\ dir'[Spare(k)] = dir[Spare(k)]
                        /\ dir'[To(k)] = dir[To(k)]
  BY NamesAlike DEF FilesStay
<1>3. ASSUME NEW k \in Ops \ touched PROVE KeptAfter(k)
  <2>1. Kept(k)
    BY DEF FilesFit, AllKept
  <2>2. todo' = <<"compare">> => todo' # <<"drop">>
    OBVIOUS
  <2> QED
    BY <1>1, <1>2, <2>1, <2>2 DEF Kept, KeptAfter
<1>4. ASSUME NEW k \in Undisturbed PROVE FollowedAfter(k)
  BY <1>1, <1>2 DEF FilesFit, AllFollowed, Followed, FollowedAfter, Original, OriginalAfter,
                    Undisturbed
<1>5. ASSUME NEW k \in Ops PROVE NewIsKnownAfter(k)
  <2>1. todo' = <<"compare">> => Head(todo') = "compare"
    OBVIOUS
  <2> QED
    BY <1>1, <1>2, <2>1 DEF FilesFit, AllKnown, NewIsKnown, NewIsKnownAfter, Gone, GoneAfter
<1>6. ASSUME NEW k \in Ops PROVE LeftoverAfter(k)
  <2>1. Leftover(k) /\ (phase = "prepare" => reported = {})
    BY DEF FilesFit, AllLeft, Course
  <2>2. k \in Nat /\ k >= 1
    BY OpsFit
  <2>3. journal = <<>> => Len(journal) = 0
    OBVIOUS
  <2> QED
    BY <1>1, <1>2, <2>1, <2>2, <2>3 DEF Leftover, LeftoverAfter, Exists
<1> QED
  BY <1>2, <1>3, <1>4, <1>5, <1>6, AllAfter DEF FilesFit

(* The transaction goes on, and no operation is new among those whose      *)
(* calls are behind them.                                                  *)
LEMMA AdvancingFiles ==
  ASSUME Course, FilesFit, failure = "none", phase \notin {"backups", "done"}, FilesStay,
         failure' = failure, journal' = journal, complete' = complete, phase' # "rollback",
         \A k \in Ops : SettledAfter(k) => Settled(k)
  PROVE  AllKept' /\ AllFollowed' /\ AllKnown'
<1>1. /\ UNCHANGED <<kinds, content, touched, met>>
      /\ \A k \in Ops : dir'[From(k)] = dir[From(k)] /\ dir'[Spare(k)] = dir[Spare(k)]
                        /\ dir'[To(k)] = dir[To(k)]
  BY NamesAlike DEF FilesStay
<1>2. ASSUME NEW k \in Ops \ touched PROVE KeptAfter(k)
  BY <1>1 DEF FilesFit, AllKept, Kept, KeptAfter
<1>3. ASSUME NEW k \in Undisturbed PROVE FollowedAfter(k)
  BY <1>1 DEF FilesFit, AllFollowed, Followed, FollowedAfter, Original, OriginalAfter,
              Made, MadeAfter, Undisturbed
<1>4. ASSUME NEW k \in Ops PROVE NewIsKnownAfter(k)
  BY <1>1 DEF FilesFit, AllKnown, NewIsKnown, NewIsKnownAfter, Gone, GoneAfter
<1> QED
  BY <1>1, <1>2, <1>3, <1>4, AllAfter

(* Where stages may be, only the backups have to be accounted for.         *)
LEMMA LeftMidway ==
  ASSUME kinds' = kinds, touched' = touched, met' = met,
         \/ phase' \in {"stage", "revalidate", "commit", "rollback"}
         \/ phase' = "tidy" /\ op' = 1,
         \A j \in Ops : dir'[Backup(j)] # None =>
                          \/ j <= Len(journal')
                          \/ Backup(j) \in reported' /\ failure' # "none"
  PROVE  AllLeft'
<1>1. ASSUME NEW k \in Ops PROVE LeftoverAfter(k)
  <2>1. k \in Nat /\ k >= 1
    BY OpsFit
  <2> QED
    BY <2>1 DEF LeftoverAfter
<1> QED
  BY <1>1, AllAfter

(* In the commit every backup has its entry.                               *)
LEMMA BackupsHaveEntries ==
  ASSUME FilesFit, failure = "none", phase \notin {"backups", "done"}, NEW j \in Ops,
         dir[Backup(j)] # None
  PROVE  j <= Len(journal)
BY DEF FilesFit, AllLeft, Leftover, Exists

-----------------------------------------------------------------------------
(* What the transaction has looked at *)

LEMMA Faulting ==
  ASSUME TypeOK, Fault \/ faults' = faults
  PROVE  faults' \in 0..MaxFaults
BY TypesFit, EditAssumption DEF RestOK, Fault

LEMMA RestStays ==
  ASSUME TypeOK, UNCHANGED <<kinds, stopped, saves, touched, met>>,
         faults' \in 0..MaxFaults, noticed' \subseteq Contents \cup {None}
  PROVE  RestOK'
BY TypesFit DEF RestOK

LEMMA SavesAreSaved ==
  ASSUME TypeOK, DiskFits, NEW name \in Names, NEW n \in 1..MaxSaves, Content(name) = Other(n)
  PROVE  n <= saves
<1>1. /\ dir[name] \in Contents \cup {None}
      /\ Content(name) = None <=> dir[name] = None
      /\ dir[name] # None => Content(name) = content[dir[name]]
  BY Contenting
<1>2. Other(n) # None /\ (Other(n) \in Saved => n <= saves)
  BY OpsFit, Apart, SavedContents, TypesFit
<1>3. PICK c \in Contents : c = dir[name] /\ content[c] = Other(n)
  BY <1>1, <1>2
<1>4. CASE content[c] \in Saved
  BY <1>2, <1>3, <1>4
<1>5. CASE content[c] = c
  <2>1. PICK k \in Ops : name \in {Stage(k), Source(k), To(k), Backup(k)}
    BY DEF Names, Places, Stage, Source, To, Backup
  <2>2. dir[name] \in {None, Old(k), New(k)} \cup Saved
    BY <2>1 DEF DiskFits, NamesFit
  <2>3. Other(n) # Old(k) /\ Other(n) # New(k)
    BY Apart
  <2> QED
    BY <1>2, <1>3, <1>5, <2>2, <2>3
<1> QED
  BY <1>3, <1>4, <1>5 DEF DiskFits, ContentsFit

NewlySaved(names) == \A n \in 1..MaxSaves : Other(n) \in noticed' =>
                       Other(n) \in noticed \/ \E name \in names : Content(name) = Other(n)

LEMMA Looking ==
  ASSUME TypeOK, DiskFits, NEW names \in SUBSET Names, Looks(names)
  PROVE  /\ noticed' \subseteq Contents \cup {None}
         /\ NewlySaved(names)
         /\ \A n \in 1..MaxSaves : Other(n) \in noticed' => Other(n) \in noticed \/ n <= saves
<1>1. noticed' = noticed \cup {Content(name) : name \in names}
  BY DEF Looks
<1>2. noticed' \subseteq Contents \cup {None}
  BY <1>1, TypesFit, Contenting DEF RestOK
<1>3. NewlySaved(names)
  BY <1>1 DEF NewlySaved
<1> QED
  BY <1>2, <1>3, SavesAreSaved DEF NewlySaved

LEMMA KnownGoesOn ==
  ASSUME Known, failure = "none", phase' # "rollback",
         \A n \in 1..MaxSaves : Other(n) \in noticed' => Other(n) \in noticed
  PROVE  Known'
BY DEF Known, Other

LEMMA KnownBehind ==
  ASSUME Known, saves' = saves, failure' # "none", phase' = "rollback" => Head(todo') = "compare",
         \A n \in 1..MaxSaves : Other(n) \in noticed' => Other(n) \in noticed \/ n <= saves
  PROVE  Known'
BY DEF Known, Other

-----------------------------------------------------------------------------
(* Calls that fail, and phases that go on *)

Quiet == UNCHANGED <<kinds, stopped, saves, touched, met>>

LEMMA DirStays ==
  ASSUME IInv, Quiet, UNCHANGED <<dir, content>>
  PROVE  FilesOK' /\ DiskFits' /\ FilesStay
<1>1. FilesOK'
  BY TypesFit DEF IInv, FilesOK
<1>2. DiskFits'
  BY DiskStays DEF IInv, Quiet
<1> QED
  BY <1>1, <1>2 DEF FilesStay, Quiet

LEMMA RefusalKeeps ==
  ASSUME IInv, Quiet, failure = "none", phase \notin {"backups", "done"},
         FilesOK', DiskFits', FilesStay,
         NEW stage \in Failures \ {"none"}, Refuse(stage),
         stage \in {"prepare", "stage", "revalidate"} => journal = <<>>,
         stage = "prepare" => phase = "prepare" /\ dir' = dir,
         Fault \/ faults' = faults, noticed' \subseteq Contents \cup {None},
         \A n \in 1..MaxSaves : Other(n) \in noticed' => Other(n) \in noticed \/ n <= saves
  PROVE  IInv'
<1>1. TypeOK /\ Course /\ FilesFit /\ Known
  BY DEF IInv
<1>2. ControlOK' /\ Course' /\ Refused(stage)
  BY <1>1, Refusing DEF Quiet
<1>3. TypeOK'
  <2>1. RestOK'
    BY <1>1, Faulting, RestStays DEF Quiet
  <2> QED
    BY <1>2, <2>1, TypesFitAfter
<1>4. FilesFit'
  BY <1>1, <1>2, RefusingFiles
<1>5. Known'
  <2>1. todo' = <<"compare">> => Head(todo') = "compare"
    OBVIOUS
  <2>2. failure' # "none" /\ (phase' = "rollback" => Head(todo') = "compare")
    BY <1>2, <2>1 DEF Refused
  <2> QED
    BY <1>1, <2>2, KnownBehind DEF Quiet
<1> QED
  BY <1>2, <1>3, <1>4, <1>5 DEF IInv

LEMMA ProceedKeeps ==
  ASSUME IInv, Quiet, failure = "none", FilesOK', DiskFits', FilesStay,
         NEW p, NEW q, Follows(p, q), phase = p, Proceed(p, q),
         \A k \in Ops : dir'[Stage(k)] # dir[Stage(k)] => p = "stage",
         faults' = faults, noticed' \subseteq Contents \cup {None},
         \A n \in 1..MaxSaves : Other(n) \in noticed' => Other(n) \in noticed
  PROVE  IInv'
<1>1. TypeOK /\ Course /\ FilesFit /\ Known
  BY DEF IInv
<1>2. /\ ControlOK' /\ Course'
      /\ failure' = failure /\ journal' = journal /\ complete' = complete
      /\ reported' = reported
      /\ phase' = p \/ (phase' = q /\ op' = 1)
  BY <1>1, Proceeding DEF Quiet
<1>3. TypeOK'
  <2>1. RestOK'
    BY <1>1, Faulting, RestStays DEF Quiet
  <2> QED
    BY <1>2, <2>1, TypesFitAfter
<1>4. phase \notin {"backups", "done", "commit"} /\ phase' # "rollback" /\ phase' # "done"
  BY <1>2 DEF Follows
<1>5. AllKept' /\ AllFollowed' /\ AllKnown'
  <2>1. \A k \in Ops : SettledAfter(k) => Settled(k)
    BY <1>2, <1>4 DEF SettledAfter, Settled
  <2> QED
    BY <1>1, <1>2, <1>4, <2>1, AdvancingFiles
<1>6. ASSUME NEW k \in Ops PROVE LeftoverAfter(k)
  <2>1. Leftover(k) /\ (phase = "prepare" => reported = {})
    BY <1>1 DEF FilesFit, AllLeft, Course
  <2>2. k \in Nat /\ k >= 1 /\ dir'[Backup(k)] = dir[Backup(k)]
    BY OpsFit DEF FilesStay
  <2>3. dir[Backup(k)] # None => k <= Len(journal) /\ ~(phase' = "backups" /\ k < op')
    BY <1>1, <1>2, <1>4, <2>2, BackupsHaveEntries DEF Follows
  <2>4. dir'[Stage(k)] # None =>
          \/ phase' \in {"stage", "revalidate", "commit", "rollback"}
          \/ Stage(k) \in reported'
    <3>1. CASE p = "stage" \/ p = "revalidate"
      BY <1>2, <3>1 DEF Follows
    <3>2. CASE p = "prepare" \/ p = "verify"
      BY <1>2, <2>1, <3>2 DEF Leftover, Exists
    <3> QED
      BY <3>1, <3>2 DEF Follows
  <2> QED
    BY <1>2, <1>4, <2>2, <2>3, <2>4 DEF LeftoverAfter
<1>7. FilesFit'
  BY <1>5, <1>6, AllAfter DEF FilesFit, Quiet
<1>8. Known'
  BY <1>1, <1>4, KnownGoesOn
<1> QED
  BY <1>2, <1>3, <1>7, <1>8 DEF IInv

-----------------------------------------------------------------------------
(* The steps before the commit, and the verification *)

LEMMA PathsFit ==
  ASSUME NEW k \in Ops
  PROVE  Paths(k) \in SUBSET Names /\ Paths(k) \cup {Backup(k)} \in SUBSET Names
BY OwnNames

LEMMA NothingSavedSeen ==
  ASSUME TypeOK, DiskFits, NEW names \in SUBSET Names, Looks(names), NEW k \in Ops,
         \A name \in names : Content(name) \in {None, Old(k), New(k)}
  PROVE  /\ noticed' \subseteq Contents \cup {None}
         /\ \A n \in 1..MaxSaves : Other(n) \in noticed' => Other(n) \in noticed
<1>1. noticed' \subseteq Contents \cup {None} /\ NewlySaved(names)
  BY Looking
<1>2. \A n \in 1..MaxSaves : Other(n) \notin {None, Old(k), New(k)}
  BY Apart
<1> QED
  BY <1>1, <1>2 DEF NewlySaved

LEMMA ReviewedSeen ==
  ASSUME TypeOK, NEW k \in Ops, AsReviewed(k)
  PROVE  \A name \in Paths(k) : Content(name) \in {None, Old(k), New(k)}
<1>1. From(k) = IF kinds[k] = "rename" THEN Source(k) ELSE To(k)
  BY OwnNames
<1>2. kinds[k] \in Kinds
  BY TypesFit DEF RestOK
<1>3. ~Exists(To(k)) => Content(To(k)) = None
  BY DEF Exists, Content
<1> QED
  BY <1>1, <1>2, <1>3, OwnNames DEF AsReviewed, Kinds

LEMMA ProposedSeen ==
  ASSUME TypeOK, NEW k \in Ops, AsProposed(k)
  PROVE  \A name \in Paths(k) : Content(name) \in {None, Old(k), New(k)}
<1>1. From(k) = IF kinds[k] = "rename" THEN Source(k) ELSE To(k)
  BY OwnNames
<1>2. kinds[k] \in Kinds
  BY TypesFit DEF RestOK
<1>3. \A name \in Paths(k) : ~Exists(name) => Content(name) = None
  BY DEF Exists, Content
<1> QED
  BY <1>1, <1>2, <1>3, OwnNames DEF AsProposed, Kinds

LEMMA PrepareKeeps ==
  ASSUME IInv, Quiet, Prepare
  PROVE  IInv'
<1>1. TypeOK /\ Course /\ DiskFits /\ op \in Ops
  BY TypesFit DEF IInv, ControlOK
<1>2. /\ phase = "prepare" /\ Looks(Paths(op)) /\ UNCHANGED <<dir, content>>
      /\ failure = "none" /\ journal = <<>>
  BY <1>1 DEF Prepare, Course
<1>3. FilesOK' /\ DiskFits' /\ FilesStay
  BY <1>2, DirStays
<1>4. /\ noticed' \subseteq Contents \cup {None}
      /\ \A n \in 1..MaxSaves : Other(n) \in noticed' => Other(n) \in noticed \/ n <= saves
  BY <1>1, <1>2, PathsFit, Looking
<1>5. CASE AsReviewed(op) /\ Proceed("prepare", "stage") /\ UNCHANGED faults
  <2>1. \A n \in 1..MaxSaves : Other(n) \in noticed' => Other(n) \in noticed
    BY <1>1, <1>2, <1>5, PathsFit, ReviewedSeen, NothingSavedSeen
  <2>2. Follows("prepare", "stage")
    BY DEF Follows
  <2> QED
    BY <1>2, <1>3, <1>4, <1>5, <2>1, <2>2, ProceedKeeps
<1>6. CASE Refuse("prepare") /\ (Fault \/ faults' = faults)
  BY <1>2, <1>3, <1>4, <1>6, RefusalKeeps DEF Failures
<1> QED
  BY <1>5, <1>6 DEF Prepare

LEMMA RevalidateKeeps ==
  ASSUME IInv, Quiet, Revalidate
  PROVE  IInv'
<1>1. TypeOK /\ Course /\ DiskFits /\ op \in Ops
  BY TypesFit DEF IInv, ControlOK
<1>2. /\ phase = "revalidate" /\ Looks(Paths(op)) /\ UNCHANGED <<dir, content>>
      /\ failure = "none" /\ journal = <<>>
  BY <1>1 DEF Revalidate, Course
<1>3. FilesOK' /\ DiskFits' /\ FilesStay
  BY <1>2, DirStays
<1>4. /\ noticed' \subseteq Contents \cup {None}
      /\ \A n \in 1..MaxSaves : Other(n) \in noticed' => Other(n) \in noticed \/ n <= saves
  BY <1>1, <1>2, PathsFit, Looking
<1>5. CASE AsReviewed(op) /\ Proceed("revalidate", "commit") /\ UNCHANGED faults
  <2>1. \A n \in 1..MaxSaves : Other(n) \in noticed' => Other(n) \in noticed
    BY <1>1, <1>2, <1>5, PathsFit, ReviewedSeen, NothingSavedSeen
  <2>2. Follows("revalidate", "commit")
    BY DEF Follows
  <2> QED
    BY <1>2, <1>3, <1>4, <1>5, <2>1, <2>2, ProceedKeeps
<1>6. CASE Refuse("revalidate") /\ (Fault \/ faults' = faults)
  BY <1>2, <1>3, <1>4, <1>6, RefusalKeeps DEF Failures
<1> QED
  BY <1>5, <1>6 DEF Revalidate

LEMMA VerifyKeeps ==
  ASSUME IInv, Quiet, Verify
  PROVE  IInv'
<1>1. TypeOK /\ Course /\ DiskFits /\ op \in Ops
  BY TypesFit DEF IInv, ControlOK
<1>2. /\ phase = "verify" /\ Looks(Paths(op)) /\ UNCHANGED <<dir, content>>
      /\ failure = "none"
  BY <1>1 DEF Verify, Course
<1>3. FilesOK' /\ DiskFits' /\ FilesStay
  BY <1>2, DirStays
<1>4. /\ noticed' \subseteq Contents \cup {None}
      /\ \A n \in 1..MaxSaves : Other(n) \in noticed' => Other(n) \in noticed \/ n <= saves
  BY <1>1, <1>2, PathsFit, Looking
<1>5. CASE AsProposed(op) /\ Proceed("verify", "backups") /\ UNCHANGED faults
  <2>1. \A n \in 1..MaxSaves : Other(n) \in noticed' => Other(n) \in noticed
    BY <1>1, <1>2, <1>5, PathsFit, ProposedSeen, NothingSavedSeen
  <2>2. Follows("verify", "backups")
    BY DEF Follows
  <2> QED
    BY <1>2, <1>3, <1>4, <1>5, <2>1, <2>2, ProceedKeeps
<1>6. CASE Refuse("verify") /\ (Fault \/ faults' = faults)
  BY <1>2, <1>3, <1>4, <1>6, RefusalKeeps DEF Failures
<1> QED
  BY <1>5, <1>6 DEF Verify

(* The name of a stage changes.                                            *)
LEMMA StageChanges ==
  ASSUME IInv, Quiet, content' = content, NEW k \in Ops, NEW v \in {None, New(k)},
         dir' = [dir EXCEPT ![Stage(k)] = v]
  PROVE  /\ FilesOK' /\ DiskFits' /\ FilesStay
         /\ \A j \in Ops : dir'[Stage(j)] = IF j = k THEN v ELSE dir[Stage(j)]
<1>1. Stage(k) = <<"stage", k>> /\ "stage" \in Places /\ v \in Contents \cup {None}
  BY OwnContents DEF Stage, Places
<1>2. FilesOK' /\ Only("stage", k, v)
  BY <1>1, Changing DEF IInv
<1>3. DiskFits'
  BY <1>2, DiskChanges DEF IInv, Quiet
<1> QED
  BY <1>2, <1>3 DEF Only, FilesStay, Quiet

LEMMA StageContentKeeps ==
  ASSUME IInv, Quiet, StageContent
  PROVE  IInv'
<1>1. TypeOK /\ Course /\ DiskFits /\ op \in Ops
  BY TypesFit DEF IInv, ControlOK
<1>2. /\ phase = "stage" /\ UNCHANGED <<content, noticed>>
      /\ failure = "none" /\ journal = <<>>
  BY <1>1 DEF StageContent, Course
<1>3. \/ dir' = dir
      \/ dir' = [dir EXCEPT ![Stage(op)] = New(op)]
  BY DEF StageContent
<1>4. FilesOK' /\ DiskFits' /\ FilesStay
  BY <1>1, <1>2, <1>3, DirStays, StageChanges
<1>5. noticed' \subseteq Contents \cup {None}
  BY <1>1, <1>2, TypesFit DEF RestOK
<1>6. CASE Proceed("stage", "revalidate") /\ UNCHANGED faults
  <2>1. Follows("stage", "revalidate")
    BY DEF Follows
  <2> QED
    BY <1>2, <1>4, <1>5, <1>6, <2>1, ProceedKeeps
<1>7. CASE Refuse("stage") /\ Fault
  BY <1>2, <1>4, <1>5, <1>7, RefusalKeeps DEF Failures
<1> QED
  BY <1>6, <1>7 DEF StageContent

-----------------------------------------------------------------------------
(* The commit *)

LEMMA CommitKeeps ==
  ASSUME IInv, Quiet, phase = "commit", AfterStep,
         UNCHANGED <<failure, complete, reported>>, Fault \/ faults' = faults,
         journal' \in Seq(Entries), \A i \in 1..Len(journal') : journal'[i].op = i,
         \/ Len(todo) = 1 /\ Len(journal') = op
         \/ /\ Len(todo) > 1
            /\ \/ Len(journal') = op - 1 /\ Tail(todo) \in Before(kinds[op])
               \/ Len(journal') = op /\ Tail(todo) \in After(kinds[op]),
         FilesOK', DiskFits', AllKept', AllFollowed', AllKnown',
         \A j \in Ops : dir'[Backup(j)] # None => j <= Len(journal'),
         noticed' \subseteq Contents \cup {None},
         \A n \in 1..MaxSaves : Other(n) \in noticed' => Other(n) \in noticed
  PROVE  IInv'
<1>1. TypeOK /\ Course /\ Known /\ failure = "none"
  BY DEF IInv, Course
<1>2. /\ ControlOK' /\ Course'
      /\ Len(todo) = 1 => \/ op = N /\ phase' = "tidy" /\ op' = 1
                          \/ op < N /\ phase' = "commit" /\ op' = op + 1
      /\ Len(todo) > 1 => phase' = "commit" /\ op' = op /\ todo' = Tail(todo)
  BY <1>1, Continuing DEF Quiet
<1>3. phase' = "commit" \/ (phase' = "tidy" /\ op' = 1)
  BY <1>2
<1>4. TypeOK'
  <2>1. RestOK'
    BY <1>1, Faulting, RestStays DEF Quiet
  <2> QED
    BY <1>2, <2>1, TypesFitAfter
<1>5. AllLeft'
  BY <1>3, LeftMidway DEF Quiet
<1>6. Known'
  BY <1>1, <1>3, KnownGoesOn
<1> QED
  BY <1>2, <1>4, <1>5, <1>6 DEF IInv, FilesFit

LEMMA ContinueKeeps ==
  ASSUME IInv, Quiet, phase = "commit", Continue, Fault \/ faults' = faults,
         \/ Len(todo) = 1 /\ Len(journal) = op /\ Head(todo) = "unstage"
         \/ Len(todo) > 1 /\ Len(journal) = op - 1 /\ Tail(todo) \in Before(kinds[op]),
         FilesOK', DiskFits', FilesStay,
         noticed' \subseteq Contents \cup {None},
         \A n \in 1..MaxSaves : Other(n) \in noticed' => Other(n) \in noticed
  PROVE  IInv'
<1>1. TypeOK /\ Course /\ FilesFit /\ failure = "none"
  BY DEF IInv, Course
<1>2. AfterStep /\ UNCHANGED <<journal, failure, complete, reported>>
  BY DEF Continue
<1>3. /\ journal' = journal /\ journal \in Seq(Entries) /\ op \in Ops
      /\ \A i \in 1..Len(journal) : journal[i].op = i
  BY <1>1, <1>2, TypesFit DEF ControlOK, Course
<1>4. op \in Nat
  BY <1>3, OpsFit
<1>5. PICK n \in Nat : n = Len(journal)
  BY <1>3
<1>6. \A k \in Ops : SettledAfter(k) => Settled(k)
  BY <1>3, <1>4, <1>5, OpsFit DEF SettledAfter, Settled
<1>7. phase' # "rollback"
  <2>1. CASE Len(todo) = 1
    BY <1>2, <1>3, <2>1, TypesFit, <1>1, GoingOn DEF AfterStep
  <2>2. CASE Len(todo) # 1
    BY <1>2, <2>2 DEF AfterStep
  <2> QED
    BY <2>1, <2>2
<1>8. AllKept' /\ AllFollowed' /\ AllKnown'
  BY <1>1, <1>2, <1>6, <1>7, AdvancingFiles
<1>9. \A j \in Ops : dir'[Backup(j)] # None => j <= Len(journal')
  BY <1>1, <1>3, BackupsHaveEntries DEF FilesStay
<1> QED
  BY <1>2, <1>3, <1>8, <1>9, CommitKeeps

LEMMA CheckKeeps ==
  ASSUME IInv, Quiet, Check
  PROVE  IInv'
<1>1. TypeOK /\ Course /\ DiskFits /\ op \in Ops
  BY TypesFit DEF IInv, ControlOK
<1>2. phase = "commit" /\ UNCHANGED <<dir, content, faults>>
  BY DEF Check, Doing
<1>3. /\ failure = "none"
      /\ \/ Len(journal) = op - 1 /\ Halfway(kinds[op], todo, 0)
         \/ Len(journal) = op /\ Halfway(kinds[op], todo, 1)
  BY <1>1, <1>2, AtCommit
<1>4. FilesOK' /\ DiskFits' /\ FilesStay
  BY <1>2, DirStays
<1>5. PICK name \in {From(op), To(op)} :
        /\ Head(todo) \in {"verify", "absent"}
        /\ Looks({name})
        /\ \/ Content(name) \in {None, Old(op), New(op)} /\ Continue
           \/ Refuse("commit")
  <2>1. ~Exists(To(op)) => Content(To(op)) = None
    BY DEF Exists, Content
  <2>2. CASE Doing("verify") /\ Looks({From(op)})
             /\ IF Content(From(op)) = Old(op) THEN Continue ELSE Refuse("commit")
    BY <2>2 DEF Doing
  <2>3. CASE Doing("absent") /\ Looks({To(op)})
             /\ IF ~Exists(To(op)) THEN Continue ELSE Refuse("commit")
    BY <2>1, <2>3 DEF Doing
  <2> QED
    BY <2>2, <2>3 DEF Check
<1>6. {name} \in SUBSET Names
  BY <1>1, <1>5, OwnNames
<1>7. /\ noticed' \subseteq Contents \cup {None}
      /\ \A n \in 1..MaxSaves : Other(n) \in noticed' => Other(n) \in noticed \/ n <= saves
  BY <1>1, <1>5, <1>6, Looking
<1>8. CASE Content(name) \in {None, Old(op), New(op)} /\ Continue
  <2>1. \A n \in 1..MaxSaves : Other(n) \in noticed' => Other(n) \in noticed
    BY <1>1, <1>5, <1>6, <1>8, NothingSavedSeen
  <2>2. Len(todo) > 1 /\ Len(journal) = op - 1 /\ Tail(todo) \in Before(kinds[op])
    BY <1>3, <1>5 DEF Halfway
  <2> QED
    BY <1>2, <1>4, <1>7, <1>8, <2>1, <2>2, ContinueKeeps
<1>9. CASE Refuse("commit")
  BY <1>2, <1>3, <1>4, <1>7, <1>9, RefusalKeeps DEF Failures
<1> QED
  BY <1>5, <1>8, <1>9

LEMMA NothingSeen ==
  ASSUME TypeOK, noticed' = noticed
  PROVE  /\ noticed' \subseteq Contents \cup {None}
         /\ \A n \in 1..MaxSaves : Other(n) \in noticed' => Other(n) \in noticed
BY TypesFit DEF RestOK

LEMMA UnstageKeeps ==
  ASSUME IInv, Quiet, Unstage
  PROVE  IInv'
<1>1. TypeOK /\ Course /\ op \in Ops
  BY TypesFit DEF IInv, ControlOK
<1>2. /\ phase = "commit" /\ Head(todo) = "unstage" /\ Continue
      /\ UNCHANGED <<content, noticed>> /\ (Fault \/ faults' = faults)
      /\ dir' = dir \/ dir' = [dir EXCEPT ![Stage(op)] = None]
  BY DEF Unstage, Doing, Unlink
<1>3. Len(journal) = op /\ Len(todo) = 1
  BY <1>1, <1>2, AtCommit DEF Halfway
<1>4. FilesOK' /\ DiskFits' /\ FilesStay
  BY <1>1, <1>2, DirStays, StageChanges
<1> QED
  BY <1>1, <1>2, <1>3, <1>4, NothingSeen, ContinueKeeps

LEMMA CallRefusedKeeps ==
  ASSUME IInv, Quiet, phase = "commit", Refuse("commit"), UNCHANGED <<dir, content, noticed>>,
         Fault \/ faults' = faults
  PROVE  IInv'
<1>1. failure = "none" /\ TypeOK
  BY DEF IInv, Course
<1>2. FilesOK' /\ DiskFits' /\ FilesStay
  BY DirStays
<1> QED
  BY <1>1, <1>2, NothingSeen, RefusalKeeps DEF Failures

LEMMA StepFailsKeeps ==
  ASSUME IInv, Quiet, StepFails
  PROVE  IInv'
BY CallRefusedKeeps DEF StepFails
(* Only operation k's files change, so the others' are as they were.       *)
LEMMA OthersStay ==
  ASSUME NEW place, NEW k, NEW v, Only(place, k, v), NEW j \in Ops, j # k
  PROVE  /\ dir'[From(j)] = dir[From(j)] /\ dir'[Spare(j)] = dir[Spare(j)]
         /\ dir'[To(j)] = dir[To(j)] /\ dir'[Backup(j)] = dir[Backup(j)]
         /\ dir'[Stage(j)] = dir[Stage(j)]
<1>1. /\ dir'[Source(j)] = dir[Source(j)] /\ dir'[To(j)] = dir[To(j)]
      /\ dir'[Backup(j)] = dir[Backup(j)] /\ dir'[Stage(j)] = dir[Stage(j)]
  BY DEF Only
<1>2. From(j) \in {Source(j), To(j)} /\ Spare(j) \in {To(j), Backup(j)}
  BY DEF From, Spare, Source, To
<1> QED
  BY <1>1, <1>2

(* What an operation in the commit needs to show of its own files, when    *)
(* those of the others stay and its entry is or becomes the last.          *)
LEMMA CallFiles ==
  ASSUME IInv, Quiet, phase = "commit", content' = content,
         UNCHANGED <<failure, complete>>, phase' \notin {"rollback"},
         NEW n \in Nat, n = Len(journal), n \in {op - 1, op}, Len(journal') = op,
         NEW place, NEW v, Only(place, op, v),
         phase' = "commit" => op' # op \/ todo' = Tail(todo),
         kinds[op] # "create" /\ op \notin touched => dir'[Spare(op)] = Old(op),
         op \in Undisturbed /\ (phase' = "commit" /\ op' = op => Head(todo') = "unstage")
           => MadeAfter(op),
         phase' # "commit" \/ op' >= op
  PROVE  AllKept' /\ AllFollowed' /\ AllKnown'
<1>1. /\ TypeOK /\ FilesFit /\ failure = "none" /\ op \in Ops
      /\ UNCHANGED <<kinds, touched, met>>
  BY TypesFit DEF IInv, ControlOK, Course, Quiet
<1>2. op \in Nat /\ \A k \in Ops : k \in Nat
  BY <1>1, OpsFit
<1>3. \A k \in Ops \ {op} : /\ dir'[From(k)] = dir[From(k)] /\ dir'[Spare(k)] = dir[Spare(k)]
                            /\ dir'[To(k)] = dir[To(k)]
  BY OthersStay
<1>4. ASSUME NEW k \in Ops \ touched PROVE KeptAfter(k)
  <2>1. Kept(k)
    BY <1>1 DEF FilesFit, AllKept
  <2>2. CASE k = op
    BY <1>1, <1>2, <2>1, <2>2 DEF Kept, KeptAfter
  <2>3. CASE k # op
    <3>1. k <= op => k <= n
      BY <1>2, <2>3
    <3>2. k > op => k > n
      BY <1>2, <2>3
    <3>3. k <= op \/ k > op
      BY <1>2
    <3> QED
      BY <1>1, <1>3, <2>1, <2>3, <3>1, <3>2, <3>3 DEF Kept, KeptAfter
  <2> QED
    BY <2>2, <2>3
<1>5. ASSUME NEW k \in Undisturbed PROVE FollowedAfter(k)
  <2>1. Followed(k) /\ k \in Ops
    BY <1>1 DEF FilesFit, AllFollowed, Undisturbed
  <2>2. CASE k = op
    <3>1. ~(k > Len(journal'))
      BY <1>2, <2>2
    <3> QED
      BY <2>2, <3>1 DEF FollowedAfter, SettledAfter
  <2>3. CASE k # op
    <3>1. k > Len(journal') /\ complete' => Original(k)
      BY <1>2, <2>1, <2>3 DEF Followed
    <3>2. SettledAfter(k) => Settled(k)
      BY <1>2, <2>1, <2>3 DEF SettledAfter, Settled
    <3> QED
      BY <1>1, <1>3, <2>1, <2>3, <3>1, <3>2
         DEF Followed, FollowedAfter, Original, OriginalAfter, Made, MadeAfter
  <2> QED
    BY <2>2, <2>3
<1>6. ASSUME NEW k \in Ops PROVE NewIsKnownAfter(k)
  <2>1. NewIsKnown(k)
    BY <1>1 DEF FilesFit, AllKnown
  <2>2. CASE k = op
    <3>1. k <= Len(journal') /\ ~(k > Len(journal'))
      BY <1>2, <2>2
    <3> QED
      BY <3>1 DEF NewIsKnownAfter
  <2>3. CASE k # op
    <3>1. /\ k > Len(journal') => k > n
          /\ k <= n => k <= Len(journal')
      BY <1>2, <2>3
    <3> QED
      BY <1>3, <2>1, <2>3, <3>1 DEF NewIsKnown, NewIsKnownAfter, Gone, GoneAfter
  <2> QED
    BY <2>2, <2>3
<1> QED
  BY <1>1, <1>4, <1>5, <1>6, AllAfter

(* The entry of an operation that gets one.                                *)
LEMMA Journaling ==
  ASSUME NEW s \in Seq(Entries), NEW k \in Ops, NEW n \in Nat, n = Len(s), k = n + 1,
         \A i \in 1..n : s[i].op = i, NEW e \in Entries, e.op = k, journal' = Append(s, e)
  PROVE  /\ journal' \in Seq(Entries) /\ Len(journal') = k
         /\ \A i \in 1..Len(journal') : journal'[i].op = i
<1>1. /\ journal' \in Seq(Entries) /\ Len(journal') = n + 1 /\ journal'[n + 1] = e
      /\ \A i \in 1..n : journal'[i] = s[i]
  BY AppendFits
<1>2. ASSUME NEW i \in 1..n + 1 PROVE journal'[i].op = i
  <2>1. CASE i = n + 1
    BY <1>1, <2>1
  <2>2. CASE i # n + 1
    <3>1. i \in 1..n
      BY <2>2
    <3> QED
      BY <1>1, <3>1
  <2> QED
    BY <2>1, <2>2
<1> QED
  BY <1>1, <1>2

LEMMA MakeBackupKeeps ==
  ASSUME IInv, Quiet, MakeBackup
  PROVE  IInv'
<1>1. TypeOK /\ Course /\ DiskFits /\ FilesFit /\ op \in Ops
  BY TypesFit DEF IInv, ControlOK
<1>2. /\ phase = "commit" /\ Head(todo) = "backup" /\ UNCHANGED <<content, noticed, faults>>
  BY DEF MakeBackup, Doing
<1>3. PICK n \in Nat :
        /\ n = Len(journal) /\ n = op - 1 /\ op \in Nat /\ failure = "none" /\ HasBackup(op)
        /\ Len(todo) > 1 /\ Tail(todo) \in After(kinds[op]) /\ Head(Tail(todo)) = "remove"
  BY <1>1, <1>2, AtCommit, OpsFit DEF Halfway, HasBackup
<1>4. CASE Refuse("commit") /\ dir' = dir
  BY <1>2, <1>4, CallRefusedKeeps
<1>5. CASE /\ CanLink(From(op), Backup(op)) /\ Link(From(op), Backup(op))
           /\ ContinueWith(Append(journal, Undo(op, FALSE)))
  <2> DEFINE v == dir[To(op)]
  <2>1. /\ From(op) = To(op) /\ Spare(op) = Backup(op) /\ v # None
        /\ dir' = [dir EXCEPT ![<<"backup", op>>] = v]
    BY <1>3, <1>5 DEF HasBackup, From, To, Spare, Backup, CanLink, Link
  <2>2. v \in {None, Old(op), New(op)} \cup Saved /\ v \in Contents \cup {None}
    BY <1>1, OwnNames, Contenting DEF DiskFits, NamesFit
  <2>3. v # New(op)
    BY <1>1, <1>3 DEF FilesFit, AllKnown, NewIsKnown
  <2>4. FilesOK' /\ Only("backup", op, v)
    <3> HIDE DEF v
    <3>1. "backup" \in Places
      BY DEF Places
    <3> QED
      BY <1>1, <1>2, <2>1, <2>2, <3>1, Changing
  <2>5. DiskFits'
    <3> HIDE DEF v
    <3> QED
      BY <1>1, <1>2, <1>3, <2>2, <2>3, <2>4, DiskChanges DEF Quiet
  <2>6. /\ journal' = Append(journal, Undo(op, FALSE)) /\ AfterStep
        /\ UNCHANGED <<failure, complete, reported>>
    BY <1>5 DEF ContinueWith
  <2>7. /\ journal' \in Seq(Entries) /\ Len(journal') = op
        /\ \A i \in 1..Len(journal') : journal'[i].op = i
    <3>1. /\ journal \in Seq(Entries) /\ op = n + 1
          /\ \A i \in 1..n : journal[i].op = i
      BY <1>1, <1>3, TypesFit DEF ControlOK, Course
    <3>2. PICK e \in Entries : e.op = op /\ journal' = Append(journal, e)
      BY <1>1, <2>6 DEF Undo, Entries
    <3>3. n = Len(journal) /\ journal \in Seq(Entries) /\ n \in Nat /\ op \in Ops
      BY <1>1, <1>3, <3>1
    <3> QED
      BY <3>1, <3>2, <3>3, Journaling
  <2>8. phase' = "commit" /\ op' = op /\ todo' = Tail(todo)
    <3>1. Len(todo) # 1
      BY <1>3, <1>1, TypesFit DEF ControlOK
    <3> QED
      BY <1>2, <2>6, <3>1 DEF AfterStep
  <2>9. op \notin touched => dir'[Spare(op)] = Old(op)
    <3>1. ASSUME op \notin touched PROVE dir[From(op)] = Old(op)
      BY <1>1, <1>3, <3>1 DEF FilesFit, AllKept, Kept, HasBackup
    <3> QED
      BY <2>1, <2>4, <3>1, <1>1 DEF Only
  <2>10. AllKept' /\ AllFollowed' /\ AllKnown'
    <3> HIDE DEF v
    <3> QED
      BY <1>2, <1>3, <2>4, <2>6, <2>7, <2>8, <2>9, CallFiles
  <2>11. \A j \in Ops : dir'[Backup(j)] # None => j <= Len(journal')
    <3>1. ASSUME NEW j \in Ops, j # op, dir'[Backup(j)] # None PROVE j <= Len(journal')
      <4>1. dir[Backup(j)] # None
        BY <2>4, <3>1, OthersStay
      <4>2. j <= n /\ j \in Nat
        BY <1>1, <1>2, <1>3, <4>1, BackupsHaveEntries, OpsFit
      <4> QED
        BY <1>3, <2>7, <4>2
    <3> QED
      BY <1>3, <2>7, <3>1
  <2> QED
    BY <1>1, <1>2, <1>3, <2>4, <2>5, <2>6, <2>7, <2>10, <2>11, NothingSeen, CommitKeeps
<1> QED
  BY <1>4, <1>5 DEF MakeBackup

LEMMA RemoveFileKeeps ==
  ASSUME IInv, Quiet, RemoveFile
  PROVE  IInv'
<1>1. TypeOK /\ Course /\ DiskFits /\ FilesFit /\ op \in Ops /\ journal \in Seq(Entries)
  BY TypesFit DEF IInv, ControlOK
<1>2. /\ phase = "commit" /\ Head(todo) = "remove" /\ UNCHANGED <<content, noticed, faults>>
  BY DEF RemoveFile, Doing
<1>3. PICK n \in Nat :
        /\ n = Len(journal) /\ n = op /\ failure = "none" /\ kinds[op] # "create"
        /\ kinds[op] = "update" => /\ Len(todo) > 1 /\ Tail(todo) \in After(kinds[op])
                                   /\ Head(Tail(todo)) = "install"
        /\ kinds[op] # "update" => Len(todo) = 1
  BY <1>1, <1>2, AtCommit, OpsFit DEF Halfway
<1>4. CASE Refuse("commit") /\ dir' = dir
  BY <1>2, <1>4, CallRefusedKeeps
<1>5. CASE Unlink(From(op)) /\ Continue
  <2>1. PICK place \in {"source", "target"} :
          /\ From(op) = <<place, op>>
          /\ place = IF kinds[op] = "rename" THEN "source" ELSE "target"
    BY DEF From
  <2>2. FilesOK' /\ Only(place, op, None)
    <3>1. place \in Places /\ dir' = [dir EXCEPT ![<<place, op>>] = None]
      BY <1>5, <2>1 DEF Places, Unlink
    <3> QED
      BY <1>1, <1>2, <3>1, Changing
  <2>3. DiskFits'
    <3>1. None # New(op)
      BY <1>1, OwnContents
    <3> QED
      BY <1>1, <1>2, <2>1, <2>2, <3>1, DiskChanges DEF Quiet
  <2>4. AfterStep /\ UNCHANGED <<journal, failure, complete, reported>>
    BY <1>5 DEF Continue
  <2>5. /\ Len(todo) = 1 => \/ op = N /\ phase' = "tidy" /\ op' = 1
                            \/ op < N /\ phase' = "commit" /\ op' = op + 1
        /\ Len(todo) # 1 => phase' = "commit" /\ op' = op /\ todo' = Tail(todo)
    <3>1. Len(todo) = 1 => \/ op = N /\ phase' = "tidy" /\ op' = 1
                           \/ op < N /\ phase' = "commit" /\ op' = op + 1
      <4>1. Len(todo) = 1 => NextOp("commit", "tidy") /\ RestOK
        BY <1>1, <2>4, TypesFit DEF AfterStep
      <4> QED
        BY <1>1, <4>1, GoingOn
    <3>2. Len(todo) # 1 => phase' = "commit" /\ op' = op /\ todo' = Tail(todo)
      BY <1>2, <2>4 DEF AfterStep
    <3> QED
      BY <3>1, <3>2
  <2>6. op \in Nat /\ kinds[op] \in Kinds
    BY <1>1, OpsFit, TypesFit DEF RestOK
  <2>7. CASE kinds[op] = "update"
    <3>1. phase' = "commit" /\ op' = op /\ todo' = Tail(todo) /\ Head(todo') = "install"
      BY <1>3, <2>5, <2>7
    <3>2. op \notin touched => dir'[Spare(op)] = Old(op)
      <4>1. op \notin touched => dir[Spare(op)] = Old(op)
        BY <1>1, <1>2, <1>3, <2>6 DEF FilesFit, AllKept, Kept
      <4> QED
        BY <1>1, <2>1, <2>2, <2>7, <4>1 DEF Only, Spare
    <3>3. AllKept' /\ AllFollowed' /\ AllKnown'
      <4>1. op' >= op /\ n \in {op - 1, op} /\ Len(journal') = op /\ Head(todo') # "unstage"
        <5>1. Head(todo') # "unstage"
          BY <3>1
        <5>2. op' >= op
          BY <2>6, <3>1
        <5>3. n \in {op - 1, op} /\ Len(journal') = op
          BY <1>3, <2>4
        <5> QED
          BY <5>1, <5>2, <5>3
      <4> QED
        BY <1>2, <1>3, <2>2, <2>4, <3>1, <3>2, <4>1, CallFiles
    <3>4. \A j \in Ops : dir'[Backup(j)] # None => j <= Len(journal')
      BY <1>1, <1>2, <1>3, <2>1, <2>2, <2>4, BackupsHaveEntries DEF Only
    <3>5. /\ Len(todo) > 1 /\ Len(journal') = op /\ Tail(todo) \in After(kinds[op])
          /\ journal' \in Seq(Entries) /\ \A i \in 1..Len(journal') : journal'[i].op = i
      BY <1>1, <1>3, <2>4, <2>7 DEF Course
    <3> QED
      BY <1>1, <1>2, <2>2, <2>3, <2>4, <3>3, <3>4, <3>5, NothingSeen, CommitKeeps
  <2>8. CASE kinds[op] # "update"
    <3>1. \/ phase' = "tidy"
          \/ phase' = "commit" /\ op' = op + 1
      BY <1>3, <2>5, <2>8
    <3>2. op \notin touched => dir'[Spare(op)] = Old(op) /\ MadeAfter(op)
      <4>1. op \notin touched => dir[Spare(op)] = Old(op)
        BY <1>1, <1>2, <1>3, <2>6 DEF FilesFit, AllKept, Kept
      <4>2. CASE kinds[op] = "delete"
        <5>1. dir'[Backup(op)] = dir[Backup(op)] /\ dir'[To(op)] = None
          BY <1>1, <2>1, <2>2, <4>2 DEF Only
        <5> QED
          BY <4>1, <4>2, <5>1 DEF Spare, MadeAfter
      <4>3. CASE kinds[op] = "rename"
        <5>1. dir'[To(op)] = dir[To(op)] /\ dir'[From(op)] = None
          BY <1>1, <2>1, <2>2, <4>3 DEF Only, Source
        <5> QED
          BY <4>1, <4>3, <5>1 DEF Spare, MadeAfter
      <4> QED
        BY <1>3, <2>6, <2>8, <4>2, <4>3 DEF Kinds
    <3>3. AllKept' /\ AllFollowed' /\ AllKnown'
      <4>1. op' # op \/ phase' = "tidy"
        BY <2>6, <3>1
      <4>2. phase' # "commit" \/ op' >= op
        BY <2>6, <3>1
      <4> QED
        BY <1>2, <1>3, <2>2, <2>4, <2>6, <3>1, <3>2, <4>1, <4>2, CallFiles DEF Undisturbed
    <3>4. \A j \in Ops : dir'[Backup(j)] # None => j <= Len(journal')
      BY <1>1, <1>2, <1>3, <2>1, <2>2, <2>4, BackupsHaveEntries DEF Only
    <3>5. /\ Len(todo) = 1 /\ Len(journal') = op
          /\ journal' \in Seq(Entries) /\ \A i \in 1..Len(journal') : journal'[i].op = i
      BY <1>1, <1>3, <2>4, <2>8 DEF Course
    <3> QED
      BY <1>1, <1>2, <2>2, <2>3, <2>4, <3>3, <3>4, <3>5, NothingSeen, CommitKeeps
  <2> QED
    BY <2>7, <2>8
<1> QED
  BY <1>4, <1>5 DEF RemoveFile

LEMMA InstallKeeps ==
  ASSUME IInv, Quiet, Install
  PROVE  IInv'
<1>1. TypeOK /\ Course /\ DiskFits /\ FilesFit /\ op \in Ops /\ journal \in Seq(Entries)
  BY TypesFit DEF IInv, ControlOK
<1>2. /\ phase = "commit" /\ Head(todo) = "install" /\ UNCHANGED <<content, noticed, faults>>
  BY DEF Install, Doing
<1>3. PICK n \in Nat :
        /\ n = Len(journal) /\ n = (IF kinds[op] = "update" THEN op ELSE op - 1)
        /\ failure = "none" /\ kinds[op] # "delete"
        /\ Len(todo) > 1 /\ Tail(todo) \in After(kinds[op])
        /\ Head(Tail(todo)) = (IF kinds[op] = "rename" THEN "remove" ELSE "unstage")
  <2>1. op \in Nat /\ op >= 1
    BY <1>1, OpsFit
  <2> QED
    BY <1>1, <1>2, <2>1, AtCommit DEF Halfway
<1>4. CASE Refuse("commit") /\ dir' = dir
  BY <1>2, <1>4, CallRefusedKeeps
<1>5. ASSUME NEW source, source = IF kinds[op] = "rename" THEN From(op) ELSE Stage(op),
             CanLink(source, To(op)), Link(source, To(op)), ContinueWith(Installed(op))
      PROVE  IInv'
  <2>1. PICK v \in Contents \cup {None} :
          /\ v = dir[source] /\ v # None /\ dir' = [dir EXCEPT ![<<"target", op>>] = v]
    BY <1>1, <1>5, Contenting, OwnNames DEF CanLink, Link, To
  <2>2. op \in Nat /\ op >= 1 /\ kinds[op] \in Kinds
    BY <1>1, OpsFit, TypesFit DEF RestOK
  <2>3. /\ kinds[op] # "rename" => v = New(op) /\ kinds[op] \in {"create", "update"}
        /\ kinds[op] = "rename" => v = dir[From(op)] /\ v \in {Old(op)} \cup Saved
    BY <1>1, <1>3, <1>5, <2>1, <2>2, OwnNames DEF DiskFits, NamesFit, Kinds
  <2>4. /\ v \in {None, Old(op), New(op)} \cup Saved
        /\ v = New(op) => kinds[op] \in {"create", "update"}
    BY <1>1, <2>2, <2>3, OwnContents, SavedContents, TypesFit
  <2>5. FilesOK' /\ Only("target", op, v)
    <3>1. "target" \in Places
      BY DEF Places
    <3> QED
      BY <1>1, <1>2, <2>1, <3>1, Changing
  <2>6. DiskFits'
    BY <1>1, <1>2, <2>4, <2>5, DiskChanges DEF Quiet
  <2>7. /\ journal' = Installed(op) /\ AfterStep /\ UNCHANGED <<failure, complete, reported>>
    BY <1>5 DEF ContinueWith
  <2>8. /\ journal' \in Seq(Entries) /\ Len(journal') = op
        /\ \A i \in 1..Len(journal') : journal'[i].op = i
    <3>1. PICK s \in Seq(Entries), m \in Nat :
            /\ m = Len(s) /\ op = m + 1 /\ \A i \in 1..m : s[i].op = i
            /\ journal' = Append(s, Undo(op, TRUE))
      <4>1. CASE kinds[op] = "update"
        <5>1. Len(journal) > 0 /\ Len(journal) = op
          BY <1>3, <2>2, <4>1
        <5>2. PICK s : s = Front(journal)
          OBVIOUS
        <5>3. /\ s \in Seq(Entries) /\ Len(s) = op - 1
              /\ \A i \in 1..op - 1 : s[i] = journal[i]
          BY <1>1, <5>1, <5>2, FrontFits
        <5>4. \A i \in 1..op - 1 : s[i].op = i
          BY <1>1, <2>2, <5>1, <5>3 DEF Course
        <5>5. op - 1 \in Nat /\ op = (op - 1) + 1
          BY <2>2
        <5>6. journal' = Append(s, Undo(op, TRUE))
          BY <2>7, <4>1, <5>2 DEF Installed
        <5> QED
          BY <5>3, <5>4, <5>5, <5>6
      <4>2. CASE kinds[op] # "update"
        <5>1. n = Len(journal) /\ op = n + 1 /\ \A i \in 1..n : journal[i].op = i
          BY <1>1, <1>3, <2>2, <4>2 DEF Course
        <5>2. journal' = Append(journal, Undo(op, TRUE))
          BY <2>7, <4>2 DEF Installed
        <5> QED
          BY <1>1, <5>1, <5>2
      <4> QED
        BY <4>1, <4>2
    <3>2. PICK e \in Entries : e.op = op /\ journal' = Append(s, e)
      BY <1>1, <3>1 DEF Undo, Entries
    <3> QED
      BY <1>1, <3>1, <3>2, Journaling
  <2>9. phase' = "commit" /\ op' = op /\ todo' = Tail(todo)
    <3>1. Len(todo) # 1
      BY <1>1, <1>3, TypesFit DEF ControlOK
    <3> QED
      BY <1>2, <2>7, <3>1 DEF AfterStep
  <2>10. kinds[op] # "create" /\ op \notin touched => dir'[Spare(op)] = Old(op)
    <3>1. CASE kinds[op] = "update"
      <4>1. op \notin touched => dir[Backup(op)] = Old(op)
        BY <1>1, <1>2, <1>3, <2>2, <3>1 DEF FilesFit, AllKept, Kept, Spare
      <4> QED
        BY <1>1, <2>5, <3>1, <4>1 DEF Only, Spare
    <3>2. CASE kinds[op] = "rename"
      <4>1. op \notin touched => dir[From(op)] = Old(op)
        BY <1>1, <1>2, <1>3, <2>2, <3>2 DEF FilesFit, AllKept, Kept
      <4> QED
        BY <1>1, <2>3, <2>5, <3>2, <4>1 DEF Only, Spare
    <3> QED
      BY <2>3, <3>1, <3>2
  <2>11. kinds[op] # "rename" => MadeAfter(op)
    BY <1>1, <2>3, <2>5 DEF Only, MadeAfter
  <2>12. AllKept' /\ AllFollowed' /\ AllKnown'
    <3>1. n \in {op - 1, op}
      BY <1>3
    <3>2. Head(todo') = "unstage" => kinds[op] # "rename"
      BY <1>3, <2>9
    <3> QED
      BY <1>2, <1>3, <2>2, <2>5, <2>7, <2>8, <2>9, <2>10, <2>11, <3>1, <3>2, CallFiles
  <2>13. \A j \in Ops : dir'[Backup(j)] # None => j <= Len(journal')
    <3>1. ASSUME NEW j \in Ops, dir'[Backup(j)] # None PROVE j <= Len(journal')
      <4>1. dir[Backup(j)] # None
        BY <1>1, <2>5, <3>1 DEF Only
      <4>2. j <= n /\ j \in Nat
        BY <1>1, <1>2, <1>3, <4>1, BackupsHaveEntries, OpsFit
      <4> QED
        BY <1>3, <2>2, <2>8, <4>2
    <3> QED
      BY <3>1
  <2> QED
    BY <1>1, <1>2, <1>3, <2>5, <2>6, <2>7, <2>8, <2>12, <2>13, NothingSeen, CommitKeeps
<1> QED
  BY <1>4, <1>5 DEF Install

-----------------------------------------------------------------------------
(* After the commit or the rollback *)

LEMMA MoveKeeps ==
  ASSUME IInv, Quiet, FilesOK', DiskFits', FilesStay,
         phase \in {"tidy", "sync"}, phase' \in {"tidy", "sync", "verify", "done"},
         op' \in Ops, todo' \in Seq(Calls), journal' = journal, failure' = failure,
         phase' = "verify" => failure = "none", phase' = "done" => failure # "none",
         complete' \in BOOLEAN, complete' => complete, failure = "none" => complete' = complete,
         reported \subseteq reported', reported' \subseteq Names,
         noticed' = noticed, Fault \/ faults' = faults,
         \A k \in Ops : dir'[Stage(k)] # None =>
                          Stage(k) \in reported' \/ (phase' = "tidy" /\ k >= op')
  PROVE  IInv'
<1>1. TypeOK /\ Course /\ FilesFit /\ Known /\ ControlOK
  BY TypesFit DEF IInv
<1>2. TypeOK'
  <2>1. ControlOK'
    BY <1>1 DEF ControlOK, Phases
  <2>2. RestOK'
    BY <1>1, NothingSeen, Faulting, RestStays DEF Quiet
  <2> QED
    BY <2>1, <2>2, TypesFitAfter
<1>3. IF failure = "none" THEN Len(journal) = N ELSE journal = <<>>
  BY <1>1 DEF Course
<1>4. Course'
  BY <1>1, <1>3 DEF Course
<1>5. /\ UNCHANGED <<kinds, content, touched, met>>
      /\ \A k \in Ops : /\ dir'[From(k)] = dir[From(k)] /\ dir'[Spare(k)] = dir[Spare(k)]
                        /\ dir'[To(k)] = dir[To(k)] /\ dir'[Backup(k)] = dir[Backup(k)]
  BY NamesAlike DEF FilesStay
<1>6. ASSUME NEW k \in Ops \ touched PROVE KeptAfter(k)
  BY <1>1, <1>5 DEF FilesFit, AllKept, Kept, KeptAfter
<1>7. ASSUME NEW k \in Undisturbed PROVE FollowedAfter(k)
  <2>1. Followed(k) /\ k \in Ops
    BY <1>1 DEF FilesFit, AllFollowed, Undisturbed
  <2>2. SettledAfter(k) => Settled(k)
    BY DEF SettledAfter, Settled
  <2> QED
    BY <1>5, <2>1, <2>2 DEF Followed, FollowedAfter, Original, OriginalAfter, Made, MadeAfter
<1>8. ASSUME NEW k \in Ops PROVE NewIsKnownAfter(k)
  BY <1>1, <1>5 DEF FilesFit, AllKnown, NewIsKnown, NewIsKnownAfter, Gone, GoneAfter
<1>9. ASSUME NEW k \in Ops PROVE LeftoverAfter(k)
  <2>1. Leftover(k)
    BY <1>1 DEF FilesFit, AllLeft
  <2>2. failure # "none" => ~(k <= Len(journal))
    <3>1. Len(<<>>) = 0 /\ k \in Nat /\ k >= 1
      BY OpsFit
    <3> QED
      BY <1>3, <3>1
  <2>3. dir[Backup(k)] # None =>
          \/ k <= Len(journal) /\ phase' # "done"
          \/ Backup(k) \in reported' /\ failure # "none"
    BY <2>1, <2>2 DEF Leftover, Exists
  <2> QED
    BY <1>5, <2>3 DEF LeftoverAfter
<1>10. Known'
  <2>1. \A n \in 1..MaxSaves : Other(n) \in noticed' => Other(n) \in noticed \/ n <= saves
    OBVIOUS
  <2>2. phase' # "rollback"
    OBVIOUS
  <2>3. CASE failure = "none"
    BY <1>1, <2>2, <2>3, KnownGoesOn
  <2>4. CASE failure # "none"
    BY <1>1, <2>1, <2>2, <2>4, KnownBehind DEF Quiet
  <2> QED
    BY <2>3, <2>4
<1> QED
  BY <1>2, <1>4, <1>5, <1>6, <1>7, <1>8, <1>9, <1>10, AllAfter DEF IInv, FilesFit

LEMMA TidyKeeps ==
  ASSUME IInv, Quiet, Tidy
  PROVE  IInv'
<1>1. TypeOK /\ Course /\ FilesFit /\ op \in Ops /\ ControlOK /\ RestOK
  BY TypesFit DEF IInv, ControlOK
<1>2. /\ phase = "tidy" /\ UNCHANGED <<content, journal, failure, complete, noticed>>
      /\ Fault \/ faults' = faults
      /\ \/ dir' = [dir EXCEPT ![Stage(op)] = None] /\ reported' = reported
         \/ dir' = dir /\ reported' = reported \cup {Stage(op)}
  BY DEF Tidy, Unlink, Named
<1>3. /\ FilesOK' /\ DiskFits' /\ FilesStay
      /\ \A k \in Ops : dir'[Stage(k)] # None => dir[Stage(k)] # None
      /\ dir'[Stage(op)] # None => Stage(op) \in reported'
  <2>1. CASE dir' = [dir EXCEPT ![Stage(op)] = None]
    <3>1. /\ FilesOK' /\ DiskFits' /\ FilesStay
          /\ \A j \in Ops : dir'[Stage(j)] = IF j = op THEN None ELSE dir[Stage(j)]
      BY <1>1, <1>2, <2>1, StageChanges
    <3> QED
      BY <1>1, <3>1
  <2>2. CASE dir' = dir /\ reported' = reported \cup {Stage(op)}
    BY <1>2, <2>2, DirStays
  <2> QED
    BY <1>2, <2>1, <2>2
<1>4. PICK q \in {"done", "sync"} : NextOp("tidy", q) /\ (q = "done" => failure # "none")
  BY DEF Tidy
<1>5. /\ op' \in Ops /\ todo' \in Seq(Calls)
      /\ \/ op = N /\ phase' = q
         \/ op < N /\ phase' = "tidy" /\ op' = op + 1
  BY <1>1, <1>4, GoingOn
<1>6. ASSUME NEW k \in Ops, dir'[Stage(k)] # None
      PROVE  Stage(k) \in reported' \/ (phase' = "tidy" /\ k >= op')
  <2>1. Stage(k) \in reported \/ k >= op
    BY <1>1, <1>2, <1>3, <1>6 DEF FilesFit, AllLeft, Leftover, Exists
  <2>2. CASE Stage(k) \in reported
    BY <1>2, <2>2
  <2>3. CASE k = op
    BY <1>3, <1>6, <2>3
  <2>4. CASE k # op /\ k >= op
    BY <1>1, <1>5, <2>4, OpsFit
  <2> QED
    BY <2>1, <2>2, <2>3, <2>4
<1>7. reported \subseteq reported' /\ reported' \subseteq Names /\ complete \in BOOLEAN
  BY <1>1, <1>2, OwnNames DEF ControlOK
<1> QED
  BY <1>2, <1>3, <1>4, <1>5, <1>6, <1>7, MoveKeeps

LEMMA SyncKeeps ==
  ASSUME IInv, Quiet, Sync
  PROVE  IInv'
<1>1. TypeOK /\ Course /\ FilesFit /\ ControlOK /\ RestOK
  BY TypesFit DEF IInv
<1>2. phase = "sync" /\ UNCHANGED <<dir, content, noticed>> /\ (Fault \/ faults' = faults)
  BY DEF Sync
<1>3. FilesOK' /\ DiskFits' /\ FilesStay
  BY <1>2, DirStays
<1>4. CASE failure = "none" /\ Refuse("sync")
  BY <1>1, <1>2, <1>3, <1>4, NothingSeen, RefusalKeeps DEF Failures
<1>5. CASE /\ Enter(IF failure = "none" THEN "verify" ELSE "done")
           /\ UNCHANGED <<journal, failure, reported>>
           /\ complete' = complete \/ (failure # "none" /\ complete' = FALSE)
  <2>1. /\ phase' = IF failure = "none" THEN "verify" ELSE "done"
        /\ op' \in Ops /\ todo' \in Seq(Calls)
    BY <1>1, <1>5, Entering
  <2>2. \A k \in Ops : dir'[Stage(k)] # None => Stage(k) \in reported'
    BY <1>1, <1>2, <1>5 DEF FilesFit, AllLeft, Leftover, Exists
  <2>3. reported' \subseteq Names /\ complete' \in BOOLEAN /\ (complete' => complete)
    <3>1. reported' \subseteq Names
      BY <1>1, <1>5 DEF ControlOK
    <3>2. complete \in BOOLEAN
      BY <1>1 DEF ControlOK
    <3>3. complete' = complete \/ complete' = FALSE
      BY <1>5
    <3>4. complete' \in BOOLEAN
      BY <3>2, <3>3, Zenon
    <3>5. complete' => complete
      BY <3>3, Zenon
    <3> QED
      BY <3>1, <3>4, <3>5
  <2> QED
    BY <1>2, <1>3, <1>5, <2>1, <2>2, <2>3, MoveKeeps
<1> QED
  BY <1>4, <1>5 DEF Sync

LEMMA DropBackupKeeps ==
  ASSUME IInv, Quiet, DropBackup
  PROVE  IInv'
<1>1. TypeOK /\ Course /\ FilesFit /\ op \in Ops /\ ControlOK /\ RestOK /\ Known /\ DiskFits
  BY TypesFit DEF IInv, ControlOK
<1>2. /\ phase = "backups" /\ UNCHANGED <<content, journal, failure, complete, noticed>>
      /\ Fault \/ faults' = faults
      /\ \/ dir' = [dir EXCEPT ![Backup(op)] = None] /\ reported' = reported
         \/ dir' = dir /\ reported' = reported \cup {Backup(op)}
  BY DEF DropBackup, Unlink, Named
<1>3. failure = "none" /\ Len(journal) = N
  BY <1>1, <1>2 DEF Course
<1>4. PICK v \in {dir[Backup(op)], None} :
        /\ FilesOK' /\ Only("backup", op, v) /\ DiskFits'
        /\ v # None => Backup(op) \in reported'
  <2>1. CASE dir' = [dir EXCEPT ![Backup(op)] = None]
    <3>1. dir' = [dir EXCEPT ![<<"backup", op>>] = None] /\ "backup" \in Places
      BY <2>1 DEF Backup, Places
    <3>2. FilesOK' /\ Only("backup", op, None)
      BY <1>1, <1>2, <3>1, Changing
    <3>3. DiskFits'
      BY <1>1, <1>2, <3>2, DiskChanges DEF Quiet
    <3> QED
      BY <3>2, <3>3
  <2>2. CASE dir' = dir /\ reported' = reported \cup {Backup(op)}
    <3>1. FilesOK' /\ DiskFits'
      BY <1>2, <2>2, DirStays
    <3>2. Only("backup", op, dir[Backup(op)])
      BY <2>2 DEF Only
    <3> QED
      BY <2>2, <3>1, <3>2
  <2> QED
    BY <1>2, <2>1, <2>2
<1>5. /\ op' \in Ops /\ todo' \in Seq(Calls)
      /\ \/ op = N /\ phase' = "done"
         \/ op < N /\ phase' = "backups" /\ op' = op + 1
  <2>1. NextOp("backups", "done")
    BY DEF DropBackup
  <2> QED
    BY <1>1, <2>1, GoingOn
<1>6. \A k \in Ops : k \in Nat /\ k <= Len(journal') /\ ~(k > Len(journal'))
  BY <1>2, <1>3, OpsFit
<1>7. reported \subseteq reported' /\ reported' \subseteq Names
  BY <1>1, <1>2, OwnNames DEF ControlOK
<1>8. TypeOK'
  <2>1. ControlOK'
    BY <1>1, <1>2, <1>5, <1>7 DEF ControlOK, Phases
  <2>2. RestOK'
    BY <1>1, <1>2, NothingSeen, Faulting, RestStays DEF Quiet
  <2> QED
    BY <1>4, <2>1, <2>2, TypesFitAfter
<1>9. Course'
  BY <1>1, <1>2, <1>3, <1>5 DEF Course
<1>10. ASSUME NEW k \in Ops \ touched PROVE KeptAfter(k)
  BY <1>1, <1>2, <1>5, <1>6 DEF FilesFit, AllKept, Kept, KeptAfter
<1>11. ASSUME NEW k \in Undisturbed PROVE FollowedAfter(k)
  <2>1. Followed(k) /\ k \in Ops /\ Settled(k)
    BY <1>1, <1>2, <1>6 DEF FilesFit, AllFollowed, Undisturbed, Settled
  <2>2. dir'[To(k)] = dir[To(k)] /\ dir'[From(k)] = dir[From(k)]
    BY <1>4, <2>1, OwnNames DEF Only
  <2> QED
    BY <1>3, <1>6, <2>1, <2>2 DEF Followed, FollowedAfter, Made, MadeAfter
<1>12. ASSUME NEW k \in Ops PROVE NewIsKnownAfter(k)
  BY <1>5, <1>6 DEF NewIsKnownAfter
<1>13. ASSUME NEW k \in Ops PROVE LeftoverAfter(k)
  <2>1. Leftover(k)
    BY <1>1 DEF FilesFit, AllLeft
  <2>2. dir'[Stage(k)] # None => Stage(k) \in reported'
    BY <1>2, <1>4, <1>7, <2>1 DEF Leftover, Exists, Only
  <2>3. dir'[Backup(k)] # None =>
          Backup(k) \in reported' \/ (phase' # "done" /\ ~(k < op'))
    <3>1. CASE k = op
      BY <1>4, <3>1 DEF Only
    <3>2. CASE k # op
      <4>1. dir'[Backup(k)] = dir[Backup(k)]
        BY <1>4, <3>2 DEF Only
      <4>2. dir[Backup(k)] # None => Backup(k) \in reported \/ ~(k < op)
        BY <1>2, <2>1 DEF Leftover, Exists
      <4>3. ~(k < op) => phase' # "done" /\ ~(k < op')
        BY <1>1, <1>5, <3>2, OpsFit
      <4> QED
        BY <1>7, <4>1, <4>2, <4>3
    <3> QED
      BY <3>1, <3>2
  <2> QED
    BY <1>5, <1>6, <2>2, <2>3 DEF LeftoverAfter
<1>14. Known'
  BY <1>1, <1>2, <1>3, <1>5, KnownGoesOn
<1> QED
  BY <1>4, <1>8, <1>9, <1>10, <1>11, <1>12, <1>13, <1>14, AllAfter DEF IInv, FilesFit, Quiet

-----------------------------------------------------------------------------
(* The rollback *)

(* A step at the entry of operation n leaves the others' names alone.      *)
OthersAlike(n) ==
  \A j \in Ops : j # n => /\ dir'[From(j)] = dir[From(j)] /\ dir'[Spare(j)] = dir[Spare(j)]
                          /\ dir'[To(j)] = dir[To(j)] /\ dir'[Backup(j)] = dir[Backup(j)]

LEMMA OthersAreAlike ==
  ASSUME NEW n, dir' = dir \/ \E place, v : Only(place, n, v)
  PROVE  OthersAlike(n)
<1>1. CASE dir' = dir
  BY <1>1 DEF OthersAlike
<1>2. ASSUME NEW place, NEW v, Only(place, n, v) PROVE OthersAlike(n)
  BY <1>2, OthersStay DEF OthersAlike
<1> QED
  BY <1>1, <1>2

LEMMA EndingKeeps ==
  ASSUME IInv, Quiet, phase = "rollback", content' = content, FilesOK', DiskFits',
         NEW n \in Ops, n = Len(journal), OthersAlike(n),
         NEW undone \in BOOLEAN, EntryEnds(undone), Fault \/ faults' = faults,
         n \notin touched /\ kinds[n] # "create" =>
           dir'[From(n)] = Old(n) \/ dir'[Spare(n)] = Old(n),
         undone /\ complete /\ n \in Undisturbed => OriginalAfter(n),
         undone /\ complete => GoneAfter(n),
         noticed' \subseteq Contents \cup {None},
         \A m \in 1..MaxSaves : Other(m) \in noticed' => Other(m) \in noticed \/ m <= saves
  PROVE  IInv'
<1>1. /\ TypeOK /\ Course /\ FilesFit /\ Known /\ failure # "none"
      /\ UNCHANGED <<kinds, touched, met, saves>>
  BY AtEntry DEF IInv, Quiet
<1>2. /\ ControlOK' /\ Course'
      /\ failure' = failure /\ Len(journal') = n - 1
      /\ complete' = (complete /\ undone) /\ reported \subseteq reported'
      /\ \/ phase' = "tidy" /\ op' = 1
         \/ phase' = "rollback" /\ todo' = <<"compare">>
      /\ HasBackup(n) /\ dir'[Backup(n)] # None => Backup(n) \in reported'
  BY <1>1, Ending
<1>3. TypeOK'
  <2>1. RestOK'
    BY <1>1, Faulting, RestStays DEF Quiet
  <2> QED
    BY <1>2, <2>1, TypesFitAfter
<1>4. n \in Nat /\ \A k \in Ops : k \in Nat
  BY OpsFit
<1>5. \A k \in Ops : /\ k <= Len(journal') => k <= Len(journal) /\ k # n
                     /\ k > Len(journal') => k = n \/ k > Len(journal)
                     /\ k <= Len(journal) /\ k # n => k <= Len(journal')
  <2>1. \A k \in Ops : /\ k <= n - 1 => k <= n /\ k # n
                       /\ k > n - 1 => k = n \/ k > n
                       /\ k <= n /\ k # n => k <= n - 1
    BY <1>4
  <2> QED
    BY <1>2, <2>1
<1>6. <<"compare">> # <<"drop">> /\ Head(<<"compare">>) = "compare"
  OBVIOUS
<1>7. ASSUME NEW k \in Ops \ touched PROVE KeptAfter(k)
  <2>1. Kept(k)
    BY <1>1 DEF FilesFit, AllKept
  <2>2. CASE k = n
    BY <1>1, <1>2, <1>5, <1>6, <2>1, <2>2 DEF Kept, KeptAfter
  <2>3. CASE k # n
    <3>1. /\ dir'[From(k)] = dir[From(k)] /\ dir'[Spare(k)] = dir[Spare(k)]
      BY <2>3 DEF OthersAlike
    <3> QED
      BY <1>1, <1>2, <1>5, <1>6, <2>1, <2>3, <3>1 DEF Kept, KeptAfter
  <2> QED
    BY <2>2, <2>3
<1>8. complete' => complete /\ undone
  BY <1>2
<1>9. ASSUME NEW k \in Undisturbed PROVE FollowedAfter(k)
  <2>1. Followed(k) /\ k \in Ops
    BY <1>1 DEF FilesFit, AllFollowed, Undisturbed
  <2>2. CASE k = n
    BY <1>1, <1>2, <1>8, <2>2 DEF FollowedAfter
  <2>3. CASE k # n
    <3>1. /\ dir'[From(k)] = dir[From(k)] /\ dir'[To(k)] = dir[To(k)]
      BY <2>1, <2>3 DEF OthersAlike
    <3> QED
      BY <1>1, <1>2, <1>5, <1>8, <2>1, <2>3, <3>1
         DEF Followed, FollowedAfter, Original, OriginalAfter
  <2> QED
    BY <2>2, <2>3
<1>10. ASSUME NEW k \in Ops PROVE NewIsKnownAfter(k)
  <2>1. NewIsKnown(k)
    BY <1>1 DEF FilesFit, AllKnown
  <2>2. CASE k = n
    BY <1>1, <1>2, <1>6, <1>8, <2>2 DEF NewIsKnownAfter
  <2>3. CASE k # n
    <3>1. dir'[To(k)] = dir[To(k)]
      BY <2>3 DEF OthersAlike
    <3> QED
      BY <1>1, <1>2, <1>5, <1>6, <1>8, <2>1, <2>3, <3>1
         DEF NewIsKnown, NewIsKnownAfter, Gone, GoneAfter
  <2> QED
    BY <2>2, <2>3
<1>11. AllLeft'
  <2>1. ASSUME NEW j \in Ops, dir'[Backup(j)] # None
        PROVE  \/ j <= Len(journal')
               \/ Backup(j) \in reported' /\ failure' # "none"
    <3>1. CASE j = n
      <4>1. HasBackup(n)
        BY <1>1, <2>1, <3>1, NamesStay DEF DiskFits, NamesFit, Exists
      <4> QED
        BY <1>1, <1>2, <2>1, <3>1, <4>1
    <3>2. CASE j # n
      <4>1. dir[Backup(j)] # None
        BY <2>1, <3>2 DEF OthersAlike
      <4>2. j <= Len(journal) \/ Backup(j) \in reported
        BY <1>1, <4>1 DEF FilesFit, AllLeft, Leftover, Exists
      <4> QED
        BY <1>1, <1>2, <1>5, <3>2, <4>2
    <3> QED
      BY <3>1, <3>2
  <2> QED
    BY <1>1, <1>2, <2>1, LeftMidway
<1>12. Known'
  BY <1>1, <1>2, <1>6, KnownBehind
<1> QED
  BY <1>1, <1>2, <1>3, <1>7, <1>9, <1>10, <1>11, <1>12, AllAfter DEF IInv, FilesFit

ContentAfter(name) == IF dir'[name] = None THEN None ELSE content'[dir'[name]]

LEMMA UndoingKeeps ==
  ASSUME IInv, Quiet, phase = "rollback", content' = content, FilesOK', DiskFits',
         UNCHANGED <<phase, op, journal, failure, complete, reported>>,
         NEW n \in Ops, n = Len(journal), OthersAlike(n), dir'[Backup(n)] = dir[Backup(n)],
         todo' \in Seq(Calls), todo' \in Undoings(kinds[n]), Head(todo') # "compare",
         Fault \/ faults' = faults,
         n \notin touched /\ kinds[n] # "create" =>
           dir'[Spare(n)] = Old(n) /\ (todo' = <<"drop">> => dir'[From(n)] = Old(n)),
         kinds[n] # "create" /\ Head(todo') \in {"restore", "drop"} => GoneAfter(n),
         noticed' \subseteq Contents \cup {None},
         \A m \in 1..MaxSaves : Other(m) \in noticed' => Other(m) \in noticed \/ m <= saves,
         \A name \in Paths(n) \cup {Backup(n)} :
           \A m \in 1..MaxSaves : ContentAfter(name) = Other(m) => Other(m) \notin noticed'
  PROVE  IInv'
<1>1. /\ TypeOK /\ Course /\ FilesFit /\ Known /\ failure # "none"
      /\ UNCHANGED <<kinds, touched, met, saves>> /\ ControlOK
  BY AtEntry, TypesFit DEF IInv, Quiet
<1>2. TypeOK'
  <2>1. RestOK'
    BY <1>1, Faulting, RestStays DEF Quiet
  <2>2. ControlOK'
    BY <1>1 DEF ControlOK
  <2> QED
    BY <2>1, <2>2, TypesFitAfter
<1>3. Course'
  BY <1>1 DEF Course
<1>4. n \in Nat /\ \A k \in Ops : k \in Nat
  BY OpsFit
<1>5. n <= Len(journal') /\ ~(n > Len(journal'))
  BY <1>4
<1>6. ASSUME NEW k \in Ops \ touched PROVE KeptAfter(k)
  <2>1. Kept(k)
    BY <1>1 DEF FilesFit, AllKept
  <2>2. CASE k = n
    BY <1>1, <1>5, <2>1, <2>2 DEF Kept, KeptAfter
  <2>3. CASE k # n
    <3>1. /\ dir'[From(k)] = dir[From(k)] /\ dir'[Spare(k)] = dir[Spare(k)]
      BY <2>3 DEF OthersAlike
    <3> QED
      BY <1>1, <2>1, <2>3, <3>1 DEF Kept, KeptAfter
  <2> QED
    BY <2>2, <2>3
<1>7. ASSUME NEW k \in Undisturbed PROVE FollowedAfter(k)
  <2>1. Followed(k) /\ k \in Ops
    BY <1>1 DEF FilesFit, AllFollowed, Undisturbed
  <2>2. CASE k = n
    BY <1>1, <1>5, <2>2 DEF FollowedAfter
  <2>3. CASE k # n
    <3>1. /\ dir'[From(k)] = dir[From(k)] /\ dir'[To(k)] = dir[To(k)]
      BY <2>1, <2>3 DEF OthersAlike
    <3> QED
      BY <1>1, <2>1, <3>1 DEF Followed, FollowedAfter, Original, OriginalAfter
  <2> QED
    BY <2>2, <2>3
<1>8. ASSUME NEW k \in Ops PROVE NewIsKnownAfter(k)
  <2>1. NewIsKnown(k)
    BY <1>1 DEF FilesFit, AllKnown
  <2>2. CASE k = n
    BY <1>1, <1>5, <2>2 DEF NewIsKnownAfter
  <2>3. CASE k # n
    <3>1. dir'[To(k)] = dir[To(k)]
      BY <2>3 DEF OthersAlike
    <3> QED
      BY <1>1, <2>1, <2>3, <3>1 DEF NewIsKnown, NewIsKnownAfter, Gone, GoneAfter
  <2> QED
    BY <2>2, <2>3
<1>9. AllLeft'
  <2>1. ASSUME NEW j \in Ops, dir'[Backup(j)] # None
        PROVE  \/ j <= Len(journal')
               \/ Backup(j) \in reported' /\ failure' # "none"
    <3>1. dir[Backup(j)] # None
      BY <2>1 DEF OthersAlike
    <3> QED
      BY <1>1, <3>1 DEF FilesFit, AllLeft, Leftover, Exists
  <2> QED
    BY <1>1, <2>1, LeftMidway
<1>10. Known'
  <2>1. \A m \in 1..MaxSaves : Other(m) \in noticed' => m <= saves
    BY <1>1 DEF Known
  <2>2. /\ Len(journal') = n /\ Paths(n)' = Paths(n) /\ Backup(n)' = Backup(n)
    BY <1>1, NamesStay
  <2>3. \A name \in (Paths(Len(journal)) \cup {Backup(Len(journal))})' :
          \A m \in 1..MaxSaves : Content(name)' = Other(m) => Other(m) \notin noticed'
    BY <2>2 DEF Content, ContentAfter
  <2> QED
    BY <1>1, <2>1, <2>3 DEF Known, Other
<1> QED
  BY <1>1, <1>2, <1>3, <1>6, <1>7, <1>8, <1>9, <1>10, AllAfter DEF IInv, FilesFit

(* What is found where the entry of operation n was not refused.           *)
LEMMA VerdictFits ==
  ASSUME IInv, NEW n \in Ops, NEW e \in Entries, e.op = n, NEW verdict, verdict = Verdict(e)
  PROVE  /\ Head(verdict) = "done" =>
              dir[To(n)] = None /\ (kinds[n] # "create" => dir[From(n)] = Old(n))
         /\ Head(verdict) \notin {"done", "refused"} =>
              /\ verdict \in Undoings(kinds[n]) /\ verdict \in Seq(Calls)
              /\ Head(verdict) # "compare"
              /\ verdict = <<"drop">> /\ kinds[n] # "create" => dir[From(n)] = Old(n)
              /\ kinds[n] # "create" /\ Head(verdict) \in {"restore", "drop"} =>
                   dir[To(n)] # New(n)
              /\ \A name \in Paths(n) \cup {Backup(n)} :
                   Content(name) \in {None, Old(n), New(n)}
<1>1. TypeOK /\ DiskFits /\ kinds[n] \in Kinds
  BY TypesFit DEF IInv, RestOK
<1>2. /\ To(n) \in Names /\ From(n) \in Names /\ Backup(n) \in Names
      /\ Paths(n) = {From(n), To(n)} /\ (kinds[n] # "rename" => From(n) = To(n))
  BY OwnNames DEF From, To
<1>3. \A name \in Names : /\ Content(name) = None <=> dir[name] = None
                          /\ Content(name) = Old(n) => dir[name] = Old(n)
                          /\ Content(name) = New(n) => dir[name] = New(n)
  BY <1>1, Contenting, OwnContentTells
<1>4. /\ None # Old(n) /\ None # New(n) /\ Old(n) # New(n)
  BY OwnContents
<1>5. kinds[n] \in {"create", "rename"} => Content(Backup(n)) = None
  BY <1>1, <1>2, <1>3 DEF DiskFits, NamesFit, HasBackup, Exists
<1>6. /\ <<"done">> \in Seq({"done", "refused"}) /\ Head(<<"done">>) = "done"
      /\ Head(<<"refused">>) = "refused"
      /\ <<"drop">> \in Seq(Calls) /\ Head(<<"drop">>) = "drop"
      /\ <<"restore", "drop">> \in Seq(Calls) /\ Head(<<"restore", "drop">>) = "restore"
      /\ <<"remove", "restore", "drop">> \in Seq(Calls)
      /\ Head(<<"remove", "restore", "drop">>) = "remove"
      /\ <<"restore", "drop">> # <<"drop">> /\ <<"remove", "restore", "drop">> # <<"drop">>
  BY DEF Calls
<1>7. CASE kinds[n] = "create"
  <2>1. \/ verdict = <<"done">> /\ Content(To(n)) = None
        \/ verdict = <<"drop">> /\ Content(To(n)) = New(n)
        \/ verdict = <<"refused">>
    BY <1>7 DEF Verdict
  <2>2. CASE verdict = <<"done">> /\ Content(To(n)) = None
    BY <1>2, <1>3, <1>6, <1>7, <2>2
  <2>3. CASE verdict = <<"drop">> /\ Content(To(n)) = New(n)
    BY <1>2, <1>3, <1>5, <1>6, <1>7, <2>3 DEF Undoings
  <2>4. CASE verdict = <<"refused">>
    BY <1>6, <2>4
  <2> QED
    BY <2>1, <2>2, <2>3, <2>4
<1>8. CASE kinds[n] \in {"update", "delete"}
  <2>1. \/ verdict = <<"refused">>
        \/ /\ Content(Backup(n)) = Old(n)
           /\ \/ verdict = <<"restore", "drop">> /\ Content(To(n)) = None
              \/ verdict = <<"drop">> /\ Content(To(n)) = Old(n)
              \/ verdict = <<"remove", "restore", "drop">> /\ Content(To(n)) = New(n)
    <3>1. e.installed \in BOOLEAN
      BY DEF Entries
    <3>2. verdict = IF Content(Backup(n)) # Old(n) THEN <<"refused">>
                    ELSE CASE Content(To(n)) = None -> <<"restore", "drop">>
                           [] Content(To(n)) = Old(n) -> <<"drop">>
                           [] e.installed /\ Content(To(n)) = New(n) ->
                                <<"remove", "restore", "drop">>
                           [] OTHER -> <<"refused">>
      BY <1>8 DEF Verdict
    <3> QED
      BY <3>1, <3>2
  <2>2. CASE verdict = <<"refused">>
    BY <1>6, <2>2
  <2>3. CASE Content(Backup(n)) = Old(n) /\ verdict = <<"restore", "drop">> /\ Content(To(n)) = None
    BY <1>2, <1>3, <1>4, <1>6, <1>8, <2>3 DEF Undoings
  <2>4. CASE Content(Backup(n)) = Old(n) /\ verdict = <<"drop">> /\ Content(To(n)) = Old(n)
    BY <1>2, <1>3, <1>4, <1>6, <1>8, <2>4 DEF Undoings
  <2>5. CASE /\ Content(Backup(n)) = Old(n) /\ verdict = <<"remove", "restore", "drop">>
             /\ Content(To(n)) = New(n)
    BY <1>2, <1>3, <1>4, <1>6, <1>8, <2>5 DEF Undoings
  <2> QED
    BY <2>1, <2>2, <2>3, <2>4, <2>5
<1>9. CASE kinds[n] = "rename"
  <2>1. \/ verdict = <<"refused">>
        \/ verdict = <<"drop">> /\ Content(From(n)) = Old(n) /\ Content(To(n)) = Old(n)
        \/ verdict = <<"done">> /\ Content(From(n)) = Old(n) /\ Content(To(n)) = None
        \/ verdict = <<"restore", "drop">> /\ Content(From(n)) = None /\ Content(To(n)) = Old(n)
    BY <1>9 DEF Verdict
  <2>2. CASE verdict = <<"refused">>
    BY <1>6, <2>2
  <2>3. CASE verdict = <<"drop">> /\ Content(From(n)) = Old(n) /\ Content(To(n)) = Old(n)
    BY <1>2, <1>3, <1>4, <1>5, <1>6, <1>9, <2>3 DEF Undoings
  <2>4. CASE verdict = <<"done">> /\ Content(From(n)) = Old(n) /\ Content(To(n)) = None
    BY <1>2, <1>3, <1>4, <1>6, <1>9, <2>4
  <2>5. CASE verdict = <<"restore", "drop">> /\ Content(From(n)) = None /\ Content(To(n)) = Old(n)
    BY <1>2, <1>3, <1>4, <1>5, <1>6, <1>9, <2>5 DEF Undoings
  <2> QED
    BY <2>1, <2>2, <2>3, <2>4, <2>5
<1> QED
  BY <1>1, <1>7, <1>8, <1>9 DEF Kinds

LEMMA SpareKept ==
  ASSUME IInv, phase = "rollback", NEW n \in Ops, n = Len(journal),
         n \notin touched, kinds[n] # "create"
  PROVE  dir[Spare(n)] = Old(n)
<1>1. n <= Len(journal)
  BY OpsFit
<1> QED
  BY <1>1 DEF IInv, FilesFit, AllKept, Kept

LEMMA CompareKeeps ==
  ASSUME IInv, Quiet, Compare
  PROVE  IInv'
<1>1. TypeOK /\ Course /\ DiskFits
  BY DEF IInv
<1>2. /\ phase = "rollback" /\ UNCHANGED <<dir, content>>
  BY DEF Compare, Undoing
<1>3. PICK n \in Ops : /\ n = Len(journal) /\ Entry \in Entries /\ Entry.op = n
                        /\ failure # "none"
  BY <1>1, <1>2, AtEntry
<1>4. PICK verdict : verdict = Verdict(Entry)
  OBVIOUS
<1>5. /\ FilesOK' /\ DiskFits' /\ OthersAlike(n)
  BY <1>2, DirStays, OthersAreAlike
<1>6. Looks(Paths(n) \cup {Backup(n)})
  BY <1>3 DEF Compare
<1>7. /\ noticed' \subseteq Contents \cup {None} /\ NewlySaved(Paths(n) \cup {Backup(n)})
      /\ \A m \in 1..MaxSaves : Other(m) \in noticed' => Other(m) \in noticed \/ m <= saves
  BY <1>1, <1>6, PathsFit, Looking
<1>8. n \notin touched /\ kinds[n] # "create" => dir'[Spare(n)] = Old(n)
  BY <1>2, <1>3, SpareKept
<1>9. CASE EntryEnds(FALSE) /\ (Fault \/ faults' = faults)
  <2>1. FALSE \in BOOLEAN
    OBVIOUS
  <2> QED
    BY <1>2, <1>3, <1>5, <1>7, <1>8, <1>9, <2>1, EndingKeeps
<1>10. CASE Head(verdict) = "done" /\ EntryEnds(TRUE) /\ faults' = faults
  <2>1. dir[To(n)] = None /\ (kinds[n] # "create" => dir[From(n)] = Old(n))
    BY <1>3, <1>4, <1>10, VerdictFits
  <2>2. None # New(n) /\ TRUE \in BOOLEAN
    BY OwnContents
  <2>3. OriginalAfter(n) /\ GoneAfter(n)
    BY <1>2, <2>1, <2>2 DEF OriginalAfter, GoneAfter
  <2> QED
    BY <1>2, <1>3, <1>5, <1>7, <1>8, <1>10, <2>2, <2>3, EndingKeeps
<1>11. CASE /\ Head(verdict) \notin {"done", "refused"} /\ todo' = verdict
            /\ UNCHANGED <<phase, op, journal, failure, complete, reported, faults>>
  <2>1. /\ verdict \in Undoings(kinds[n]) /\ verdict \in Seq(Calls)
        /\ Head(verdict) # "compare"
        /\ verdict = <<"drop">> /\ kinds[n] # "create" => dir[From(n)] = Old(n)
        /\ kinds[n] # "create" /\ Head(verdict) \in {"restore", "drop"} => dir[To(n)] # New(n)
        /\ \A name \in Paths(n) \cup {Backup(n)} : Content(name) \in {None, Old(n), New(n)}
    BY <1>3, <1>4, <1>11, VerdictFits
  <2>2. \A name \in Paths(n) \cup {Backup(n)} :
          \A m \in 1..MaxSaves : ContentAfter(name) = Other(m) => Other(m) \notin noticed'
    BY <1>2, <2>1, Apart DEF ContentAfter, Content
  <2>3. kinds[n] # "create" /\ Head(todo') \in {"restore", "drop"} => GoneAfter(n)
    BY <1>2, <1>11, <2>1 DEF GoneAfter
  <2> QED
    BY <1>2, <1>3, <1>5, <1>7, <1>8, <1>11, <2>1, <2>2, <2>3, UndoingKeeps
<1>12. \/ EntryEnds(FALSE) /\ (Fault \/ faults' = faults)
       \/ Head(verdict) = "done" /\ EntryEnds(TRUE) /\ faults' = faults
       \/ /\ Head(verdict) \notin {"done", "refused"} /\ todo' = verdict
          /\ UNCHANGED <<phase, op, journal, failure, complete, reported, faults>>
  <2>1. CASE /\ Head(verdict) \in {"done", "refused"} /\ EntryEnds(Head(verdict) = "done")
             /\ UNCHANGED faults
    <3>1. CASE Head(verdict) = "done"
      <4>1. (Head(verdict) = "done") = TRUE
        BY <3>1
      <4> QED
        BY <2>1, <3>1, <4>1
    <3>2. CASE Head(verdict) # "done"
      <4>1. (Head(verdict) = "done") = FALSE
        BY <3>2
      <4> QED
        BY <2>1, <3>2, <4>1
    <3> QED
      BY <3>1, <3>2
  <2> QED
    BY <1>4, <2>1 DEF Compare
<1> QED
  BY <1>9, <1>10, <1>11, <1>12

(* A name of the entry the rollback is at changes.                         *)
LEMMA NameChanges ==
  ASSUME IInv, Quiet, content' = content, NEW place \in {"source", "target", "backup"},
         NEW n \in Ops, NEW v \in Contents \cup {None}, dir' = [dir EXCEPT ![<<place, n>>] = v],
         place = "source" => v \in {None, Old(n)} \cup Saved,
         place = "target" => v \in {None, Old(n)} \cup Saved,
         place = "backup" => v = None
  PROVE  FilesOK' /\ DiskFits' /\ Only(place, n, v) /\ OthersAlike(n)
<1>1. TypeOK /\ DiskFits /\ place \in Places
  BY DEF IInv, Places
<1>2. FilesOK' /\ Only(place, n, v)
  BY <1>1, Changing
<1>3. New(n) \notin {None, Old(n)} \cup Saved
  BY <1>1, OwnContents, SavedContents, TypesFit
<1>4. DiskFits'
  BY <1>1, <1>2, <1>3, DiskChanges DEF Quiet
<1> QED
  BY <1>2, <1>4, OthersAreAlike

LEMMA RollBackKeeps ==
  ASSUME IInv, Quiet, RollBack
  PROVE  IInv'
<1>1. TypeOK /\ Course /\ DiskFits /\ FilesFit /\ Known
  BY DEF IInv
<1>2. phase = "rollback" /\ Head(todo) # "compare" /\ UNCHANGED <<content, noticed>>
  BY DEF RollBack
<1>3. PICK n \in Ops :
        /\ n = Len(journal) /\ Entry.op = n /\ failure # "none" /\ kinds[n] \in Kinds
        /\ Head(todo) \in {"remove", "restore", "drop"}
        /\ Head(todo) = "remove" => /\ HasBackup(n) /\ Len(todo) = 3
                                    /\ Tail(todo) = <<"restore", "drop">>
        /\ Head(todo) = "restore" => /\ kinds[n] # "create" /\ Len(todo) = 2
                                     /\ Tail(todo) = <<"drop">>
        /\ Head(todo) = "drop" => Len(todo) = 1 /\ todo = <<"drop">>
  BY <1>1, <1>2, AtEntry
<1>4. /\ noticed' \subseteq Contents \cup {None}
      /\ \A m \in 1..MaxSaves : Other(m) \in noticed' => Other(m) \in noticed
  BY <1>1, <1>2, NothingSeen
<1>5. n \notin touched /\ kinds[n] # "create" => dir[Spare(n)] = Old(n)
  BY <1>2, <1>3, SpareKept
<1>6. \A name \in Paths(n) \cup {Backup(n)} :
        \A m \in 1..MaxSaves : Content(name) = Other(m) => Other(m) \notin noticed
  BY <1>1, <1>2, <1>3 DEF Known
<1>7. /\ NewIsKnown(n) /\ n <= Len(journal) /\ NamesFit(n)
      /\ To(n) \in Names /\ From(n) \in Names /\ Backup(n) \in Names
      /\ Paths(n) = {From(n), To(n)}
  BY <1>1, <1>3, OpsFit, OwnNames DEF FilesFit, AllKnown, DiskFits
<1>8. CASE dir' = dir /\ EntryEnds(FALSE) /\ (Fault \/ faults' = faults)
  <2>1. FilesOK' /\ DiskFits' /\ OthersAlike(n)
    BY <1>2, <1>8, DirStays, OthersAreAlike
  <2>2. FALSE \in BOOLEAN
    OBVIOUS
  <2> QED
    BY <1>2, <1>3, <1>4, <1>5, <1>8, <2>1, <2>2, EndingKeeps
<1>9. CASE Head(todo) = "remove" /\ UndoStep(n) /\ faults' = faults
           /\ todo' = Tail(todo) /\ UNCHANGED <<phase, op, journal, failure, complete, reported>>
  <2>1. /\ kinds[n] \in {"update", "delete"} /\ From(n) = To(n) /\ Spare(n) = Backup(n)
        /\ dir' = [dir EXCEPT ![<<"target", n>>] = None]
    BY <1>3, <1>9 DEF HasBackup, From, To, Spare, UndoStep, Undoing, Unlink
  <2>2. FilesOK' /\ DiskFits' /\ Only("target", n, None) /\ OthersAlike(n)
    BY <1>2, <2>1, NameChanges
  <2>3. dir'[To(n)] = None /\ dir'[Backup(n)] = dir[Backup(n)]
    BY <2>2 DEF Only
  <2>4. todo' = <<"restore", "drop">> /\ <<"restore", "drop">> # <<"drop">>
        /\ Head(<<"restore", "drop">>) = "restore" /\ <<"restore", "drop">> \in Seq(Calls)
    BY <1>3, <1>9 DEF Calls
  <2>5. todo' \in Undoings(kinds[n])
    BY <2>1, <2>4 DEF Undoings
  <2>6. GoneAfter(n)
    BY <2>3, OwnContents DEF GoneAfter
  <2>7. \A name \in Paths(n) \cup {Backup(n)} :
          \A m \in 1..MaxSaves : ContentAfter(name) = Other(m) => Other(m) \notin noticed'
    <3>1. ContentAfter(To(n)) = None /\ ContentAfter(Backup(n)) = Content(Backup(n))
      BY <1>2, <2>3 DEF ContentAfter, Content
    <3>2. \A m \in 1..MaxSaves : Other(m) # None
      BY <1>3, Apart
    <3> QED
      BY <1>2, <1>6, <1>7, <2>1, <3>1, <3>2
  <2> QED
    BY <1>2, <1>3, <1>4, <1>5, <1>9, <2>1, <2>2, <2>3, <2>4, <2>5, <2>6, <2>7, UndoingKeeps
<1>10. CASE Head(todo) = "restore" /\ UndoStep(n) /\ faults' = faults
            /\ todo' = Tail(todo) /\ UNCHANGED <<phase, op, journal, failure, complete, reported>>
  <2>1. PICK place \in {"source", "target"}, v \in Contents \cup {None} :
          /\ place = IF kinds[n] = "rename" THEN "source" ELSE "target"
          /\ From(n) = <<place, n>> /\ v = dir[Spare(n)]
          /\ dir' = [dir EXCEPT ![<<place, n>>] = v]
    <3>1. dir[Spare(n)] \in Contents \cup {None}
      BY <1>1, OwnNames, Contenting
    <3> QED
      BY <1>10, <3>1 DEF From, UndoStep, Undoing, Link
  <2>2. v \in {None, Old(n)} \cup Saved
    <3>1. CASE kinds[n] = "rename"
      BY <1>7, <2>1, <3>1 DEF NamesFit, Spare
    <3>2. CASE kinds[n] # "rename"
      <4>1. kinds[n] \in {"update", "delete"}
        BY <1>3, <1>10, <3>2 DEF Kinds
      <4> QED
        BY <1>7, <2>1, <4>1 DEF NamesFit, Spare
    <3> QED
      BY <3>1, <3>2
  <2>3. FilesOK' /\ DiskFits' /\ Only(place, n, v) /\ OthersAlike(n)
    BY <1>2, <2>1, <2>2, NameChanges
  <2>4. /\ dir'[From(n)] = v /\ dir'[Backup(n)] = dir[Backup(n)]
        /\ dir'[Spare(n)] = dir[Spare(n)]
        /\ kinds[n] = "rename" => dir'[To(n)] = dir[To(n)]
        /\ kinds[n] # "rename" => From(n) = To(n)
    <3>1. CASE kinds[n] = "rename"
      BY <2>1, <2>3, <3>1 DEF Only, Spare, Source
    <3>2. CASE kinds[n] # "rename"
      <4>1. kinds[n] \in {"update", "delete"}
        BY <1>3, <1>10, <3>2 DEF Kinds
      <4> QED
        BY <2>1, <2>3, <4>1 DEF Only, Spare, To
    <3> QED
      BY <3>1, <3>2
  <2>5. /\ todo' = <<"drop">> /\ Head(<<"drop">>) = "drop" /\ <<"drop">> \in Seq(Calls)
        /\ todo' \in Undoings(kinds[n])
    BY <1>3, <1>10 DEF Calls, Undoings
  <2>6. n \notin touched /\ kinds[n] # "create" =>
          dir'[Spare(n)] = Old(n) /\ dir'[From(n)] = Old(n)
    BY <1>5, <2>1, <2>4
  <2>7. GoneAfter(n)
    <3>1. CASE kinds[n] = "rename"
      BY <1>7, <2>4, <3>1 DEF NamesFit, GoneAfter
    <3>2. CASE kinds[n] # "rename"
      <4>1. New(n) \notin {None, Old(n)} \cup Saved
        BY <1>1, OwnContents, SavedContents, TypesFit
      <4> QED
        BY <2>2, <2>4, <3>2, <4>1 DEF GoneAfter
    <3> QED
      BY <3>1, <3>2
  <2>8. \A name \in Paths(n) \cup {Backup(n)} :
          \A m \in 1..MaxSaves : ContentAfter(name) = Other(m) => Other(m) \notin noticed'
    <3>1. /\ Spare(n) \in Paths(n) \cup {Backup(n)}
          /\ ContentAfter(From(n)) = Content(Spare(n))
          /\ ContentAfter(Backup(n)) = Content(Backup(n))
          /\ kinds[n] = "rename" => ContentAfter(To(n)) = Content(To(n))
      BY <1>2, <1>7, <2>1, <2>4 DEF ContentAfter, Content, Spare
    <3> QED
      BY <1>2, <1>6, <1>7, <2>4, <3>1
  <2> QED
    BY <1>2, <1>3, <1>4, <1>10, <2>3, <2>4, <2>5, <2>6, <2>7, <2>8, UndoingKeeps
<1>11. CASE Head(todo) = "drop" /\ UndoStep(n) /\ faults' = faults /\ EntryEnds(TRUE)
  <2>1. PICK place \in {"target", "backup"} :
          /\ place = IF kinds[n] \in {"update", "delete"} THEN "backup" ELSE "target"
          /\ Spare(n) = <<place, n>> /\ dir' = [dir EXCEPT ![<<place, n>>] = None]
    BY <1>11 DEF Spare, To, Backup, UndoStep, Undoing, Unlink
  <2>2. FilesOK' /\ DiskFits' /\ Only(place, n, None) /\ OthersAlike(n)
    BY <1>2, <2>1, NameChanges
  <2>3. kinds[n] # "create" => dir'[From(n)] = dir[From(n)]
    <3>1. CASE kinds[n] \in {"update", "delete"}
      BY <2>1, <2>2, <3>1 DEF Only, From, To
    <3>2. CASE kinds[n] = "rename"
      BY <2>1, <2>2, <3>2 DEF Only, From, Source
    <3> QED
      BY <1>3, <3>1, <3>2 DEF Kinds
  <2>4. n \notin touched /\ kinds[n] # "create" => dir'[From(n)] = Old(n)
    BY <1>1, <1>2, <1>3, <1>11, <2>3 DEF FilesFit, AllKept, Kept
  <2>5. kinds[n] \in {"create", "rename"} => dir'[To(n)] = None
    BY <2>1, <2>2 DEF Only
  <2>6. kinds[n] \in {"update", "delete"} => dir'[To(n)] = dir[To(n)]
    BY <2>1, <2>2 DEF Only
  <2>7. n \in Undisturbed => OriginalAfter(n)
    BY <2>4, <2>5 DEF OriginalAfter, Undisturbed
  <2>8. GoneAfter(n)
    <3>1. CASE kinds[n] \in {"create", "rename"}
      BY <2>5, <3>1, OwnContents DEF GoneAfter
    <3>2. CASE kinds[n] \in {"update", "delete"}
      <4>1. Gone(n)
        BY <1>2, <1>3, <1>7, <1>11, <3>2 DEF NewIsKnown
      <4> QED
        BY <1>2, <2>6, <3>2, <4>1 DEF Gone, GoneAfter
    <3> QED
      BY <1>3, <3>1, <3>2 DEF Kinds
  <2>9. TRUE \in BOOLEAN
    OBVIOUS
  <2> QED
    BY <1>2, <1>3, <1>4, <1>11, <2>2, <2>4, <2>7, <2>8, <2>9, EndingKeeps
<1>12. \/ dir' = dir /\ EntryEnds(FALSE) /\ (Fault \/ faults' = faults)
       \/ /\ UndoStep(n) /\ faults' = faults
          /\ IF Len(todo) = 1 THEN EntryEnds(TRUE)
             ELSE /\ todo' = Tail(todo)
                  /\ UNCHANGED <<phase, op, journal, failure, complete, reported>>
  BY <1>3 DEF RollBack
<1>13. /\ Head(todo) = "drop" => Len(todo) = 1
       /\ Head(todo) \in {"remove", "restore"} => Len(todo) # 1
  <2>1. Head(todo) = "drop" => Len(todo) = 1
    BY <1>3
  <2>2. Head(todo) = "remove" => Len(todo) # 1
    <3>1. Head(todo) = "remove" => Len(todo) = 3
      BY <1>3
    <3> QED
      BY <3>1
  <2>3. Head(todo) = "restore" => Len(todo) # 1
    <3>1. Head(todo) = "restore" => Len(todo) = 2
      BY <1>3
    <3> QED
      BY <3>1
  <2> QED
    BY <2>1, <2>2, <2>3
<1> QED
  BY <1>3, <1>8, <1>9, <1>10, <1>11, <1>12, <1>13

-----------------------------------------------------------------------------
(* Another program, and the end of the process *)

LEMMA SavesFit ==
  ASSUME IInv, Saves
  PROVE  /\ saves \in Nat /\ saves' = saves + 1 /\ saves' \in 1..MaxSaves /\ MaxSaves \in Nat
         /\ Other(saves') \in Contents /\ Other(saves') # None /\ Other(saves') \notin noticed
         /\ \A k \in Ops : Other(saves') # Old(k) /\ Other(saves') # New(k)
         /\ content[Other(saves')] = Other(saves')
         /\ Saved \subseteq Saved' /\ Other(saves') \in Saved'
         /\ \A n \in 1..MaxSaves : n > saves' => n > saves /\ Other(n) \notin Saved
                                                           /\ Other(n) # Other(saves')
         /\ transaction' = transaction /\ phase' = phase /\ op' = op /\ todo' = todo
         /\ journal' = journal /\ failure' = failure /\ complete' = complete
         /\ reported' = reported
         /\ UNCHANGED <<kinds, stopped, noticed, faults>>
<1>1. /\ saves \in 0..MaxSaves /\ MaxSaves \in Nat /\ saves < MaxSaves /\ saves' = saves + 1
      /\ RestOK
  BY TypesFit, EditAssumption DEF Saves, IInv, RestOK
<1>2. saves \in Nat /\ saves' \in 1..MaxSaves
  BY <1>1
<1>3. /\ Other(saves') \in Contents /\ Other(saves') # None
      /\ \A k \in Ops : Other(saves') # Old(k) /\ Other(saves') # New(k)
  BY <1>2, Apart, OpsFit
<1>4. Other(saves') \notin noticed
  BY <1>1, <1>2 DEF IInv, Known
<1>5. content[Other(saves')] = Other(saves')
  BY <1>1, <1>2 DEF IInv, DiskFits, ContentsFit
<1>6. Saved \subseteq Saved' /\ Other(saves') \in Saved'
  <2>1. Saved' = {Other(n) : n \in 1..saves'}
    BY DEF Saved, Other
  <2>2. 1..saves \subseteq 1..saves' /\ saves' \in 1..saves'
    BY <1>1, <1>2
  <2> QED
    BY <2>1, <2>2 DEF Saved
<1>7. \A n \in 1..MaxSaves : n > saves' => n > saves /\ Other(n) \notin Saved
                                                     /\ Other(n) # Other(saves')
  <2>1. \A n \in 1..MaxSaves : n > saves' => n > saves /\ ~(n <= saves) /\ n # saves'
    BY <1>1, <1>2
  <2>2. \A n \in 1..MaxSaves : Other(n) \in Saved <=> n <= saves
    BY <1>1, SavedContents
  <2>3. \A n : Other(n) = Other(saves') => n = saves'
    BY DEF Other
  <2> QED
    BY <2>1, <2>2, <2>3
<1>8. /\ transaction' = transaction /\ phase' = phase /\ op' = op /\ todo' = todo
      /\ journal' = journal /\ failure' = failure /\ complete' = complete
      /\ reported' = reported
      /\ UNCHANGED <<kinds, stopped, noticed, faults>>
  BY DEF Saves, transaction
<1> QED
  BY <1>1, <1>2, <1>3, <1>4, <1>5, <1>6, <1>7, <1>8

LEMMA OutsideKeeps ==
  ASSUME IInv, Saves, NEW k \in Ops, NEW name \in Paths(k), Touches(name),
         FilesOK', DiskFits',
         \A j \in Ops : dir'[Stage(j)] = dir[Stage(j)] /\ dir'[Backup(j)] = dir[Backup(j)],
         \A j \in Ops : j # k => /\ dir'[From(j)] = dir[From(j)] /\ dir'[Spare(j)] = dir[Spare(j)]
                                 /\ dir'[To(j)] = dir[To(j)]
                                 /\ content'[Old(j)] = content[Old(j)]
                                 /\ content'[New(j)] = content[New(j)],
         dir'[To(k)] = New(k) => dir[To(k)] = New(k),
         content[New(k)] # New(k) => content'[New(k)] # New(k),
         ~Exists(name) =>
           /\ \A x \in {From(k), Spare(k)} : dir[x] = Old(k) => dir'[x] = Old(k)
           /\ content' = content,
         \A x \in Names : ContentAfter(x) \in {None, Content(x), Other(saves')}
  PROVE  IInv'
<1>1. /\ TypeOK /\ Course /\ DiskFits /\ FilesFit /\ Known /\ ControlOK /\ RestOK
  BY TypesFit DEF IInv
<1>2. /\ saves \in Nat /\ saves' = saves + 1 /\ saves' \in 1..MaxSaves /\ MaxSaves \in Nat
      /\ Other(saves') # None /\ Other(saves') \notin noticed
      /\ phase' = phase /\ op' = op /\ todo' = todo
      /\ journal' = journal /\ failure' = failure /\ complete' = complete
      /\ reported' = reported
      /\ UNCHANGED <<kinds, stopped, noticed, faults>>
  BY SavesFit
<1>3. name[2] = k
  BY DEF Paths, From, To
<1>4. /\ \/ k \in touched' /\ touched' = touched \cup {k} /\ met' = met /\ Exists(name)
         \/ k \in met' /\ met' = met \cup {k} /\ touched' = touched /\ ~Exists(name)
  BY <1>3 DEF Touches
<1>5. TypeOK'
  <2>1. ControlOK'
    BY <1>1, <1>2 DEF ControlOK
  <2>2. saves' \in 0..MaxSaves
    BY <1>2
  <2>3. RestOK'
    BY <1>1, <1>2, <1>4, <2>2 DEF RestOK
  <2> QED
    BY <2>1, <2>3, TypesFitAfter
<1>6. Course'
  BY <1>1, <1>2 DEF Course
<1>7. ASSUME NEW j \in Ops \ touched' PROVE Kept(j)'
  <2>1. Kept(j)
    BY <1>1, <1>4 DEF FilesFit, AllKept
  <2>2. KeptAfter(j)
    <3>1. CASE j = k
      <4>1. ~Exists(name)
        BY <1>4, <3>1
      <4> QED
        BY <1>2, <2>1, <3>1, <4>1 DEF Kept, KeptAfter
    <3>2. CASE j # k
      BY <1>2, <2>1, <3>2 DEF Kept, KeptAfter
    <3> QED
      BY <3>1, <3>2
  <2> QED
    BY <1>2, <2>2, AfterIsPrimed
<1>8. ASSUME NEW j \in Ops \ (touched' \cup met') PROVE Followed(j)'
  <2>1. j # k /\ j \in Undisturbed
    BY <1>4 DEF Undisturbed
  <2>2. Followed(j)
    BY <1>1, <2>1 DEF FilesFit, AllFollowed
  <2>3. FollowedAfter(j)
    BY <1>2, <2>1, <2>2 DEF Followed, FollowedAfter, Original, OriginalAfter, Made, MadeAfter,
                            Settled, SettledAfter
  <2> QED
    BY <1>2, <2>3, AfterIsPrimed
<1>9. ASSUME NEW j \in Ops PROVE NewIsKnown(j)'
  <2>1. NewIsKnown(j)
    BY <1>1 DEF FilesFit, AllKnown
  <2>2. NewIsKnownAfter(j)
    <3>1. dir'[To(j)] = New(j) => dir[To(j)] = New(j)
      OBVIOUS
    <3>2. content[New(j)] # New(j) => content'[New(j)] # New(j)
      OBVIOUS
    <3> QED
      BY <1>2, <2>1, <3>1, <3>2 DEF NewIsKnown, NewIsKnownAfter, Gone, GoneAfter
  <2> QED
    BY <1>2, <2>2, AfterIsPrimed
<1>10. ASSUME NEW j \in Ops PROVE Leftover(j)'
  <2>1. LeftoverAfter(j)
    BY <1>1, <1>2 DEF FilesFit, AllLeft, Leftover, LeftoverAfter, Exists
  <2> QED
    BY <1>2, <2>1, AfterIsPrimed
<1>11. FilesFit'
  BY <1>7, <1>8, <1>9, <1>10 DEF FilesFit, AllKept, AllFollowed, AllKnown, AllLeft, Undisturbed
<1>12. Known'
  <2>1. \A m \in 1..MaxSaves : Other(m) \in noticed => m <= saves' /\ failure # "none"
    BY <1>1, <1>2 DEF Known
  <2>2. ASSUME phase = "rollback", Head(todo) # "compare"
        PROVE  \A x \in Paths(Len(journal)) \cup {Backup(Len(journal))} :
                 \A m \in 1..MaxSaves : ContentAfter(x) = Other(m) => Other(m) \notin noticed
    <3>1. PICK n \in Ops : n = Len(journal)
      BY <1>1, <2>2, AtEntry
    <3>2. Paths(n) \cup {Backup(n)} \in SUBSET Names
      BY PathsFit
    <3>3. \A x \in Paths(n) \cup {Backup(n)} :
            \A m \in 1..MaxSaves : Content(x) = Other(m) => Other(m) \notin noticed
      BY <1>1, <2>2, <3>1 DEF Known
    <3>4. \A m \in 1..MaxSaves : Other(m) # None
      BY OpsFit, Apart
    <3> QED
      BY <1>2, <3>1, <3>2, <3>3, <3>4
  <2>3. ASSUME phase = "rollback", Head(todo) # "compare"
        PROVE  \A x \in (Paths(Len(journal)) \cup {Backup(Len(journal))})' :
                 \A m \in 1..MaxSaves : Content(x)' = Other(m) => Other(m) \notin noticed'
    <3>1. PICK n \in Ops : n = Len(journal)
      BY <1>1, <2>3, AtEntry
    <3>2. Len(journal') = n /\ Paths(n)' = Paths(n) /\ Backup(n)' = Backup(n)
      BY <1>2, <3>1, NamesStay
    <3> QED
      BY <1>2, <2>2, <2>3, <3>1, <3>2 DEF Content, ContentAfter
  <2> QED
    BY <1>2, <2>1, <2>3 DEF Known, Other
<1> QED
  BY <1>5, <1>6, <1>11, <1>12 DEF IInv

(* Only a name of operation k is linked anew.                              *)
LEMMA RelinkingKeeps ==
  ASSUME IInv, Saves, NEW k \in Ops, NEW name \in Paths(k), Touches(name), content' = content,
         NEW v \in {None, Other(saves')}, dir' = [dir EXCEPT ![name] = v],
         v = None => Exists(name)
  PROVE  IInv'
<1>1. TypeOK /\ DiskFits /\ RestOK
  BY TypesFit DEF IInv
<1>2. /\ Other(saves') \in Contents /\ Other(saves') # None
      /\ \A j \in Ops : Other(saves') # Old(j) /\ Other(saves') # New(j)
      /\ content[Other(saves')] = Other(saves')
      /\ Saved \subseteq Saved' /\ Other(saves') \in Saved'
      /\ \A n \in 1..MaxSaves : n > saves' => n > saves
      /\ kinds' = kinds
  BY SavesFit
<1>3. PICK place \in {"source", "target"} : name = <<place, k>>
  BY DEF Paths, From, To
<1>4. FilesOK' /\ Only(place, k, v)
  <2>1. place \in Places /\ v \in Contents \cup {None} /\ dir' = [dir EXCEPT ![<<place, k>>] = v]
    BY <1>2, <1>3 DEF Places
  <2> QED
    BY <1>1, <2>1, Changing
<1>5. /\ \A j \in Ops : /\ dir'[Stage(j)] = dir[Stage(j)] /\ dir'[Backup(j)] = dir[Backup(j)]
                        /\ dir'[Source(j)] \in {dir[Source(j)], v}
                        /\ dir'[To(j)] \in {dir[To(j)], v}
      /\ \A x \in Names : dir'[x] \in {dir[x], v}
  <2>1. dir \in [Names -> Contents \cup {None}]
    BY <1>1, TypesFit DEF FilesOK
  <2> QED
    BY <1>4, <2>1 DEF Only
<1>6. v # New(k) /\ \A j \in Ops : v # New(j) /\ v # Old(j)
  BY <1>2, OwnContents
<1>7. DiskFits'
  <2>1. ContentsFit'
    <3>1. \A c \in Contents : content'[c] = c \/ content'[c] \in Saved'
      BY <1>1, <1>2 DEF DiskFits, ContentsFit
    <3>2. \A n \in 1..MaxSaves : n > saves' => content'[Other(n)] = Other(n)
      BY <1>1, <1>2 DEF DiskFits, ContentsFit
    <3> QED
      BY <3>1, <3>2 DEF ContentsFit, Other
  <2>2. ASSUME NEW j \in Ops PROVE NamesFit(j)'
    <3>1. NamesFit(j)
      BY <1>1 DEF DiskFits
    <3>2. /\ dir'[Stage(j)] \in {None, New(j)}
          /\ dir'[Source(j)] \in {None, Old(j)} \cup Saved'
          /\ dir'[To(j)] \in {None, Old(j), New(j)} \cup Saved'
          /\ dir'[Backup(j)] \in {None, Old(j)} \cup Saved'
      BY <1>2, <1>5, <3>1 DEF NamesFit
    <3>3. dir'[Backup(j)] # None => HasBackup(j)
      BY <1>5, <3>1 DEF NamesFit, Exists
    <3>4. dir'[To(j)] = New(j) => kinds[j] \in {"create", "update"}
      BY <1>5, <1>6, <3>1 DEF NamesFit
    <3> QED
      BY <1>2, <3>2, <3>3, <3>4
         DEF NamesFit, Exists, HasBackup, Stage, Source, To, Backup, Old, New
  <2> QED
    BY <2>1, <2>2 DEF DiskFits
<1>8. \A j \in Ops : j # k => /\ dir'[From(j)] = dir[From(j)] /\ dir'[Spare(j)] = dir[Spare(j)]
                              /\ dir'[To(j)] = dir[To(j)]
                              /\ content'[Old(j)] = content[Old(j)]
                              /\ content'[New(j)] = content[New(j)]
  BY <1>4, OthersStay
<1>9. dir'[To(k)] = New(k) => dir[To(k)] = New(k)
  BY <1>5, <1>6
<1>10. ~Exists(name) => \A x \in {From(k), Spare(k)} : dir[x] = Old(k) => dir'[x] = Old(k)
  <2>1. dir \in [Names -> Contents \cup {None}] /\ None # Old(k)
    BY <1>1, TypesFit, OwnContents DEF FilesOK
  <2>2. From(k) \in Names /\ Spare(k) \in Names
    BY OwnNames
  <2> QED
    BY <2>1, <2>2 DEF Exists
<1>11. ASSUME NEW x \in Names PROVE ContentAfter(x) \in {None, Content(x), Other(saves')}
  <2>1. dir'[x] = dir[x] => ContentAfter(x) = Content(x)
    BY DEF ContentAfter, Content
  <2>2. dir'[x] = v => ContentAfter(x) \in {None, Other(saves')}
    BY <1>2 DEF ContentAfter
  <2> QED
    BY <1>5, <2>1, <2>2
<1> QED
  BY <1>4, <1>5, <1>7, <1>8, <1>9, <1>10, <1>11, OutsideKeeps

LEMMA SaveAnewKeeps ==
  ASSUME IInv, SaveAnew
  PROVE  IInv'
<1>0. PICK k \in Ops : \E name \in Paths(k) :
          /\ Saves /\ Touches(name) /\ content' = content
          /\ dir' = [dir EXCEPT ![name] = Other(saves')]
  BY DEF SaveAnew
<1>1. PICK name \in Paths(k) :
        /\ Saves /\ Touches(name) /\ content' = content
        /\ dir' = [dir EXCEPT ![name] = Other(saves')]
  BY <1>0
<1>2. Other(saves') # None
  BY <1>1, SavesFit
<1> QED
  BY <1>1, <1>2, RelinkingKeeps

LEMMA DeleteFileKeeps ==
  ASSUME IInv, DeleteFile
  PROVE  IInv'
<1>0. PICK k \in Ops : \E name \in Paths(k) :
          /\ Saves /\ Exists(name) /\ Touches(name) /\ content' = content
          /\ dir' = [dir EXCEPT ![name] = None]
  BY DEF DeleteFile, Unlink
<1>1. PICK name \in Paths(k) :
        /\ Saves /\ Exists(name) /\ Touches(name) /\ content' = content
        /\ dir' = [dir EXCEPT ![name] = None]
  BY <1>0
<1> QED
  BY <1>1, RelinkingKeeps

LEMMA SaveInPlaceKeeps ==
  ASSUME IInv, SaveInPlace
  PROVE  IInv'
<1>0. PICK k \in Ops : \E name \in Paths(k) :
          /\ Saves /\ Exists(name) /\ Touches(name) /\ dir' = dir
          /\ content' = [content EXCEPT ![dir[name]] = Other(saves')]
  BY DEF SaveInPlace
<1>1. PICK name \in Paths(k) :
        /\ Saves /\ Exists(name) /\ Touches(name) /\ dir' = dir
        /\ content' = [content EXCEPT ![dir[name]] = Other(saves')]
  BY <1>0
<1>2. /\ Other(saves') \in Contents /\ Other(saves') # None
      /\ \A j \in Ops : Other(saves') # Old(j) /\ Other(saves') # New(j)
      /\ Saved \subseteq Saved' /\ Other(saves') \in Saved'
      /\ \A n \in 1..MaxSaves : n > saves' => n > saves /\ Other(n) \notin Saved
      /\ kinds' = kinds
  BY <1>1, SavesFit
<1>3. /\ TypeOK /\ DiskFits /\ RestOK
      /\ dir \in [Names -> Contents \cup {None}] /\ content \in [Contents -> Contents]
  BY TypesFit DEF IInv, FilesOK
<1>4. name \in Names /\ name \in {Source(k), To(k)}
  BY OwnNames
<1>5. PICK c \in Contents : c = dir[name] /\ c \in {Old(k), New(k)} \cup Saved
  BY <1>1, <1>3, <1>4 DEF Exists, DiskFits, NamesFit
<1>6. \A d \in Contents : content'[d] = IF d = c THEN Other(saves') ELSE content[d]
  BY <1>1, <1>3, <1>5
<1>7. \A j \in Ops : j # k => Old(j) # c /\ New(j) # c
  <2>1. \A j \in Ops : j # k => /\ Old(j) # Old(k) /\ Old(j) # New(k)
                                /\ New(j) # Old(k) /\ New(j) # New(k)
    BY DEF Old, New
  <2> QED
    BY <1>3, <1>5, <2>1, SavedContents
<1>8. FilesOK'
  BY <1>1, <1>2, <1>3, <1>5 DEF FilesOK
<1>9. DiskFits'
  <2>1. ContentsFit'
    <3>1. \A d \in Contents : content'[d] = d \/ content'[d] \in Saved'
      BY <1>2, <1>3, <1>6 DEF DiskFits, ContentsFit
    <3>2. ASSUME NEW n \in 1..MaxSaves, n > saves' PROVE content'[Other(n)] = Other(n)
      <4>1. Other(n) \in Contents /\ Other(n) # Old(k) /\ Other(n) # New(k)
        BY Apart
      <4>2. Other(n) # c
        BY <1>2, <1>5, <3>2, <4>1
      <4> QED
        BY <1>2, <1>3, <1>6, <3>2, <4>1, <4>2 DEF DiskFits, ContentsFit
    <3> QED
      BY <3>1, <3>2 DEF ContentsFit, Other
  <2>2. ASSUME NEW j \in Ops PROVE NamesFit(j)'
    <3>1. NamesFit(j)
      BY <1>3 DEF DiskFits
    <3> QED
      BY <1>1, <1>2, <3>1
         DEF NamesFit, Exists, HasBackup, Stage, Source, To, Backup, Old, New
  <2> QED
    BY <2>1, <2>2 DEF DiskFits
<1>10. /\ \A j \in Ops : dir'[Stage(j)] = dir[Stage(j)] /\ dir'[Backup(j)] = dir[Backup(j)]
       /\ dir'[To(k)] = New(k) => dir[To(k)] = New(k)
  BY <1>1
<1>11. \A j \in Ops : j # k => /\ dir'[From(j)] = dir[From(j)] /\ dir'[Spare(j)] = dir[Spare(j)]
                               /\ dir'[To(j)] = dir[To(j)]
                               /\ content'[Old(j)] = content[Old(j)]
                               /\ content'[New(j)] = content[New(j)]
  BY <1>1, <1>6, <1>7, OwnContents
<1>12. content[New(k)] # New(k) => content'[New(k)] # New(k)
  BY <1>2, <1>6, OwnContents
<1>13. ASSUME NEW x \in Names PROVE ContentAfter(x) \in {None, Content(x), Other(saves')}
  BY <1>1, <1>3, <1>6 DEF ContentAfter, Content
<1> QED
  BY <1>1, <1>8, <1>9, <1>10, <1>11, <1>12, <1>13, OutsideKeeps

LEMMA StandingKeeps ==
  ASSUME IInv, UNCHANGED <<kinds, dir, content, transaction, history, noticed, faults>>,
         stopped' = stopped \/ stopped' = TRUE
  PROVE  IInv'
<1>1. /\ kinds' = kinds /\ dir' = dir /\ content' = content
      /\ phase' = phase /\ op' = op /\ todo' = todo /\ journal' = journal
      /\ failure' = failure /\ complete' = complete /\ reported' = reported
      /\ saves' = saves /\ touched' = touched /\ met' = met
      /\ noticed' = noticed /\ faults' = faults
  BY DEF transaction, history
<1>2. TypeOK /\ Course /\ DiskFits /\ FilesFit /\ Known /\ ControlOK /\ FilesOK /\ RestOK
  BY TypesFit DEF IInv
<1>3. stopped' \in BOOLEAN
  BY <1>2 DEF RestOK
<1>4. TypeOK'
  <2>1. ControlOK'
    BY <1>1, <1>2 DEF ControlOK
  <2>2. FilesOK'
    BY <1>1, <1>2 DEF FilesOK
  <2>3. RestOK'
    BY <1>1, <1>2, <1>3 DEF RestOK
  <2> QED
    BY <2>1, <2>2, <2>3, TypesFitAfter
<1>5. Course'
  BY <1>1, <1>2 DEF Course
<1>6. DiskFits'
  BY <1>1, <1>2, DiskStays
<1>7. FilesFit'
  <2>1. \A k \in Ops \ touched : KeptAfter(k)
    BY <1>1, <1>2 DEF FilesFit, AllKept, Kept, KeptAfter
  <2>2. \A k \in Undisturbed : FollowedAfter(k)
    BY <1>1, <1>2 DEF FilesFit, AllFollowed, Followed, FollowedAfter, Original, OriginalAfter,
                      Made, MadeAfter, Settled, SettledAfter
  <2>3. \A k \in Ops : NewIsKnownAfter(k)
    BY <1>1, <1>2 DEF FilesFit, AllKnown, NewIsKnown, NewIsKnownAfter, Gone, GoneAfter
  <2>4. \A k \in Ops : LeftoverAfter(k)
    BY <1>1, <1>2 DEF FilesFit, AllLeft, Leftover, LeftoverAfter, Exists
  <2> QED
    BY <1>1, <2>1, <2>2, <2>3, <2>4, AllAfter DEF FilesFit
<1>8. Known'
  BY <1>1, <1>2 DEF Known, Other, Paths, From, To, Backup, Content
<1> QED
  BY <1>4, <1>5, <1>6, <1>7, <1>8 DEF IInv

-----------------------------------------------------------------------------
(* The invariant holds *)

LEMMA InitEstablishes ==
  ASSUME Init
  PROVE  IInv
<1>1. /\ kinds \in [Ops -> Kinds]
      /\ dir = [name \in Names |->
                  IF kinds[name[2]] # "create" /\ name = From(name[2]) THEN Old(name[2]) ELSE None]
      /\ content = [c \in Contents |-> c]
      /\ phase = "prepare" /\ op = 1 /\ todo = <<>>
      /\ journal = <<>>
      /\ failure = "none" /\ complete = TRUE /\ reported = {}
      /\ stopped = FALSE
      /\ saves = 0 /\ touched = {} /\ met = {} /\ noticed = {}
      /\ faults = 0
  BY DEF Init
<1>2. /\ Len(journal) = 0 /\ journal \in Seq(Entries) /\ todo \in Seq(Calls)
      /\ \A k \in Ops : k \in Nat /\ k >= 1 /\ k > Len(journal) /\ ~(k <= Len(journal))
  BY <1>1, OpsFit, EmptyFits
<1>3. ASSUME NEW k \in Ops
      PROVE  /\ dir[Stage(k)] = None /\ dir[Backup(k)] = None
             /\ dir[Source(k)] \in {None, Old(k)} /\ dir[To(k)] \in {None, Old(k)}
             /\ kinds[k] # "create" => dir[From(k)] = Old(k)
             /\ kinds[k] \in {"create", "rename"} => dir[To(k)] = None
  BY <1>1 DEF Stage, Backup, Source, To, From, Names, Places
<1>4. TypeOK
  <2>1. ControlOK
    BY <1>1, <1>2, OpsFit DEF ControlOK, Phases, Failures
  <2>2. FilesOK
    <3>1. \A name \in Names : Old(name[2]) \in Contents
      BY DEF Names, Old, Contents
    <3> QED
      BY <1>1, <3>1 DEF FilesOK
  <2>3. RestOK
    <3>1. saves \in 0..MaxSaves /\ faults \in 0..MaxFaults
      BY <1>1, EditAssumption
    <3> QED
      BY <1>1, <3>1 DEF RestOK
  <2> QED
    BY <2>1, <2>2, <2>3, TypesFit
<1>5. Course
  BY <1>1, <1>2, OpsFit DEF Course
<1>6. DiskFits
  <2>1. ContentsFit
    <3>1. \A n \in 1..MaxSaves : Other(n) \in Contents
      BY OpsFit, Apart
    <3> QED
      BY <1>1, <3>1 DEF ContentsFit
  <2>2. ASSUME NEW k \in Ops PROVE NamesFit(k)
    BY <1>3, OwnContents DEF NamesFit, Exists
  <2> QED
    BY <2>1, <2>2 DEF DiskFits
<1>7. FilesFit
  <2>1. ASSUME NEW k \in Ops PROVE Kept(k)
    BY <1>1, <1>2, <1>3, OwnContents DEF Kept
  <2>2. ASSUME NEW k \in Ops PROVE Followed(k)
    BY <1>2, <1>3 DEF Followed, Original, Settled
  <2>3. ASSUME NEW k \in Ops PROVE NewIsKnown(k)
    BY <1>1, <1>2, <1>3, OwnContents DEF NewIsKnown, Gone
  <2>4. ASSUME NEW k \in Ops PROVE Leftover(k)
    BY <1>3 DEF Leftover, Exists
  <2> QED
    BY <2>1, <2>2, <2>3, <2>4 DEF FilesFit, AllKept, AllFollowed, AllKnown, AllLeft, Undisturbed
<1>8. Known
  BY <1>1 DEF Known
<1> QED
  BY <1>4, <1>5, <1>6, <1>7, <1>8 DEF IInv

LEMMA NextKeeps ==
  ASSUME IInv, [Next]_vars
  PROVE  IInv'
<1>1. CASE Transaction
  <2>1. Quiet
    BY <1>1 DEF Transaction, Quiet, history
  <2>2. CASE Prepare
    BY <2>1, <2>2, PrepareKeeps
  <2>3. CASE StageContent
    BY <2>1, <2>3, StageContentKeeps
  <2>4. CASE Revalidate
    BY <2>1, <2>4, RevalidateKeeps
  <2>5. CASE Check
    BY <2>1, <2>5, CheckKeeps
  <2>6. CASE MakeBackup
    BY <2>1, <2>6, MakeBackupKeeps
  <2>7. CASE RemoveFile
    BY <2>1, <2>7, RemoveFileKeeps
  <2>8. CASE Install
    BY <2>1, <2>8, InstallKeeps
  <2>9. CASE Unstage
    BY <2>1, <2>9, UnstageKeeps
  <2>10. CASE StepFails
    BY <2>1, <2>10, StepFailsKeeps
  <2>11. CASE Tidy
    BY <2>1, <2>11, TidyKeeps
  <2>12. CASE Sync
    BY <2>1, <2>12, SyncKeeps
  <2>13. CASE Verify
    BY <2>1, <2>13, VerifyKeeps
  <2>14. CASE DropBackup
    BY <2>1, <2>14, DropBackupKeeps
  <2>15. CASE Compare
    BY <2>1, <2>15, CompareKeeps
  <2>16. CASE RollBack
    BY <2>1, <2>16, RollBackKeeps
  <2> QED
    BY <1>1, <2>2, <2>3, <2>4, <2>5, <2>6, <2>7, <2>8, <2>9, <2>10, <2>11, <2>12, <2>13,
       <2>14, <2>15, <2>16 DEF Transaction
<1>2. CASE SaveInPlace
  BY <1>2, SaveInPlaceKeeps
<1>3. CASE SaveAnew
  BY <1>3, SaveAnewKeeps
<1>4. CASE DeleteFile
  BY <1>4, DeleteFileKeeps
<1>5. CASE Stop
  BY <1>5, StandingKeeps DEF Stop
<1>6. CASE UNCHANGED vars
  BY <1>6, StandingKeeps DEF vars, history
<1> QED
  BY <1>1, <1>2, <1>3, <1>4, <1>5, <1>6 DEF Next, OtherProgram

LEMMA IInvHolds == Spec => []IInv
<1>1. Init => IInv
  BY InitEstablishes
<1>2. IInv /\ [Next]_vars => IInv'
  BY NextKeeps
<1> QED
  BY <1>1, <1>2, PTL DEF Spec

-----------------------------------------------------------------------------
(* What follows from it *)

LEMMA LastsAtTheEnd ==
  ASSUME IInv, failure = "none", phase \in {"backups", "done"}, NEW k \in Undisturbed
  PROVE  AsProposed(k)
<1>1. k \in Ops /\ k \in Ops \ touched /\ Followed(k) /\ Kept(k)
  BY DEF IInv, FilesFit, AllFollowed, AllKept, Undisturbed
<1>2. Len(journal) = N
  BY DEF IInv, Course
<1>3. Made(k)
  BY <1>1, <1>2, OpsFit DEF Followed, Settled
<1>4. content[Old(k)] = Old(k) /\ content[New(k)] = New(k) /\ Old(k) # None /\ New(k) # None
  BY <1>1, OwnContents DEF Kept
<1> QED
  BY <1>3, <1>4 DEF Made, AsProposed, Content, Exists

LEMMA SoundByInvariant ==
  ASSUME IInv
  PROVE  WorkspaceIsSound
<1>1. ASSUME NEW k \in Ops \ touched, kinds[k] # "create", ~Linked(Old(k))
      PROVE  /\ failure = "none" /\ phase \in {"backups", "done"}
             /\ \A j \in Undisturbed : AsProposed(j)
  <2>1. Kept(k)
    BY DEF IInv, FilesFit, AllKept
  <2>2. \A name \in Names : dir[name] # Old(k)
    BY <1>1, <2>1, OwnContents DEF Linked, Content, Kept
  <2>3. From(k) \in Names /\ Spare(k) \in Names
    BY OwnNames
  <2>4. ~(k > Len(journal))
    BY <1>1, <2>1, <2>2, <2>3 DEF Kept
  <2>5. journal \in Seq(Entries) /\ k \in Nat /\ k >= 1
    BY OpsFit, TypesFit DEF IInv, ControlOK
  <2>6. k <= Len(journal) /\ journal # <<>>
    BY <2>4, <2>5
  <2>7. phase \in {"backups", "done"}
    BY <1>1, <2>1, <2>2, <2>3, <2>6 DEF Kept
  <2>8. failure = "none"
    BY <2>6, <2>7 DEF IInv, Course
  <2> QED
    BY <2>7, <2>8, LastsAtTheEnd
<1>2. Recoverable
  BY <1>1 DEF Recoverable
<1> QED
  BY <1>2 DEF WorkspaceIsSound, IInv

LEMMA AllOrNothingByInvariant ==
  ASSUME IInv
  PROVE  AllOrNothing
<1>1. ASSUME phase = "done", NEW k \in Undisturbed, failure # "none", RollbackComplete
      PROVE  AsReviewed(k) /\ (kinds[k] # "create" => dir[From(k)] # None)
  <2>1. k \in Ops /\ k \in Ops \ touched /\ Followed(k) /\ Kept(k)
    BY DEF IInv, FilesFit, AllFollowed, AllKept, Undisturbed
  <2>2. journal = <<>> /\ complete
    BY <1>1 DEF IInv, Course, RollbackComplete
  <2>3. k > Len(journal)
    BY <2>1, <2>2, OpsFit
  <2>4. Original(k) /\ content[Old(k)] = Old(k) /\ Old(k) # None
    BY <2>1, <2>2, <2>3, OwnContents DEF Followed, Kept
  <2> QED
    BY <2>4 DEF Original, AsReviewed, Content, Exists
<1> QED
  BY <1>1, LastsAtTheEnd DEF AllOrNothing

LEMMA ReportsByInvariant ==
  ASSUME IInv
  PROVE  ReportsAreTrue
<1>1. TypeOK /\ DiskFits
  BY DEF IInv
<1>2. ASSUME phase = "done", NEW k \in Ops
      PROVE  /\ Exists(Stage(k)) => Stage(k) \in reported
             /\ Exists(Backup(k)) => Backup(k) \in reported
  BY <1>2 DEF IInv, FilesFit, AllLeft, Leftover
<1>3. ASSUME phase = "done", failure # "none", RollbackComplete, NEW k \in Ops, Linked(New(k))
      PROVE  FALSE
  <2>1. PICK name \in Names : Content(name) = New(k)
    BY <1>3 DEF Linked
  <2>2. dir[name] = New(k) /\ content[New(k)] = New(k)
    BY <1>1, <2>1, OwnContentTells
  <2>3. PICK j \in Ops : name \in {Stage(j), Source(j), To(j), Backup(j)}
    BY DEF Names, Places, Stage, Source, To, Backup
  <2>4. /\ NamesFit(j) /\ None # New(k) /\ New(k) \notin Saved /\ New(k) # Old(j)
        /\ New(j) = New(k) => j = k
    BY <1>1, OwnContents, SavedContents, TypesFit DEF DiskFits
  <2>5. CASE name = Stage(j)
    BY <1>2, <1>3, <2>2, <2>4, <2>5 DEF Exists, RollbackComplete
  <2>6. CASE name = To(j)
    <3>1. j = k /\ dir[To(k)] = New(k)
      BY <2>2, <2>4, <2>6 DEF NamesFit
    <3>2. journal = <<>> /\ complete /\ NewIsKnown(k)
      BY <1>3 DEF IInv, Course, RollbackComplete, FilesFit, AllKnown
    <3>3. k > Len(journal)
      BY <3>2, OpsFit
    <3> QED
      BY <2>2, <3>1, <3>2, <3>3 DEF NewIsKnown, Gone
  <2>7. CASE name = Source(j) \/ name = Backup(j)
    BY <2>2, <2>4, <2>7 DEF NamesFit
  <2> QED
    BY <2>3, <2>5, <2>6, <2>7
<1>4. CompleteMeansGone
  BY <1>2, <1>3 DEF CompleteMeansGone, RollbackComplete
<1>5. LeftoversAreReported
  BY <1>2 DEF LeftoversAreReported
<1> QED
  BY <1>4, <1>5 DEF ReportsAreTrue

LEMMA HeldStays ==
  ASSUME kinds' = kinds, content' = content, NEW n,
         \A k \in Ops : \A name \in Paths(k) \cup {Backup(k)} :
           Content(name) = Other(n) => dir'[name] = dir[name],
         Held(n)
  PROVE  Held(n)'
<1>1. PICK k \in Ops : \E name \in Paths(k) \cup {Backup(k)} : Content(name) = Other(n)
  BY DEF Held
<1>2. PICK name \in Paths(k) \cup {Backup(k)} : Content(name) = Other(n)
  BY <1>1
<1>3. dir'[name] = dir[name]
  BY <1>2
<1>4. Content(name)' = Other(n)'
  BY <1>2, <1>3 DEF Content, Other
<1>5. name \in (Paths(k) \cup {Backup(k)})'
  BY NamesStay
<1> QED
  BY <1>4, <1>5 DEF Held

LEMMA KnownSaveIsHeld ==
  ASSUME IInv, Next, transaction' # transaction,
         NEW n \in 1..MaxSaves, Other(n) \in noticed, Held(n)
  PROVE  Held(n)'
<1>1. TypeOK /\ Course /\ Known /\ failure # "none"
  BY DEF IInv, Known
<1>2. Transaction /\ kinds' = kinds
  BY DEF Next, OtherProgram, SaveInPlace, SaveAnew, DeleteFile, Saves, Stop, Transaction
<1>3. phase \notin {"prepare", "stage", "revalidate", "commit", "verify", "backups"}
  BY <1>1 DEF Course
<1>4. Tidy \/ Sync \/ Compare \/ RollBack
  BY <1>2, <1>3 DEF Transaction, Prepare, StageContent, Revalidate, Check, MakeBackup, RemoveFile,
                    Install, Unstage, StepFails, Verify, DropBackup, Doing
<1>5. content' = content
  BY <1>4 DEF Tidy, Sync, Compare, RollBack
<1>6. \A k \in Ops : Paths(k) \cup {Backup(k)} \in SUBSET Names
  BY PathsFit
<1>7. dir \in [Names -> Contents \cup {None}]
  BY <1>1, TypesFit DEF FilesOK
<1>8. ASSUME NEW k \in Ops, NEW name \in Paths(k) \cup {Backup(k)}, Content(name) = Other(n)
      PROVE  dir'[name] = dir[name]
  <2>1. CASE dir' = dir
    BY <2>1
  <2>2. CASE dir' = [dir EXCEPT ![Stage(op)] = None]
    <3>1. name # Stage(op) /\ name \in Names
      <4>1. name \in {Source(k), To(k), Backup(k)}
        BY OwnNames
      <4> QED
        BY <1>6, <4>1 DEF Source, To, Backup, Stage
    <3> QED
      BY <1>7, <2>2, <3>1
  <2>3. CASE RollBack /\ UndoStep(Entry.op)
    <3>1. PICK e \in Ops : /\ e = Len(journal) /\ Entry.op = e
                           /\ phase = "rollback" /\ Head(todo) # "compare"
      BY <1>1, <2>3, AtEntry DEF RollBack
    <3>2. PICK changed \in {From(e), Spare(e)} :
            \E v : dir' = [dir EXCEPT ![changed] = v]
      BY <2>3, <3>1 DEF UndoStep, Unlink, Link, CanLink
    <3>3. changed \in Paths(e) \cup {Backup(e)}
      BY OwnNames DEF Spare
    <3>4. Content(changed) # Other(n)
      BY <1>1, <3>1, <3>3 DEF Known
    <3> QED
      BY <1>6, <1>7, <1>8, <3>2, <3>4
  <2> QED
    BY <1>4, <2>1, <2>2, <2>3 DEF Tidy, Sync, Compare, RollBack, Unlink
<1> QED
  BY <1>2, <1>5, <1>8, HeldStays

-----------------------------------------------------------------------------
(* The results *)

(* Wherever the process stops, what a file held before the edit is still   *)
(* under some name, until the whole edit has been verified, unless another *)
(* program itself wrote over the file or took it away (commit_operation    *)
(* links a backup before it removes, rollback restores before it drops).   *)
THEOREM WorkspaceStaysSound == Spec => []WorkspaceIsSound
<1>1. IInv => WorkspaceIsSound
  BY SoundByInvariant
<1> QED
  BY <1>1, IInvHolds, PTL

(* The edit that is reported as committed is made in every file that no    *)
(* other program changed, and the one that failed with its rollback        *)
(* complete in none, whichever call of apply_with_fault failed.            *)
THEOREM EditsAreAllOrNothing == Spec => []AllOrNothing
<1>1. IInv => AllOrNothing
  BY AllOrNothingByInvariant
<1> QED
  BY <1>1, IInvHolds, PTL

(* A failure that reports its rollback complete leaves nothing of the      *)
(* Agent's behind, and whatever stage or backup stays is named to the      *)
(* caller (rollback_failure, cleanup_stages, cleanup_backups).             *)
THEOREM ReportsStayTrue == Spec => []ReportsAreTrue
<1>1. IInv => ReportsAreTrue
  BY ReportsByInvariant
<1> QED
  BY <1>1, IInvHolds, PTL

(* No call of the transaction takes the last name from what another        *)
(* program saved once the transaction has looked at it: the rollback       *)
(* compares before it touches a file (rollback_created, rollback_backup,   *)
(* rollback_rename).                                                       *)
THEOREM KnownSavesAlwaysSurvive == Spec => KnownSavesSurvive
<1> DEFINE A == transaction' # transaction =>
                  \A n \in 1..MaxSaves : Other(n) \in noticed /\ Held(n) => Held(n)'
<1>1. IInv /\ [Next]_vars => [A]_vars
  BY KnownSaveIsHeld
<1>2. Spec => [][A]_vars
  BY <1>1, IInvHolds, PTL DEF Spec
<1> QED
  BY <1>2 DEF KnownSavesSurvive
=============================================================================
