-------------------------- MODULE AddressBookFile --------------------------
(***************************************************************************)
(* The programs of the protobuf samples and the file they share.  The test *)
(* program of a sample writes its people (04, 05: one, and no book) into   *)
(* pb.xxx and reads the file back; add_person reads an address book, adds  *)
(* the person typed in and writes the book; list_people reads it.  Nothing *)
(* keeps two of them apart, and any of them may be killed.                 *)
(*                                                                         *)
(* A program opens the file for writing, which empties it, and what it     *)
(* writes reaches the file in one write when it closes it: over what the   *)
(* file holds by then, from its start.                                     *)
(***************************************************************************)
EXTENDS Integers, Sequences, FiniteSets, SequencesExt

CONSTANTS
  Samples,     \* test programs that run, of "04" to "09"
  Adders,      \* processes that run add_person
  Listers,     \* ... and list_people
  Typed,       \* people who may be typed in
  NoFile,      \* "there is no file"
  MaxSamples,  \* bound: samples that run, each once
  MaxDeaths    \* bound: programs killed

One == INSTANCE PersonPb          \* sample 04
Stream == INSTANCE StreamPb       \* sample 05
People == INSTANCE PeoplePb       \* sample 06
Phones == INSTANCE PhonesPb       \* sample 07
Package == INSTANCE PackagePb     \* sample 08
Tutorial == INSTANCE TutorialPb   \* add_person, list_people
Groups == INSTANCE GroupsPb       \* sample 09

ASSUME SamplesAssumption ==
  /\ Samples \subseteq {"04", "05", "06", "07", "08", "09"} /\ Samples \cap (Adders \cup Listers) = {}
  /\ MaxSamples \in Nat /\ MaxDeaths \in Nat

Programs == Samples \cup Adders \cup Listers

VARIABLES
  file,        \* the bytes of pb.xxx
  pc,          \* where each program is
  book,        \* the address book each adder has in memory
  seen,        \* what each program read last
  deaths,
  \* History of the file, for the properties.
  expected,    \* the people it should hold, as sample 09 writes them
  writer,      \* the program that wrote it last
  disturbed    \* whether programs overlapped or one died writing

vars == <<file, pc, book, seen, deaths, expected, writer, disturbed>>
history == <<expected, writer, disturbed>>

-----------------------------------------------------------------------------
\* The classes at work.  What ParseFrom... makes of some bytes:
PersonParse(b) == One!ReadFields(One!PersonReadField, One!NewPerson, b)
StreamParse(b) == Stream!ReadFields(Stream!PersonReadField, Stream!NewPerson, b)
PeopleParse(b) == People!ReadFields(People!AddressBookReadField, People!NewAddressBook, b)
PhonesParse(b) == Phones!ReadFields(Phones!AddressBookReadField, Phones!NewAddressBook, b)
PackageParse(b) == Package!ReadFields(Package!AddressBookReadField, Package!NewAddressBook, b)
TutorialParse(b) ==
  Tutorial!ReadFields(Tutorial!AddressBookReadField, Tutorial!NewAddressBook, b)
GroupsParse(b) == Groups!ReadFields(Groups!AddressBookReadField, Groups!NewAddressBook, b)

\* The people of the samples; one letter stands for the whole text.
Mike == [name |-> <<109>>, id |-> 1, email |-> <<109>>]
Jiang == [name |-> <<106>>, id |-> 2, email |-> <<106>>]
Abc == [name |-> <<97>>, id |-> 3, email |-> <<97>>]
MikeAlone == [Mike EXCEPT !.email = <<120>>]
PhoneList == <<[number |-> <<49>>, type |-> 0], [number |-> <<50>>, type |-> 1]>>
China == [addr |-> <<67>>, group |-> <<65>>]

\* Setters applied one after the other.
Filled(SetName(_, _), SetId(_, _), SetEmail(_, _), new, who) ==
  SetEmail(SetId(SetName(new, who.name), who.id), who.email)
PhoneOf(SetNumber(_, _), SetType(_, _), new, p) == SetType(SetNumber(new, p.number), p.type)

SetPerson ==
  Filled(One!PersonSetName, One!PersonSetId, One!PersonSetEmail, One!NewPerson, MikeAlone)
SetStreamPerson ==
  Filled(Stream!PersonSetName, Stream!PersonSetId, Stream!PersonSetEmail, Stream!NewPerson,
         MikeAlone)

SetPeople ==
  LET add(m, who) ==
        People!AddressBookAddPeople(m,
          Filled(People!PersonSetName, People!PersonSetId, People!PersonSetEmail,
                 People!NewPerson, who))
  IN  FoldLeft(add, People!NewAddressBook, <<Mike, Jiang, Abc>>)

SetPhones ==
  LET mike == Filled(Phones!PersonSetName, Phones!PersonSetId, Phones!PersonSetEmail,
                     Phones!NewPerson, Mike)
      add(m, p) == Phones!PersonAddPhones(m,
                     PhoneOf(Phones!PhoneNumberSetNumber, Phones!PhoneNumberSetType,
                             Phones!NewPhoneNumber, p))
  IN  Phones!AddressBookAddPeople(Phones!NewAddressBook, FoldLeft(add, mike, PhoneList))

SetPackagePhones ==
  LET mike == Filled(Package!PersonSetName, Package!PersonSetId, Package!PersonSetEmail,
                     Package!NewPerson, Mike)
      add(m, p) == Package!PersonAddPhones(m,
                     PhoneOf(Package!PhoneNumberSetNumber, Package!PhoneNumberSetType,
                             Package!NewPhoneNumber, p))
  IN  Package!AddressBookAddPeople(Package!NewAddressBook, FoldLeft(add, mike, PhoneList))

SetGroups ==
  LET mike == Filled(Groups!PersonSetName, Groups!PersonSetId, Groups!PersonSetEmail,
                     Groups!NewPerson, Mike)
      add(m, p) == Groups!PersonAddPhones(m,
                     PhoneOf(Groups!PhoneNumberSetNumber, Groups!PhoneNumberSetType,
                             Groups!NewPhoneNumber, p))
      info == Groups!InfoSetGroup(Groups!InfoSetAddr(Groups!NewInfo, China.addr), China.group)
  IN  Groups!AddressBookAddPeople(Groups!NewAddressBook,
        Groups!PersonSetTmp(FoldLeft(add, mike, PhoneList), info))

\* What a sample sets, writes, and makes of the bytes it reads.
SetBy(s) ==
  CASE s = "04" -> SetPerson [] s = "05" -> SetStreamPerson [] s = "06" -> SetPeople
    [] s = "07" -> SetPhones [] s = "08" -> SetPackagePhones [] s = "09" -> SetGroups
ToWrite(s) ==
  CASE s = "04" -> One!PersonSerialize(SetPerson)
    [] s = "05" -> Stream!PersonSerialize(SetStreamPerson)
    [] s = "06" -> People!AddressBookSerialize(SetPeople)
    [] s = "07" -> Phones!AddressBookSerialize(SetPhones)
    [] s = "08" -> Package!AddressBookSerialize(SetPackagePhones)
    [] s = "09" -> Groups!AddressBookSerialize(SetGroups)
SampleParse(s, b) ==
  CASE s = "04" -> PersonParse(b) [] s = "05" -> StreamParse(b) [] s = "06" -> PeopleParse(b)
    [] s = "07" -> PhonesParse(b) [] s = "08" -> PackageParse(b) [] s = "09" -> GroupsParse(b)

\* PromptForAddress: what is typed goes into a person just added; a phone type
\* that is none of the three stays the default, and so does an empty e-mail.
PromptForAddress(who) ==
  LET phone(p) ==
        IF p.type \in Tutorial!PhoneType
        THEN Tutorial!PhoneNumberSetType(
               Tutorial!PhoneNumberSetNumber(Tutorial!NewPhoneNumber, p.number), p.type)
        ELSE Tutorial!PhoneNumberSetNumber(Tutorial!NewPhoneNumber, p.number)
      named == Tutorial!PersonSetName(Tutorial!PersonSetId(Tutorial!NewPerson, who.id), who.name)
      reached == IF who.email # <<>> THEN Tutorial!PersonSetEmail(named, who.email) ELSE named
  IN  FoldLeft(Tutorial!PersonAddPhones, reached,
               [i \in DOMAIN who.phones |-> phone(who.phones[i])])

-----------------------------------------------------------------------------
\* The file.
Overwrite(old, new) == new \o SubSeq(old, Len(new) + 1, Len(old))

\* A program is in the middle from the moment it holds what it will write back
\* to the moment it has written.
InTheMiddle(p) == pc[p] \in {"prompt", "open", "write"}
Quiet == \A p \in Programs : pc[p] # "write"
Overlaps(p) == \E q \in Programs \ {p} : InTheMiddle(q)

\* A reader's parse, whether the file was left alone, and what it should hold.
Reading(parse) ==
  [ok |-> parse.ok, msg |-> parse.msg, alone |-> Quiet /\ ~disturbed,
   writer |-> writer, expected |-> expected]

Init ==
  /\ file = NoFile
  /\ \E chosen \in SUBSET Samples :
       /\ Cardinality(chosen) <= MaxSamples
       /\ pc = [p \in Programs |-> IF p \in chosen THEN "start"
                                 ELSE IF p \in Samples THEN "done" ELSE "read"]
  /\ book = [a \in Adders |-> Tutorial!NewAddressBook]
  /\ seen = [p \in Samples \cup Listers |-> <<>>]
  /\ deaths = 0
  /\ expected = <<>> /\ writer = NoFile /\ disturbed = FALSE

\* (mutant) The file is opened without emptying it.
TruncateNot(p) ==
  /\ file' = IF file = NoFile THEN <<>> ELSE file
  /\ pc' = [pc EXCEPT ![p] = "write"]
  /\ disturbed' = (disturbed \/ Overlaps(p))
  /\ UNCHANGED <<book, seen, deaths, expected, writer>>

\* fstream(argv[1], ios::out | ios::trunc | ios::binary); open(O_TRUNC).
Truncate(p) ==
  /\ file' = <<>>
  /\ pc' = [pc EXCEPT ![p] = "write"]
  /\ disturbed' = (disturbed \/ Overlaps(p))
  /\ UNCHANGED <<book, seen, deaths, expected, writer>>

WriteOut(p, bytes) ==
  /\ file' = Overwrite(file, bytes)
  /\ writer' = p
  /\ disturbed' = (disturbed \/ Overlaps(p))
  /\ UNCHANGED <<seen, deaths>>

-----------------------------------------------------------------------------
\* A sample's main: set, then get, which does not look whether it could parse.
Person09(who, phones, tmp) ==
  [name |-> who.name, id |-> who.id, email |-> who.email, phones |-> phones, tmp |-> tmp]
NoBook == {"04", "05"}
ExpectedOf(s) ==
  CASE s \in NoBook -> <<>>
    [] s = "06" -> [i \in 1 .. 3 |-> Person09(<<Mike, Jiang, Abc>>[i], <<>>, <<>>)]
    [] s \in {"07", "08"} -> <<Person09(Mike, PhoneList, <<>>)>>
    [] s = "09" -> <<Person09(Mike, PhoneList, <<China>>)>>

SetOpens(s) == pc[s] = "start" /\ Truncate(s)

SetWrites(s) ==
  /\ pc[s] = "write"
  /\ pc' = [pc EXCEPT ![s] = "get"]
  /\ expected' = ExpectedOf(s)
  /\ WriteOut(s, ToWrite(s))
  /\ UNCHANGED book

GetReads(s) ==
  /\ pc[s] = "get"
  /\ pc' = [pc EXCEPT ![s] = "done"]
  /\ seen' = [seen EXCEPT ![s] = Reading(SampleParse(s, file))]
  /\ UNCHANGED <<file, book, deaths, history>>

-----------------------------------------------------------------------------
\* add_person.
AddReads(a) ==
  LET parse == TutorialParse(file)
  IN  /\ pc[a] = "read"
      /\ book' = [book EXCEPT ![a] = IF file = NoFile THEN Tutorial!NewAddressBook ELSE parse.msg]
      /\ pc' = [pc EXCEPT ![a] = IF file = NoFile \/ parse.ok THEN "prompt" ELSE "done"]
      /\ disturbed' = (disturbed \/ Overlaps(a))
      /\ UNCHANGED <<file, seen, deaths, expected, writer>>

AddPrompts(a) ==
  /\ pc[a] = "prompt"
  /\ \E who \in Typed :
       book' = [book EXCEPT ![a] = Tutorial!AddressBookAddPeople(@, PromptForAddress(who))]
  /\ pc' = [pc EXCEPT ![a] = "open"]
  /\ UNCHANGED <<file, seen, deaths, history>>

AddOpens(a) == pc[a] = "open" /\ Truncate(a)

AddWrites(a) ==
  LET new == Last(book[a].people)
  IN  /\ pc[a] = "write"
      /\ pc' = [pc EXCEPT ![a] = "done"]
      \* The class of add_person has no field tmp.
      /\ expected' = Append([i \in DOMAIN expected |-> [expected[i] EXCEPT !.tmp = <<>>]],
                            Person09(new, new.phones, <<>>))
      /\ WriteOut(a, Tutorial!AddressBookSerialize(book[a]))
      /\ book' = [book EXCEPT ![a] = Tutorial!NewAddressBook]

\* list_people.
ListReads(l) ==
  /\ pc[l] = "read"
  /\ pc' = [pc EXCEPT ![l] = "done"]
  /\ seen' = [seen EXCEPT ![l] =
       Reading(IF file = NoFile THEN [ok |-> FALSE, msg |-> Tutorial!NewAddressBook]
               ELSE TutorialParse(file))]
  /\ UNCHANGED <<file, book, deaths, history>>

\* Any program may be killed.
Killed(p) ==
  /\ deaths < MaxDeaths /\ InTheMiddle(p)
  /\ deaths' = deaths + 1
  /\ pc' = [pc EXCEPT ![p] = "done"]
  /\ disturbed' = (disturbed \/ pc[p] = "write")
  /\ book' = IF p \in Adders THEN [book EXCEPT ![p] = Tutorial!NewAddressBook] ELSE book
  /\ UNCHANGED <<file, seen, expected, writer>>

Next ==
  \/ \E s \in Samples : SetOpens(s) \/ SetWrites(s) \/ GetReads(s)
  \/ \E a \in Adders : AddReads(a) \/ AddPrompts(a) \/ AddOpens(a) \/ AddWrites(a)
  \/ \E l \in Listers : ListReads(l)
  \/ \E p \in Programs : Killed(p)

Spec == Init /\ [][Next]_vars

-----------------------------------------------------------------------------
\* Properties.
Text(person) ==
  {person.name, person.email} \cup {person.phones[i].number : i \in DOMAIN person.phones}
AllUtf8(people) == \A i \in DOMAIN people : \A t \in Text(people[i]) : One!Utf8(t)

HoldsBook == Quiet /\ ~disturbed /\ writer \notin NoBook \cup {NoFile}

\* As long as programs run one after the other and none dies writing, nobody
\* who was added is lost and nobody appears twice, whatever mixture of the
\* samples' classes wrote the book: sample 09 reads every person there was,
\* with every phone.  Only tmp, which add_person's class does not know, is
\* gone after an addition.
AddedPeopleKept ==
  HoldsBook /\ AllUtf8(expected) => GroupsParse(file) = [ok |-> TRUE, msg |-> [people |-> expected]]

\* A book nobody disturbed can be read by add_person, and so be added to, if
\* and only if every text in it is UTF-8: a text that is not is written
\* without complaint and refused ever after.
UnreadableOnlyByText == HoldsBook => (TutorialParse(file).ok <=> AllUtf8(expected))

\* A sample that reads back its own file gets what it has set, and
\* list_people lists the book, although neither knows who wrote the file.
ReadersSeeTheBook ==
  /\ \A s \in Samples :
       seen[s] # <<>> => (seen[s].alone /\ seen[s].writer = s =>
                            seen[s].ok /\ seen[s].msg = SetBy(s))
  /\ \A l \in Listers :
       seen[l] # <<>> =>
         (seen[l].alone /\ seen[l].writer \notin NoBook \cup {NoFile} /\ AllUtf8(seen[l].expected) =>
            /\ seen[l].ok
            /\ Len(seen[l].msg.people) = Len(seen[l].expected)
            /\ \A i \in DOMAIN seen[l].expected :
                 \A f \in {"name", "id", "email", "phones"} :
                   seen[l].msg.people[i][f] = seen[l].expected[i][f])

\* Reading a book after another into one object is merging the two, as
\* MergeFrom does it; the size computed beforehand is the length written; and
\* what is written of an object can be read back into a cleared one.
MergeIsConcatenation ==
  /\ ~disturbed => \A a \in Adders :
       LET bytes == Tutorial!AddressBookSerialize(book[a])
           there == TutorialParse(file)
       IN  /\ Tutorial!AddressBookByteSizeLong(book[a]) = Len(bytes)
           /\ file # NoFile /\ there.ok /\ AllUtf8(book[a].people) =>
                TutorialParse(file \o bytes).msg = Tutorial!AddressBookMergeFrom(there.msg, book[a])
           /\ file # NoFile =>
                Tutorial!AddressBookCopyFrom(there.msg, book[a]) = book[a]
  /\ HoldsBook /\ AllUtf8(expected) =>
       LET all == [people |-> expected]
       IN  /\ Groups!AddressBookByteSizeLong(all) = Len(Groups!AddressBookSerialize(all))
           /\ Groups!AddressBookMergeFrom(Groups!AddressBookClear(all), all) = all
=============================================================================
