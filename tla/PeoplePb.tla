------------------------------- MODULE PeoplePb ------------------------------
(***************************************************************************)
(* The classes of sample 06: an address book of people.                    *)
(***************************************************************************)
EXTENDS WireFormat

-----------------------------------------------------------------------------
\* class Person
Person == [name : Bytes, id : Int32, email : Bytes]
NewPerson == [name |-> <<>>, id |-> 0, email |-> <<>>]

PersonClear(m) == [m EXCEPT !.name = <<>>, !.id = 0, !.email = <<>>]

PersonReadField(m, f) ==
  CASE f.tag = 10 -> TookText([m EXCEPT !.name = f.val], f)
    [] f.tag = 16 -> Took([m EXCEPT !.id = f.n], f)
    [] f.tag = 26 -> TookText([m EXCEPT !.email = f.val], f)
    [] OTHER -> Took(m, f)

PersonByteSizeLong(m) ==
  SizeWhen(m.name # <<>>, 1 + BytesSize(m.name))
  + SizeWhen(m.id # 0, 1 + Int32Size(m.id))
  + SizeWhen(m.email # <<>>, 1 + BytesSize(m.email))

PersonSerialize(m) ==
  When(m.name # <<>>, WriteBytes(1, m.name))
  \o When(m.id # 0, WriteInt32(2, m.id))
  \o When(m.email # <<>>, WriteBytes(3, m.email))

PersonMergeFrom(m, from) ==
  [m EXCEPT !.name = IF from.name # <<>> THEN from.name ELSE @,
            !.id = IF from.id # 0 THEN from.id ELSE @,
            !.email = IF from.email # <<>> THEN from.email ELSE @]
PersonCopyFrom(m, from) == PersonMergeFrom(PersonClear(m), from)

PersonSetName(m, v) == [m EXCEPT !.name = v]
PersonSetId(m, v) == [m EXCEPT !.id = v]
PersonSetEmail(m, v) == [m EXCEPT !.email = v]

-----------------------------------------------------------------------------
\* class AddressBook
AddressBook == [people : Seq(Person)]
NewAddressBook == [people |-> <<>>]

AddressBookClear(m) == [m EXCEPT !.people = <<>>]

AddressBookReadField(m, f) ==
  CASE f.tag = 10 ->
       LET read == ReadFields(PersonReadField, NewPerson, f.val)
       IN  TookMessage([m EXCEPT !.people = Append(@, read.msg)], read, f)
    [] OTHER -> Took(m, f)

AddressBookByteSizeLong(m) ==
  SumOver(LAMBDA x : 1 + LengthDelimitedSize(PersonByteSizeLong(x)), m.people)

AddressBookSerialize(m) ==
  ForEach(LAMBDA x : WriteMessage(1, PersonByteSizeLong(x), PersonSerialize(x)), m.people)

AddressBookMergeFrom(m, from) ==
  [m EXCEPT !.people = @ \o [i \in DOMAIN from.people |-> PersonMergeFrom(NewPerson, from.people[i])]]
AddressBookCopyFrom(m, from) == AddressBookMergeFrom(AddressBookClear(m), from)

AddressBookAddPeople(m, v) == [m EXCEPT !.people = Append(@, v)]

=============================================================================
