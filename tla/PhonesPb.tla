------------------------------- MODULE PhonesPb ------------------------------
(***************************************************************************)
(* The classes of sample 07: people have phones.                           *)
(***************************************************************************)
EXTENDS WireFormat

\* MOBILE, HOME, WORK; what is read may be any other number.
PhoneType == 0 .. 2

-----------------------------------------------------------------------------
\* class Person_PhoneNumber
PhoneNumber == [number : Bytes, type : Int32]
NewPhoneNumber == [number |-> <<>>, type |-> 0]

PhoneNumberClear(m) == [m EXCEPT !.number = <<>>, !.type = 0]

PhoneNumberReadField(m, f) ==
  CASE f.tag = 10 -> TookText([m EXCEPT !.number = f.val], f)
    [] f.tag = 16 -> Took([m EXCEPT !.type = f.n], f)
    [] OTHER -> Took(m, f)

PhoneNumberByteSizeLong(m) ==
  SizeWhen(m.number # <<>>, 1 + BytesSize(m.number))
  + SizeWhen(m.type # 0, 1 + Int32Size(m.type))

PhoneNumberSerialize(m) ==
  When(m.number # <<>>, WriteBytes(1, m.number))
  \o When(m.type # 0, WriteInt32(2, m.type))

PhoneNumberMergeFrom(m, from) ==
  [m EXCEPT !.number = IF from.number # <<>> THEN from.number ELSE @,
            !.type = IF from.type # 0 THEN from.type ELSE @]
PhoneNumberCopyFrom(m, from) == PhoneNumberMergeFrom(PhoneNumberClear(m), from)

PhoneNumberSetNumber(m, v) == [m EXCEPT !.number = v]
PhoneNumberSetType(m, v) == [m EXCEPT !.type = v]

-----------------------------------------------------------------------------
\* class Person
Person == [name : Bytes, id : Int32, email : Bytes, phones : Seq(PhoneNumber)]
NewPerson == [name |-> <<>>, id |-> 0, email |-> <<>>, phones |-> <<>>]

PersonClear(m) ==
  [m EXCEPT !.name = <<>>, !.id = 0, !.email = <<>>, !.phones = <<>>]

PersonReadField(m, f) ==
  CASE f.tag = 10 -> TookText([m EXCEPT !.name = f.val], f)
    [] f.tag = 16 -> Took([m EXCEPT !.id = f.n], f)
    [] f.tag = 26 -> TookText([m EXCEPT !.email = f.val], f)
    [] f.tag = 34 ->
       LET read == ReadFields(PhoneNumberReadField, NewPhoneNumber, f.val)
       IN  TookMessage([m EXCEPT !.phones = Append(@, read.msg)], read, f)
    [] OTHER -> Took(m, f)

PersonByteSizeLong(m) ==
  SizeWhen(m.name # <<>>, 1 + BytesSize(m.name))
  + SizeWhen(m.id # 0, 1 + Int32Size(m.id))
  + SizeWhen(m.email # <<>>, 1 + BytesSize(m.email))
  + SumOver(LAMBDA x : 1 + LengthDelimitedSize(PhoneNumberByteSizeLong(x)), m.phones)

PersonSerialize(m) ==
  When(m.name # <<>>, WriteBytes(1, m.name))
  \o When(m.id # 0, WriteInt32(2, m.id))
  \o When(m.email # <<>>, WriteBytes(3, m.email))
  \o ForEach(LAMBDA x : WriteMessage(4, PhoneNumberByteSizeLong(x), PhoneNumberSerialize(x)), m.phones)

PersonMergeFrom(m, from) ==
  [m EXCEPT !.name = IF from.name # <<>> THEN from.name ELSE @,
            !.id = IF from.id # 0 THEN from.id ELSE @,
            !.email = IF from.email # <<>> THEN from.email ELSE @,
            !.phones = @ \o [i \in DOMAIN from.phones |-> PhoneNumberMergeFrom(NewPhoneNumber, from.phones[i])]]
PersonCopyFrom(m, from) == PersonMergeFrom(PersonClear(m), from)

PersonSetName(m, v) == [m EXCEPT !.name = v]
PersonSetId(m, v) == [m EXCEPT !.id = v]
PersonSetEmail(m, v) == [m EXCEPT !.email = v]
PersonAddPhones(m, v) == [m EXCEPT !.phones = Append(@, v)]

-----------------------------------------------------------------------------
\* class AddressBook
AddressBook == [people : Seq(Person)]
NewAddressBook == [people |-> <<>>]

AddressBookClear(m) == [m EXCEPT !.people = <<>>]

AddressBookReadField(m, f) ==
  CASE f.tag = 10 ->
       LET read == ReadFields(PersonReadField, NewPerson, f.val)
       IN  TookMessage([m EXCEPT !.people = Append(@, read.msg)], read, f)
    [] OTHER -> Took(m, f)

AddressBookByteSizeLong(m) ==
  SumOver(LAMBDA x : 1 + LengthDelimitedSize(PersonByteSizeLong(x)), m.people)

AddressBookSerialize(m) ==
  ForEach(LAMBDA x : WriteMessage(1, PersonByteSizeLong(x), PersonSerialize(x)), m.people)

AddressBookMergeFrom(m, from) ==
  [m EXCEPT !.people = @ \o [i \in DOMAIN from.people |-> PersonMergeFrom(NewPerson, from.people[i])]]
AddressBookCopyFrom(m, from) == AddressBookMergeFrom(AddressBookClear(m), from)

AddressBookAddPeople(m, v) == [m EXCEPT !.people = Append(@, v)]

=============================================================================
