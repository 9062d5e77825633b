------------------------------ MODULE PackagePb ------------------------------
(***************************************************************************)
(* The classes of sample 08: those of sample 07, generated again in the    *)
(* package tutorial.  A package changes names only, nothing on the wire.   *)
(***************************************************************************)
EXTENDS WireFormat

LOCAL Of == INSTANCE PhonesPb

PhoneType == Of!PhoneType

\* class Person_PhoneNumber
PhoneNumber == Of!PhoneNumber
NewPhoneNumber == Of!NewPhoneNumber
PhoneNumberClear(m) == Of!PhoneNumberClear(m)
PhoneNumberReadField(m, f) == Of!PhoneNumberReadField(m, f)
PhoneNumberByteSizeLong(m) == Of!PhoneNumberByteSizeLong(m)
PhoneNumberSerialize(m) == Of!PhoneNumberSerialize(m)
PhoneNumberMergeFrom(m, from) == Of!PhoneNumberMergeFrom(m, from)
PhoneNumberCopyFrom(m, from) == Of!PhoneNumberCopyFrom(m, from)
PhoneNumberSetNumber(m, v) == Of!PhoneNumberSetNumber(m, v)
PhoneNumberSetType(m, v) == Of!PhoneNumberSetType(m, v)

\* class Person
Person == Of!Person
NewPerson == Of!NewPerson
PersonClear(m) == Of!PersonClear(m)
PersonReadField(m, f) == Of!PersonReadField(m, f)
PersonByteSizeLong(m) == Of!PersonByteSizeLong(m)
PersonSerialize(m) == Of!PersonSerialize(m)
PersonMergeFrom(m, from) == Of!PersonMergeFrom(m, from)
PersonCopyFrom(m, from) == Of!PersonCopyFrom(m, from)
PersonSetName(m, v) == Of!PersonSetName(m, v)
PersonSetId(m, v) == Of!PersonSetId(m, v)
PersonSetEmail(m, v) == Of!PersonSetEmail(m, v)
PersonAddPhones(m, v) == Of!PersonAddPhones(m, v)

\* class AddressBook
AddressBook == Of!AddressBook
NewAddressBook == Of!NewAddressBook
AddressBookClear(m) == Of!AddressBookClear(m)
AddressBookReadField(m, f) == Of!AddressBookReadField(m, f)
AddressBookByteSizeLong(m) == Of!AddressBookByteSizeLong(m)
AddressBookSerialize(m) == Of!AddressBookSerialize(m)
AddressBookMergeFrom(m, from) == Of!AddressBookMergeFrom(m, from)
AddressBookCopyFrom(m, from) == Of!AddressBookCopyFrom(m, from)
AddressBookAddPeople(m, v) == Of!AddressBookAddPeople(m, v)
=============================================================================
