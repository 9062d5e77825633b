------------------------------- MODULE StreamPb ------------------------------
(***************************************************************************)
(* The class of sample 05, which protoc made of the proto of sample 04:    *)
(* the class of PersonPb, in files of its own.                             *)
(***************************************************************************)
EXTENDS WireFormat

LOCAL Of == INSTANCE PersonPb

\* class Person
Person == Of!Person
NewPerson == Of!NewPerson
PersonClear(m) == Of!PersonClear(m)
PersonReadField(m, f) == Of!PersonReadField(m, f)
PersonByteSizeLong(m) == Of!PersonByteSizeLong(m)
PersonSerialize(m) == Of!PersonSerialize(m)
PersonMergeFrom(m, from) == Of!PersonMergeFrom(m, from)
PersonCopyFrom(m, from) == Of!PersonCopyFrom(m, from)
PersonSetName(m, v) == Of!PersonSetName(m, v)
PersonSetId(m, v) == Of!PersonSetId(m, v)
PersonSetEmail(m, v) == Of!PersonSetEmail(m, v)
=============================================================================
