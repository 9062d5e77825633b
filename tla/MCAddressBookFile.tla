------------------------- MODULE MCAddressBookFile -------------------------
\* The people typed in when TLC checks AddressBookFile: nothing but a negative
\* number; two phones, one of no known type, and an email so long that the size of
\* the person takes two bytes; a name that is not UTF-8.
EXTENDS AddressBookFile

TypedPeople ==
  { [name |-> <<>>, id |-> -7, email |-> <<>>, phones |-> <<>>],
    [name |-> <<228, 189, 160>>, id |-> 300, email |-> [i \in 1 .. 128 |-> 97],
     phones |-> <<[number |-> <<51>>, type |-> 2], [number |-> <<52>>, type |-> 9]>>],
    [name |-> <<196, 227>>, id |-> 0, email |-> <<>>, phones |-> <<>>] }
=============================================================================
