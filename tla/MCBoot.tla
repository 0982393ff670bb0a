------------------------------- MODULE MCBoot -------------------------------
(* Devices with up to two directory entries, good and bad in every way     *)
(* read_item tells apart, a failure at every read, and items of every kind *)
(* of record.                                                              *)
EXTENDS Boot

CONSTANTS zero, realm, key, fixture

MCValues == {realm, key, fixture}
MCFixtures == {fixture}

MCRecords ==
  {[prefix |-> p, mode |-> m, realm |-> realm, boot |-> b, key |-> k] :
     p \in {"LAUNCH", "PUB", "BOOT"}, m \in {"OPERATOR", "FIXTURE"},
     b \in {zero, realm}, k \in {key, fixture}}

MCEntries ==
  [key : {31, 32, 33}, size : {4, 5}, name : {"launch-context", "other", "unnamed"},
   reserved : {FALSE}]
  \cup {[key |-> 34, size |-> 4, name |-> "launch-context", reserved |-> TRUE]}

MCStops == {<<"never">>, <<"signature">>, <<"features">>, <<"count">>, <<"item">>,
            <<"entry", 1>>, <<"entry", 2>>}

Device(q, t, entries, item, s) ==
  [qemu |-> q, traditional |-> t, entries |-> entries, item |-> item, stops |-> s]

Good == [realm |-> realm, boot |-> realm, key |-> key]
One == [key |-> 32, size |-> 4, name |-> "launch-context", reserved |-> FALSE]

MCDevices ==
  {Device(q, t, <<One>>, <<r>>, s) :
     q \in BOOLEAN, t \in BOOLEAN, r \in MCRecords, s \in MCStops \ {<<"entry", 2>>}}
  \cup
  {Device(TRUE, TRUE, <<e, f>>,
          <<tcs_launch_encode(Good, "OPERATOR"), tcs_public_encode(Good, "OPERATOR")>>, s) :
     e \in MCEntries, f \in MCEntries, s \in MCStops}
  \cup
  {Device(TRUE, TRUE, <<One, [One EXCEPT !.key = 33, !.name = "other"],
                        [One EXCEPT !.key = 34, !.name = "other"]>>,
          <<r, r, r>>, <<"never">>) : r \in MCRecords}
=============================================================================
