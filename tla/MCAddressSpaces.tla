--------------------------- MODULE MCAddressSpaces --------------------------
(***************************************************************************)
(* Three entries per table: 18 pages of memory, the upper nine of them the  *)
(* process window, whose identity aliases are RAM as on aarch64.  As in     *)
(* user/mod.rs the segments, stacks and shared page of different processes  *)
(* have different addresses, some of them under the same leaf table.        *)
(***************************************************************************)
EXTENDS AddressSpaces

SmallRam == (3 .. 5) \cup (9 .. 17)
SmallTables == 81 .. 125
SmallSection == <<"text", "rodata", "data">>

Seg(va, prot) == [va |-> va, prot |-> prot]
Blob == [segs |-> <<Seg(9, "Rx")>>, stack |-> 10, domain |-> 0]
Ping(d) == [segs |-> <<Seg(9, "Rx")>>, stack |-> 12, domain |-> d]
Pong(d) == [segs |-> <<Seg(13, "Rx")>>, stack |-> 15, domain |-> d]
Evil == [segs |-> <<Seg(14, "Ro")>>, stack |-> 11, domain |-> 3]
Crashd == [segs |-> <<Seg(9, "Rx"), Seg(10, "Rw")>>, stack |-> 12, domain |-> 0]

SmallPlans ==
    {[demo |-> "blobs", tasks |-> <<Blob, Blob>>],
     [demo |-> "shared", tasks |-> <<Ping(1), Pong(2), Evil>>],
     [demo |-> "restart", tasks |-> <<Crashd, Pong(0), Crashd>>]}

=============================================================================
