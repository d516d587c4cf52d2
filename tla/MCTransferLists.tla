---------------------------- MODULE MCTransferLists -------------------------
(* TransferLists with keyboards whose descriptors end in every transfer.    *)
EXTENDS TransferLists

MCLengths ==
    {[Device |-> 18, Config |-> c, Hid |-> 9, Report |-> r, Keys |-> 8] :
       c \in {9, 17, 25, 33, 34}, r \in {1, 16, 52, 57, 59}}
=============================================================================
