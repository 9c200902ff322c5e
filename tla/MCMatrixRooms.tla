--------------------------- MODULE MCMatrixRooms ---------------------------
(* The matrix client with one or two other people, a device each, for TLC.  *)
EXTENDS MatrixRooms, TLC

CONSTANTS me, bob, carol, phone, laptop, tablet

OwnerOfDevice == [d \in Devices |-> CASE d = phone  -> me
                                      [] d = laptop -> bob
                                      [] d = tablet -> carol]
=============================================================================
