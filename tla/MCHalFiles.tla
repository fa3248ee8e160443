----------------------------- MODULE MCHalFiles ------------------------------
(* Values of the constants of HalFiles for model checking *)
EXTENDS HalFiles

MCFileSystems == << <<"mnt">>, <<"mnt", "rozipfs">> >>
MCNames == { NullDev, Uart, <<"mnt", "rozipfs", "a.txt">>, <<"mntx">> }
==============================================================================
