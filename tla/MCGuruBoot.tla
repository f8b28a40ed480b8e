------------------------------- MODULE MCGuruBoot ------------------------------
EXTENDS GuruDrv

(* Adapters are interchangeable, and so are files.                         *)
Interchange == Permutations(Guru) \cup Permutations(File)
=============================================================================
