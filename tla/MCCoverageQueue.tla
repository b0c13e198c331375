----------------------------- MODULE MCCoverageQueue -----------------------------
(* Three addresses with the values 1, 2 and 3: the first two together have the
   fingerprint of the third, and all three that of no address at all. *)
EXTENDS CoverageQueue

Three  == 1 .. 3
Values == 0 .. 3
XorOf  == [s \in SUBSET Three |->
             (IF (1 \in s) # (3 \in s) THEN 1 ELSE 0) + (IF (2 \in s) # (3 \in s) THEN 2 ELSE 0)]

================================================================================
