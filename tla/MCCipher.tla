------------------------------ MODULE MCCipher ------------------------------
(***************************************************************************)
(* An instance of Cipher and of the integers under it.  The first logins   *)
(* are given, the later ones are not; the private keys make one secret     *)
(* that is too short and one that is not.                                  *)
(***************************************************************************)
EXTENDS Cipher

MCLoginIds == {<< 1, 2, 3, 4, 5, 6 >>, << 9, 2, 3, 4, 5 >>}

\* Nothing but padding, and more than a block.
MCTexts == {[i \in 1..n |-> 200 + i] : n \in {0, 9}}

\* All signs and small lengths, digits at their limits, and for the power
\* moduli of one to four digits.
MCOperands ==
    LET n == (-20..20) \cup {47, 61, 63, 64, 85, 128, 170, 240, 255, 256}
    IN  (n \X n \X {2})
          \cup ({-7, 3, 13, 63, 200} \X {0, 1, 2, 7, 16, 61, 200}
                  \X (30..35 \cup {2, 3, 4, 15, 16, 17, 61, 64, 101, 255}))

MCCipherInit ==
    /\ CipherInit
    /\ login_id["A"] = << 1, 2, 3, 4, 5, 6 >>
    /\ login_id["B"] = << 9, 2, 3, 4, 5 >>
    /\ private_key["A"] = mw_mp_set_int(2)
    /\ private_key["B"] \in {mw_mp_set_int(0), mw_mp_set_int(3)}

CipherRests ==
    /\ login_id = [e \in Ends |-> << >>]
    /\ session_key = [e \in Ends |-> Unset]
    /\ private_key = [e \in Ends |-> mw_mp_set_int(0)]
    /\ public_key = [e \in Ends |-> << >>]
    /\ st = [e \in Ends |-> "resting"]
    /\ instances = [e \in Ends |-> NoInstances]
    /\ selected = "none"
    /\ user = [e \in Ends |-> << >>]
    /\ net = [e \in Ends |-> << >>]
    /\ said = [e \in Ends |-> << >>]
    /\ heard = [e \in Ends |-> << >>]
    /\ created = MaxChannels

MpiRests == operands = << 0, 0, 2 >> /\ tried = TRUE
=============================================================================
