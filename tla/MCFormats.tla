----------------------------- MODULE MCFormats -----------------------------
(***************************************************************************)
(* What is computed rather than negotiated, side by side: a message of     *)
(* MCCodec is taken through Codec, or a list is edited and stored by       *)
(* StList, or two ends of Cipher talk, or the integers of Mpi are tried;   *)
(* the other parts rest.                                                   *)
(***************************************************************************)
EXTENDS MCCodec, StList, MCCipher

MCGroupNames == {<< "a", " ", "b" >>, << "a", ";" >>, << "a", "TAB" >>, << "a", "LF", "U" >>}
MCIds == {<< "u", "=", " ", ":" >>, << "u", ":", ":" >>, << "TAB", ":", ":" >>, << "u", "LF", "G" >>}
MCNames == {Null, << "n", "," >>, << "n", "CR" >>}
MCAliases == {Null, << >>, << "x", " ", "," >>, << ";" >>, << "TAB", "x" >>}

CodecRests ==
    /\ msg = Msg(SENSE_SERVICE, None)
    /\ step = "resting"
    /\ sent = mwPutBuffer_new
    /\ cut = 0
    /\ got = Nothing
    /\ copy = << >>
    /\ leak = {}

ListRests == list = mwSametimeList_new /\ loaded = TRUE

FormatsInit ==
    \/ CodecInit /\ ListRests /\ CipherRests /\ MpiRests
    \/ CodecRests /\ ListInit /\ CipherRests /\ MpiRests
    \/ CodecRests /\ ListRests /\ MCCipherInit /\ MpiRests
    \/ CodecRests /\ ListRests /\ CipherRests /\ MpiInit

FormatsNext ==
    \/ CodecNext /\ UNCHANGED << listVars, cipherVars, mpiVars >>
    \/ ListNext /\ UNCHANGED << codecVars, cipherVars, mpiVars >>
    \/ CipherNext /\ UNCHANGED << codecVars, listVars, mpiVars >>
    \/ MpiNext /\ UNCHANGED << codecVars, listVars, cipherVars >>

FormatsSpec ==
    FormatsInit /\ [][FormatsNext]_<< codecVars, listVars, cipherVars, mpiVars >>
=============================================================================
