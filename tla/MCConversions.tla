---------------------------- MODULE MCConversions ----------------------------
(***************************************************************************)
(* Model checking the conversions: bytes (DataPath) and texts (Texts).     *)
(* The two share nothing; a behaviour goes one way or the other.           *)
(***************************************************************************)
EXTENDS DataPath, Texts, TLC

\* The least and the greatest of both halves of a counter.
MCNumbers == {<<1, Word32>>, <<Word32 - 1, Word64 - Word32>>}

\* v4 stands for 192.168.1.100.
MCTokens == {"[", "]", ":", "v4", "0", "65535", "65536"}
MCWidth ==
    [t \in {"[", "]", ":", "0"} |-> 1]
        @@ [t \in {"65535", "65536"} |-> 5] @@ ("v4" :> 13) @@ ("192" :> 3)
MCAtoi == ("v4" :> 192) @@ ("192" :> 192) @@ ("0" :> 0)
              @@ ("65535" :> 65535) @@ ("65536" :> 65536)
MCDecimal == (192 :> "192") @@ (65535 :> "65535") @@ (0 :> "0")
MCIp4 == (<<"v4">> :> "host")
MCIp6 == (<<":", ":">> :> "any") @@ (<<"0", ":", ":">> :> "any")
             @@ (<<":", ":", "0">> :> "any") @@ (<<":", ":", "v4">> :> "mapped")
MCShown == [host |-> <<"v4">>, any |-> <<":", ":">>, mapped |-> <<":", ":", "v4">>]

MCInit == Init /\ TextInit
MCNext ==
    \/ kind = "none" /\ Next /\ UNCHANGED <<kind, text>>
    \/ n = 0 /\ TextNext /\ UNCHANGED vars
MCSpec == MCInit /\ [][MCNext]_<<vars, kind, text>>

\* The second packet follows one that was handed on.
SecondAfterFull == n = 0 \/ output.to # "nowhere"
=============================================================================
