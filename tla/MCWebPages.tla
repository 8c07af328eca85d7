----------------------------- MODULE MCWebPages -----------------------------
(* Instance of WebPages for TLC: what a configuration cannot write down.     *)
EXTENDS WebPages

(* A value of the type that is longer can be decoded as the shorter one.      *)
MCDecodes == [t \in ValueTypes |-> IF t = CHOOSE u \in ValueTypes : TRUE THEN ValueTypes ELSE {t}]

MCCharacters == {<<1>>, <<2, 3>>}
MCStructures == {<<"str512", "cstr", "str512">>, <<"int16", "str512", "bytearray">>, <<"uint16", "bool">>}
MCContaining == [q \in {"u", "q"} |-> IF q = "u" THEN {"u"} ELSE {}]
MCKeysAtFirst == (1 :> "t1") @@ (2 :> "t2")
=============================================================================
