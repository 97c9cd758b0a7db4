--------------------------- MODULE MCNGConnection ---------------------------
(* An instance of NGConnection for TLC: a command, with or without an       *)
(* argument or an entry of the environment that lacks its "=".              *)
EXTENDS NGConnectionProperties, TLC

Text(type, text) == [type |-> type, text |-> text]

SomeRequests == {<<Text(CHUNKTYPE_COMMAND, <<110>>)>>,
                 <<Text(CHUNKTYPE_ARGUMENT, <<>>), Text(CHUNKTYPE_COMMAND, <<110>>)>>,
                 <<Text(CHUNKTYPE_ENVIRONMENT, <<97>>), Text(CHUNKTYPE_COMMAND, <<110>>)>>}
TwoBytes == <<7, 8>>
SomeTexts == (CHUNKTYPE_STDOUT :> {<<1, 2, 3, 4, 5>>} @@ CHUNKTYPE_STDERR :> {<<9>>})
=============================================================================
