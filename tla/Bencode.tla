------------------------------- MODULE Bencode -------------------------------
(***************************************************************************)
(* Bencoded values, the encoder and the decoder.  A value is a pair of its *)
(* kind and its content: <<"int", n>>, <<"ull", n>> (the variant has both), *)
(* <<"string", s>>, <<"list", values>> or <<"dict", function of keys>>.    *)
(* Text is a sequence of tokens: <<"i", n>> for i..e, <<"s", s>> for a      *)
(* string with its length, <<"l">>, <<"d">> and <<"e">>.  Of a text that was *)
(* cut off within a token there remains <<"i">> or <<"s">> at the end.     *)
(***************************************************************************)
EXTENDS Words, Sequences, SequencesExt, TLC

(* The keys of a std::map, in their order; no other keys occur.            *)
KeyOrder == <<"announce", "announce-list", "comment", "created by", "creation date", "files",
              "info", "length", "name", "path", "piece length", "pieces">>
Keys(dict) == SelectSeq(KeyOrder, LAMBDA k : k \in DOMAIN dict)

RECURSIVE Written(_)
(* The text of a value.                                                    *)
Written(v) ==
    CASE v[1] \in {"int", "ull"} -> <<<<"i", v[2]>>>>
      [] v[1] = "string" -> <<<<"s", v[2]>>>>
      [] v[1] = "list" -> <<<<"l">>>> \o FlattenSeq([i \in DOMAIN v[2] |-> Written(v[2][i])])
                              \o <<<<"e">>>>
      [] v[1] = "dict" ->
            LET keys == Keys(v[2])
            IN  <<<<"d">>>>
                \o FlattenSeq([i \in DOMAIN keys |-> <<<<"s", keys[i]>>>> \o Written(v[2][keys[i]])])
                \o <<<<"e">>>>

(* The encoder throws if there is an empty string anywhere.                *)
Encodes(v) == \A i \in DOMAIN Written(v) : Written(v)[i] # <<"s", "">>
Encode(v) == Written(v)

-----------------------------------------------------------------------------
(* A result is <<value, index of what follows>>, or Thrown.                *)
Thrown == <<>>

(* Mutant: an integer may end with the text.                               *)
DecodeInt_NoEnd(token) == <<"ull", IF Len(token) = 2 THEN ToUnsigned(token[2]) ELSE 0>>

(* A value, or Thrown.  A minus sign is accepted and the number wraps.     *)
DecodeInt(token) == IF Len(token) = 2 THEN <<"ull", ToUnsigned(token[2])>> ELSE Thrown
DecodeString(token) == IF Len(token) = 2 THEN <<"string", token[2]>> ELSE Thrown

(* A list or dictionary ends with e, or with the text.                     *)
Ends(s, i) == i > Len(s) \/ s[i] = <<"e">>

RECURSIVE DecodeAt(_, _), DecodeList(_, _, _), DecodeDict(_, _, _)

(* xs are the elements decoded so far.                                     *)
DecodeList(s, i, xs) ==
    LET x == DecodeAt(s, i)
    IN  IF Ends(s, i) THEN <<<<"list", xs>>, i + 1>>
        ELSE IF x = Thrown THEN Thrown
        ELSE DecodeList(s, x[2], Append(xs, x[1]))

(* A key that is repeated gets its last value.                             *)
DecodeDict(s, i, dict) ==
    LET key == DecodeAt(s, i)
        value == DecodeAt(s, key[2])
    IN  IF Ends(s, i) THEN <<<<"dict", dict>>, i + 1>>
        ELSE IF key = Thrown THEN Thrown
        ELSE IF key[1][1] # "string" \/ value = Thrown THEN Thrown
        ELSE DecodeDict(s, value[2], key[1][2] :> value[1] @@ dict)

DecodeAt(s, i) ==
    LET scalar == IF s[i][1] = "i" THEN DecodeInt(s[i]) ELSE DecodeString(s[i])
    IN  IF i > Len(s) THEN Thrown
        ELSE CASE s[i] = <<"l">> -> DecodeList(s, i + 1, <<>>)
               [] s[i] = <<"d">> -> DecodeDict(s, i + 1, <<>>)
               [] s[i] = <<"e">> -> Thrown
               [] OTHER -> IF scalar = Thrown THEN Thrown ELSE <<scalar, i + 1>>

(* The first value of a text, or Thrown; what follows it is ignored.       *)
Decode(s) ==
    LET result == DecodeAt(s, 1) IN IF result = Thrown THEN Thrown ELSE result[1]
=============================================================================
