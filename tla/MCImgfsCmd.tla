----------------------------- MODULE MCImgfsCmd -----------------------------
(* A small instance of ImgfsCmd for TLC: commands of every kind, well and   *)
(* ill formed.                                                              *)
EXTENDS ImgfsCmd, TLC

CONSTANTS i1, i2, i3, cat, dog, bad

ThreeIds == {i1, i2, i3}
TwoContents == {cat, dog}
OneBad == {bad}
AllCalls == {"create", "insert", "delete", "read", "list"}
Interchangeable == Permutations(ThreeIds) \cup Permutations(TwoContents)

\* A path is named for what is there; nothing is at "nowhere".
ThreeImages == [c \in {cat, dog, bad} |-> c]
OneLong == {"long"}

\* The texts of the numbers; with 9 for UINTMAX "-8" wraps to 2 and "-9" to 1,
\* and "-10" is out of range.  Any other text is not a number.
Texts ==
    "0" :> 0 @@ "1" :> 1 @@ "2" :> 2 @@ "3" :> 3 @@ "4" :> 4 @@ "5" :> 5
    @@ "-8" :> -8 @@ "-9" :> -9 @@ "-10" :> -10

OptionGroups == {
    <<"-max_files", "2">>, <<"-max_files", "-8">>, <<"-max_files", "0">>,
    <<"-max_files", "1">>, <<"-max_files", "-10">>, <<"-max_files", "-thumb_res">>,
    <<"-thumb_res", "1", "2">>, <<"-thumb_res", "2", "-9">>, <<"-thumb_res", "3", "1">>,
    <<"-small_res", "3", "2">>, <<"-small_res", "1", "4">>, <<"-small_res", "1">>,
    <<"-other">>}
CreateLines == {<<"create", "f">> \o g \o h : g \in OptionGroups \cup {<<>>}, h \in OptionGroups}
Illformed == {
    <<>>, <<"help">>, <<"dance">>, <<"list">>, <<"list", "f", "g">>, <<"create">>,
    <<"create", "-max_files", "-small_res", "2", "1">>,
    <<"delete", "f">>, <<"delete", "f", "">>, <<"delete", "f", "long">>,
    <<"insert", "f", "i">>, <<"read", "f">>}
    \cup {<<"read", "f", i, r>> : i \in ThreeIds, r \in {"small", "original"}}
Wellformed ==
    {<<"list", "f">>}
    \cup {<<"delete", "f", i>> : i \in ThreeIds}
    \cup {<<"delete", "f", i, "more">> : i \in ThreeIds}
    \cup {<<"insert", "f", i, p>> : i \in ThreeIds, p \in {cat, dog, bad, "nowhere"}}
    \cup {<<"read", "f", i>> : i \in ThreeIds}
    \cup {<<"read", "f", i, r>> : i \in ThreeIds, r \in {"thumb", "tiny"}}
OtherCreates == {<<"create", "f">>, <<"create", "f", "-thumb_res", "2", "1">>,
                 <<"create", "f", "-small_res", "0", "1">>}
AllLines == OtherCreates \cup Wellformed
EarlyLines == CreateLines \cup Illformed
=============================================================================
