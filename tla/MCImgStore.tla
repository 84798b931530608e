----------------------------- MODULE MCImgStore -----------------------------
(* Small instances of ImgStore for TLC.                                    *)
EXTENDS ImgStore, TLC

CONSTANTS i1, i2, cat, dog, bad

AllCalls == {"create", "insert", "delete", "read", "list"}
TwoIds == {i1, i2}
TwoContents == {cat, dog}
Interchangeable == Permutations({i1, i2}) \cup Permutations({cat, dog})
OneBad == {bad}
ThumbAndOrig == {THUMB_RES, ORIG_RES}
ThumbOrigAndWrong == {THUMB_RES, ORIG_RES, 3}
=============================================================================
