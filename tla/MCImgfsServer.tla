--------------------------- MODULE MCImgfsServer ----------------------------
(* Small instances of ImgfsServer for TLC.                                 *)
EXTENDS ImgfsServer

CONSTANTS t1, t2, a

TwoThreads == {t1, t2}
OneId == {a}
AllRequests == {"index", "list", "read", "delete", "insert", "unknown"}
ListAndRead == {"list", "read"}
NoList == AllRequests \ {"list"}
=============================================================================
