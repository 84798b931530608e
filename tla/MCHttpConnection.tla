------------------------- MODULE MCHttpConnection --------------------------
(* Small instances of HttpConnection for TLC: a request of each kind.      *)
EXTENDS HttpConnection

Plain == <<"get", "eol", "eol">>
Post == <<"get", "eol", "clen", "eol", "eol", "data">>
LongHeader == <<"get", "eol", "head", "eol", "head", "eol", "eol", "data", "data">>
LongPost == <<"head", "eol", "head", "eol", "head", "eol",
              "get", "eol", "clen", "eol", "eol", "data", "data", "data">>
Binary == <<"data", "data", "nul", "data", "data", "data", "nul",
            "get", "eol", "eol", "data">>
AllStreams == {Plain, Post, LongHeader, LongPost, Binary}
=============================================================================
