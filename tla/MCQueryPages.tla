---------------------------- MODULE MCQueryPages ----------------------------
(* Instances of QueryPages for TLC.                                         *)
EXTENDS QueryPages

(* Three rows of one time, and two of times of their own.  The text of the  *)
(* first has a fraction in pages_browse.                                    *)
Text_   == <<1, 2, 2, 2, 3>>
Time_   == <<5, 10, 10, 10, 20>>
Rank_   == <<1, 2, 3, 4, 5>>
Digest_ == <<"a", "b", "c", "d", "e">>

(* By offset a page is one row, the only size at which counting pages is    *)
(* counting rows; or two rows.                                              *)
SafeQueries   == {<<"marker", 1>>, <<"marker", 2>>, <<"marker", 3>>,
                  <<"offset", 1>>}
OffsetQueries == {<<"offset", 2>>}

=============================================================================
