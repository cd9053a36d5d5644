----------------------------- MODULE MCHdlStream -----------------------------
(* A small instance of HdlStream for TLC.                                     *)
EXTENDS HdlStream

Path(host, parts, slash) == [host |-> host, parts |-> parts, slash |-> slash]
MCRegistrations ==
    { [pattern |-> Path("", <<>>, TRUE), serves |-> "file"],
      [pattern |-> Path("", <<"live">>, TRUE), serves |-> "live"],
      [pattern |-> Path("", <<"live">>, FALSE), serves |-> "file"],
      [pattern |-> Path("vhost", <<"live">>, TRUE), serves |-> "live"] }
MCRequests ==
    { Path("vhost", <<"live">>, TRUE), Path("", <<"live">>, FALSE), Path("", <<"live", "a">>, FALSE) }
Tag(i, type, size, time) == [id |-> i, type |-> type, size |-> size, time |-> time]
MCScripts ==
    { << Tag(1, "script", 1, 3), Tag(2, "video", 2, 9) >>,
      << Tag(1, "other", 1, 0), Tag(2, "audio", 1, 1) >>,
      << Tag(1, "audio", 0, 1) >> }
MCMisread == {-1, 0, 2}
MCBadTags ==
    { [type |-> "video", size |-> 1, time |-> 5, data |-> <<>>],
      [type |-> "other", size |-> 0, time |-> 0, data |-> <<>>] }
=============================================================================
