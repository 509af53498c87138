---------------------------- MODULE MCHttpExchange ----------------------------
(* Two requests over up to two connections; the kinds of request cover both
   framings, an empty chunk, a body over the limit, HEAD and every Expect, and
   handlers answer with a body, without one and with an interim response.  A
   body of several chunks comes from Connection::write_request_stream. *)
EXTENDS HttpExchange

Req(chunked, chunks, expect, keep) ==
    [head |-> FALSE, chunked |-> chunked, chunks |-> chunks, expect |-> expect, keep |-> keep]
MCRequestKinds ==
    {Req(FALSE, <<1>>, "continue", TRUE), Req(TRUE, <<1>>, "continue", TRUE),
     Req(TRUE, <<0>>, "none", TRUE), Req(TRUE, <<1, 1>>, "none", TRUE),
     Req(FALSE, <<1>>, "other", TRUE),
     [Req(FALSE, <<>>, "none", FALSE) EXCEPT !.head = TRUE]}

Resp(status, chunked, chunks, keep) ==
    [status |-> status, chunked |-> chunked, chunks |-> chunks, keep |-> keep]
MCResponseKinds ==
    {Resp("ok", TRUE, <<1>>, TRUE), Resp("nobody", TRUE, <<1>>, TRUE),
     Resp("informational", FALSE, <<1>>, TRUE), Resp("continue", FALSE, <<>>, TRUE)}
=============================================================================
