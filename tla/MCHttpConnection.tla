-------------------------- MODULE MCHttpConnection --------------------------
(* HttpConnection for TLC.                                                 *)
EXTENDS HttpConnection

Request(op, size, body) == [op |-> op, head |-> size, length |-> body, body |-> body]

\* A request of each kind; the last one does not fit the buffer, and the
\* head of the websocket leaves just the room for the longest frame header.
MCRequests ==
    {Request("plain", 2, 0), Request("page", 2, 0), Request("bad", 2, 0),
     Request("pin", 2, 2), Request("form", 2, 3), Request("socket", 2, 0),
     Request("page", 20, 0)}

Frame(op, size) == [op |-> op, size |-> size]

\* Payloads of each length class.
MCFrames ==
    {Frame("text", 1), Frame("text", 2), Frame("text", 3),
     Frame("ping", 0), Frame("close", 1)}
=============================================================================
