---------------------------- MODULE MCHttpClient ----------------------------
(* Instances of HttpClient for TLC.                                        *)
EXTENDS HttpClient

H(line) == [line |-> line, n |-> 0]
CL(n)   == [line |-> "length", n |-> n]
R(status, headers, body) == [status |-> status, headers |-> headers, body |-> body]

\* A Content-Length that is right, too large, too small, wrapped around, no
\* number, given twice or absent; lines without a colon; too many headers.
ServerReplies ==
  { R("status", <<CL(2)>>, 2), R("status", <<H("plain"), CL(3)>>, 2), R("status", <<CL(1)>>, 2),
    R("status", <<CL(5)>>, 2), R("status", <<H("badlength"), CL(1)>>, 2),
    R("status", <<CL(2), CL(0)>>, 2), R("status", <<>>, 1), R("status", <<H("junk"), H("junk"), H("junk")>>, 0),
    R("status", <<H("plain"), H("junk"), H("plain"), CL(1)>>, 1), R("badstatus", <<H("plain")>>, 1) }

=============================================================================
