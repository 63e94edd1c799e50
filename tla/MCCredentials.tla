--------------------------- MODULE MCCredentials ---------------------------
(* Model-checking instance of Credentials: two clients around one          *)
(* caller-owned http.Client or their own, an explicit token file and the   *)
(* default one.                                                            *)
EXTENDS Credentials, TLC

CONSTANTS c1, c2, i1, i2, i3

Token(name, size) == [name |-> name, size |-> size, clean |-> TRUE]
Body(t, space) == [token |-> t, space |-> space]

home  == [scheme |-> "http", host |-> "daemon"]
https == [scheme |-> "https", host |-> "daemon"]
other == [scheme |-> "http", host |-> "other"]

MCOrigins == {home, https, other}

OptionList(os) == [listen |-> home, options |-> os]

FromFile  == <<WithTokenFile("explicit"), WithToken(Token("option", 6)), WithHTTPClient>>
FromToken == <<WithHTTPClient, WithToken(Token("option", 6))>>

Others == {
    <<WithBaseURL(https)>>,
    <<WithToken(Anonymous), WithHTTPClient>>,
    <<WithToken(Token("long", 257))>>,
    <<WithTokenFile("")>>,
    <<WithToken(Token("option", 6)), WithBaseURL([scheme |-> "ftp", host |-> "daemon"])>> }

MCSetups ==
    { c1 :> OptionList(p[1]) @@ c2 :> OptionList(p[2]) :
        p \in ({FromToken} \X ({FromFile} \cup Others)) \cup {<<FromFile, <<>>>>} }

MCEnvironments ==
    { [token |-> Anonymous, marked |-> FALSE, home |-> TRUE],
      [token |-> Anonymous, marked |-> FALSE, home |-> FALSE],
      [token |-> Anonymous, marked |-> TRUE, home |-> TRUE],
      [token |-> Token("env", 3), marked |-> TRUE, home |-> TRUE] }

MCBodies == { Body(Token("file", 256), 1), Body(Anonymous, 0) }

Regular(name, private) ==
    [kind |-> "regular", private |-> private, body |-> Body(Token(name, 256), 1)]

MCInitialFiles ==
    { [names |-> "explicit" :> i1 @@ DefaultPath :> n,
       inode |-> i1 :> Regular("first", FALSE) @@ i2 :> Regular("second", TRUE)
                   @@ i3 :> [Regular("none", TRUE) EXCEPT !.kind = "fifo"]]
      : n \in {i2, Missing} }
=============================================================================
