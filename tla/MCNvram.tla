------------------------------- MODULE MCNvram -------------------------------
(* A small instance of Nvram: two plain names in one bucket, one special in
   another; a short and a long value.  The long one is no number, so the
   header keeps the short one for it. *)
EXTENDS Nvram, TLC

CONSTANTS p, q, a, b, s, short, long

MCNameLen == (a :> 1) @@ (b :> 1) @@ (s :> 1)
MCValLen == (short :> 1) @@ (long :> 6)
MCCanon == (short :> short) @@ (long :> short)
MCBucket == (a :> 0) @@ (b :> 0) @@ (s :> 1)
MCSpecialSeq == <<s>>

\* an image of the boot loader, without and with tuples
MCFlash0 ==
  {[state |-> "ok", data |-> <<>>, hdr |-> s :> short, len |-> 24],
   [state |-> "ok", data |-> <<<<a, short>>, <<b, short>>>>, hdr |-> s :> short, len |-> 32]}

\* nothing, or two tuples of one name
MCFragments == {<<>>, <<<<a, long>>, <<a, short>>>>}

\* one command at a time: all there are; together: a user who lengthens a
\* and commits, and a script that removes b or only commits
MCCommands ==
  (TRUE :> ((p :> Ops) @@ (q :> {}))) @@
  (FALSE :> ((p :> {[kind |-> "set", name |-> a, value |-> long, commit |-> TRUE]}) @@
             (q :> {[kind |-> "unset", name |-> b, commit |-> FALSE],
                    [kind |-> "get", commit |-> TRUE]})))
===============================================================================
