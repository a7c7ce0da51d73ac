------------------------------- MODULE PathKey -------------------------------
(***************************************************************************)
(* internal/pathkey: how a session's (name, path) becomes the name of its  *)
(* tmux session.  Names and paths are sequences of one-character strings;  *)
(* the constant prefix "muxac-" is the same for every session and is left  *)
(* out.                                                                    *)
(***************************************************************************)
EXTENDS Sequences

\* strings.ReplaceAll of "/" by "@", then of "." by "_".
FromDir(dir) ==
    [i \in DOMAIN dir |->
        CASE dir[i] = "/" -> "@"
          [] dir[i] = "." -> "_"
          [] OTHER        -> dir[i]]

TmuxSessionName(k) == k.name \o FromDir(k.path)

\* No two of these keys share a tmux session name.
DistinctNames(keys) ==
    \A j, k \in keys : TmuxSessionName(j) = TmuxSessionName(k) => j = k
=============================================================================
