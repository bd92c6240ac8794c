---------------------------- MODULE MCTcpClient -----------------------------
(* TcpClient with one setting per delay policy, one of them with a limit   *)
(* on the retries.                                                         *)
EXTENDS TcpClient

Setting(min, max, policy, cnt) ==
    [min_delay |-> min, max_delay |-> max, delay_policy |-> policy, max_retry_cnt |-> cnt]

MCSettings == {Setting(1, 3, 2, INFINITE), Setting(1, 2, 1, INFINITE), Setting(2, 5, 0, 2)}

\* "restart" and "unsent_close" kept apart
MCUses == {{"restart"}, {"unsent_close"}, {"emfile"}}

\* ... and together
MCBoth == {{"restart", "unsent_close"}}

=============================================================================
