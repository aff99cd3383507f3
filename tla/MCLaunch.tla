------------------------------ MODULE MCLaunch ------------------------------
(* Launch with every text of up to MaxText characters as a log level and as *)
(* a path, longer ones of special characters, every pair of short ones, and *)
(* the command lines clap tells apart.                                      *)
EXTENDS Launch

CONSTANTS MaxText, MaxPair

\* A panic, and an exception, whose code is negative as an i32.
MCCrashCodes == {101, -1}

Chars == {"plain", Space, Newline, Quote, Backslash, Surrogate}
Texts(n, chars) == UNION {[1 .. k -> chars] : k \in 0 .. n}

MCVectors ==
    {<<>>, <<Install>>, <<Uninstall>>, <<Install, Uninstall>>, <<Install, Flag("--log-dir"), Flag("plain")>>,
     <<Uninstall, Flag("--log-keep"), Flag("3")>>, <<Flag("--log-level")>>, <<Flag("plain")>>,
     <<Flag("--log-level"), Install>>, <<Install, Install>>}
    \cup {<<name, n>> : name \in DOMAIN Minimum, n \in DOMAIN Numerals}
    \cup {<<Flag("--child-timeout-secs"), Flag("3"), Flag("--period-secs"), n>> : n \in DOMAIN Numerals}
    \cup {<<name, text>> : name \in {Flag("--log-level"), Flag("--log-dir")}, text \in Texts(MaxText, Chars)}
    \cup {<<Flag("--log-level"), text>> : text \in Texts(MaxText + 2, {Quote, Backslash, Space})}
    \cup {<<Flag("--log-level"), text>> : text \in Texts(MaxText + 4, {Quote, Backslash})}
    \cup {<<Flag("--child-path"), s, Flag("--log-level"), t>> :
              s, t \in Texts(MaxPair, {Quote, Backslash, Space})}
=============================================================================
