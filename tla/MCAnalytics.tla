---------------------------- MODULE MCAnalytics -----------------------------
EXTENDS Analytics

MCAgents == {[browser |-> "Firefox", kind |-> "mobile"], [browser |-> "Firefox", kind |-> "bot"]}

MCRanges == {[ago |-> Absent, span |-> Absent, bucket |-> "day"],
             [ago |-> 1, span |-> 2, bucket |-> "hour"],
             [ago |-> 0, span |-> 4, bucket |-> "week"],
             [ago |-> 0, span |-> 0, bucket |-> "hour"],
             [ago |-> 0, span |-> 9, bucket |-> "hour"]}
=============================================================================
