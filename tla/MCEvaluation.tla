---------------------------- MODULE MCEvaluation -----------------------------
EXTENDS EvaluationProperties
CONSTANTS e1, e2, t1, f1, w1, w2
MCStructures == {{<<e1, t1>>, <<e2, t1>>}, {<<e2, t1>>}}
MCTakes(w)   == IF w = w1 THEN {"submit", "admin"} ELSE {"reopen", "sync"}
==============================================================================
