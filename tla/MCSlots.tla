------------------------------ MODULE MCSlots ------------------------------
EXTENDS Slots

CONSTANTS ra, rb, rc, main, reviewClaude, judge

MCTwo == {ra, rb}
MCThree == {ra, rb, rc}
MCClient == {main, reviewClaude}
MCMainOnly == {main}
MCJudge == {judge}
MCAll == {main, reviewClaude, judge}
=============================================================================
