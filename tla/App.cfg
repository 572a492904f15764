CONSTANTS
    Calls = {c1, c2}
    MaxAnimations = 3
SPECIFICATION AppFairSpec
INVARIANTS NoTabWithoutUser LoginOverFreshTabs LoginPresentedOnce NeverTrapped SettlesInOneMode
PROPERTIES SignedOutSeesLogin AnswersKeepToLogin LoginLeavesSignedIn
