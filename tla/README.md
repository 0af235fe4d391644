# TLA+ models of vibeshop_project

The repository holds two programs that share the Convex backend platform:

* **vibeshop**, a Next.js storefront (`src/appAll/vibeshop`). Visitors browse
  categories and products; these are Convex queries in `convex/products.ts`.
  They order a product on the checkout page `app/checkout/[id]/page.tsx`,
  which stores the order with the `createOrder` mutation.
* **a slice of the Convex dashboard** (`src/appAll/convex-backend/npm-packages`).
  The largest piece is the OAuth implicit-grant authorization page
  `dashboard/src/components/AuthorizeProject.tsx`. A third-party application
  sends the user there with `client_id`, `redirect_uri`, `state` and
  `response_type`. The user picks a team and a project, creating one if
  needed with `CreateProjectForm` (`hooks/useCreateProjectModal.tsx`). The
  page then asks the API server for a team access token and redirects back
  with `#access_token=...&token_type=bearer&state=...`, or with
  `#error=...`. The project settings' `AuthorizedApplications.tsx` lists
  the app tokens so granted and revokes them. The other dashboard files are
  UI, tests, fixtures and generated code.

## How the parts interact, and what is hard

The **authorize page** is a React component with several asynchronous
sources of events:

* user clicks on the team and project comboboxes, "Create a new project",
  the creation form, Cancel and Authorize;
* the project list, a cache polled every 30 s (`useProjects(team.id, 30000)`);
* the `createProject` request of the creation form;
* the `createTeamAccessToken` request, awaited inside formik's `onSubmit`;
* the browser leaving the page after `router.replace` or `router.push`.

The page reads `team`, `projects` and the selection in the render where the
click happened, and uses them after the await. Cancel is enabled while the
request is in flight, and a team switch keeps the selected project. The
correctness questions are therefore about interleavings:

* Where may the app be redirected?
* Which token may it receive, and how many?
* Does every Authorize click end in an answer?

The **checkout page** is a form whose derived values `totalPrice` and
`canOrder` are kept by effects. `handleOrderCreation` snapshots the form,
awaits `createOrder` (one Convex transaction), then shows a 5 s loading
overlay and the confirmation. The hard parts are:

* the resets when the wilaya or the delivery type changes;
* the phone conversion: the input is filtered to digits, checked by
  `/^0\d{9}$/`, and stored as `parseInt`;
* edits made while the mutation is in flight;
* the error path.

The **storefront** pages all read the products table through one Convex
client, so every query on screen shows the same snapshot. The layout's
header, with the category side panel and the search form, stays mounted
while the shopper moves between the home page, the category list, a
category page and the search page.
Products are inserted and deleted from outside while a page is open. The
questions are whether the pagination, the slides and the search results
stay right for every table, and whether the loading states and the side
panel's copied state ever catch up.

The **authorized applications** list keys its rows by index. React keeps a
row's dialog and spinner with its position, so when the list changes under
an open dialog the dialog belongs to another token.

## Modules

| Module | Models | State / actions |
|---|---|---|
| `OAuthConfig` | `validateOAuthConfig` (lines 313-377) and `buildOAuthRedirectUrl` (379-408) of AuthorizeProject.tsx | Constant operators. A query is a record `[clientId, redirectUri, state, responseType]`. A URL is a record `[uri, fragment]`, where the fragment is the sequence of key/value pairs in the order the code pushes them. `NoUri` and `NoState` stand for absent parameters; `""` is a present but empty state. It also holds the reference `RefError`/`RefTarget`, written from the validation rules of the design (spec section 4), which the authorize page's run compares the validator with. |
| `AuthorizeProject` | the whole authorize page, with the creation form | Variables mirror the component's state: `selected` (selectedProjectId), `showProjectForm`, `didCreateProject`, `isRedirecting`, and formik's `submitting`. `listed` is the useProjects cache per team, and `projects` is the server's truth. `request` is the `createTeamAccessToken` call (sent, ok, failed, or lost answer). `minted` is the set of tokens the server issued, `nav` the sequence of redirects the page started, and `unloaded` means the browser has left. There is one action per handler: `RenderError`, `SelectTeam`, `SelectProject`, `OpenProjectForm`, `CloseProjectForm`, `SubmitCreateProject`, `CreateProjectDone`/`Failed`, `Authorize` (onSubmit up to the await), `TokenReply` (after the await), and `Cancel`. The environment actions are `RefreshProjects`, `ServerMint`/`ServerReject` and `Leave`. |
| `OAuthGrant` | what the authorize page promises, without its UI | `client` (fixed), `owned` (the teams' projects), `granted` (at most one token, for an owned project) and `answers` (the redirects, each at an allowed URI, a token in one being granted). Actions `CreateProject`, `GrantToken`, `Answer`. |
| `MCAuthorizeProject` | two teams (projects p1, p2 and p3), creatable projects n1 (and n2 for the limit run), one client with one allowed and one foreign URI; the page is opened with every query of that universe | |
| `Checkout` | CheckoutPage and `createOrder` (products.ts 185-238) | Variables are the page's `useState`s that change behaviour, plus `call` (the awaited mutation: sent, done or failed) and `orders` (the table). `totalPrice` and `canOrder` are operators: React 18 runs the effects after each discrete event, before the next one. The actions are the quantity buttons, the name, phone, address and coupon inputs, `handleWilayaChange`, `handleDeliveryTypeChange`, `handleApplyCoupon`/`handleRemoveCoupon`, `handleOrderCreation` (up to the await), `createOrder`/`createOrderThrows` (the server transaction), `handleOrderCreationResume` (after the await, with the `finally`) and `LoadingTimeout` (the `setTimeout`). `parseInt` is modelled by what it does on digit strings: leading zeros vanish, and the empty string gives `NaN`. `productLoaded` with `ProductLoad` is the `getProductById` query: until it answers the page shows its loader and no handler runs. `Confirmation` is what the confirmation card reads from the page's state once it is shown. |
| `MCCheckout` | two wilayas with different home and office tariffs, 2-digit phones over {0, 5} with a non-digit "-", names and addresses that include a blank " ", coupon codes "", "ramadan" and "NOEL" | |
| `Catalog` | the queries of `products.ts` (`getProductsByCategory`, `getProductCountByCategory`, `getProductsByCategoryPaginated`, `getCategoryAndProductCount`, margin pricing); the category page `category/[id]/page.tsx`; the home page's `SlideByCategory` | `table` is the products table in creation order (the `by_category` index order). The Convex client shows all of a page's queries at one snapshot, `seen`, which `QueryUpdate` moves to the current table. `currentPage` and `pageLoaded` model the paginated useQuery, which returns undefined after its arguments change. `InsertProduct` and `DeleteProduct` are writes made from outside (the Convex dashboard). `PrevPage`, `NextPage` and `GoToPage` are the pagination buttons with their `disabled` props and checks. The queries are operators on a table, and JS `slice` and `Math.ceil` are modelled by what they do. |
| `MCCatalog` (module and cfgs) | two categories; three products of the viewed category with two per page, so there are two pages and a two-card slide overflows; one product of the other category, which can become empty; prices on both sides of `PRICE_ABOVE` | |
| `ProductPage` | `product/[id]/page.tsx`, `ImagePreview.tsx` and the Facebook pixel script of `layout.tsx` | For each kind of image list, `images` and `real_images`: `count` (the list length), `index` (selectedImageIndex / selectedRealImageIndex) and `open` (the preview overlay). `stable` is a history variable: the list has not changed since the preview opened. `isLoading`, `timers` and `navigations` model the buy button's `await` of a 2 s delay, followed by `window.location.href` and the `finally`. `ProductChanged` is the reactive product query delivering edited lists. `pixel` is `typeof window.fbq === "function"`, set by `PixelLoad` (the layout's afterInteractive script, which also tracks PageView). `tracked` is the `hasTrackedViewContent` ref. `pixelEvents` is a history of the events passed to `fbq`, in order. The ViewContent effect (`TrackViewContent`) is part of `Load` and `ProductChanged`, the renders that give it a new product. `ToggleDescription` is "Read more" / "Show less". |
| `Storefront` (extends `Catalog`) | `Header.tsx`, `SidePanel.tsx`, `SearchBar.tsx`, `app/search/page.tsx`, `SearchContent.tsx`, `searchProducts` (products.ts 268-302), `app/page.tsx` (home), `app/category/page.tsx` (category list), composed with Catalog's category page | `location` (home, list, category page, search page or elsewhere), `countsLoaded` (the home or list page's `getCategoryAndProductCount` has a result), `q`, `searchLoaded` (the search useQuery has a result), `isPanelOpen`, `panelSynced` (SidePanel's `categories` state holds the query's data), `showMobileSearch`. `Deliver` is the Convex client answering every mounted query at the table's state (Catalog's `QueryUpdate`, or the search, home or list page's query alone). `SyncCategories` is SidePanel's effect, run after the render that sees the data. The actions are the panel toggle and close, a category link of the panel, the header logo (`GoHome`), home's category links and its "all categories" tile, the list's category links, the mobile search toggle, a search submit from either form, and leaving for a product page. A navigation to another URL mounts the page anew and its queries start unanswered; one to the same URL keeps it. A name is a sequence of characters; `toLowerCase` and `includes` are modelled by what they do. |
| `MCStorefront` | Catalog's instance, names "Ab", "b", "aa", "BA" and queries "", "a", "B", "ab", so case folding, a multi-character match and a non-match all occur | |
| `AuthorizedApplications` | `projectSettings/AuthorizedApplications.tsx` and the confirmation dialog it uses | `server` (the tokens the API has), `list` (the `useProjectAppAccessTokens` cache), per row index `confirm`, `deleting` and `openedFor` (the token the row showed when Revoke was clicked, a history variable), and `calls`, the sequence of `deleteAppAccessTokenByName` calls with their phase (sent, ok, failed, done). Actions `Refresh` (revalidation; rows past the new length unmount), `ClickRevoke`, `CloseDialog`, `Confirm` (up to the await), `ServerDelete`, `Settle` (after the await, with the `finally`) and `RevokeElsewhere`. |
| `MCAuthorizedApplications` | three tokens, at most three calls | |

Phone numbers are shortened to `PhoneLen` digits. The regex becomes
`/^0\d{PhoneLen-1}$/`, which keeps what matters: a leading zero and an exact
length.

## Runs

| Run | Result | Shows |
|---|---|---|
| `authorize_page` | pass, about 16.2k states | `TypeOK`. `ValidateMatchesReference`: for every query the page can be opened with, the error and the redirect target are those the design prescribes (an unknown client, a missing URI or a URI outside the allow-list get `invalid_request` and no target; a wrong response type gets `unsupported_response_type` at the allowed URI). `RedirectsOnlyToAllowList`: every redirect goes to the client's allow-listed URI. `TokenLabelMatchesOwner`: every token sent was minted and is labelled with the team that owns the project, whatever team switches happen during the request. `AtMostOneTokenMinted`. `AuthorizeAnswered`: an Authorize click leads to a redirect. `GrantRefinement`: the page implements `OAuthGrant` (see below). |
| `authorize_cancel_race` | violation | `DeniedGrantsNoToken` fails. Authorize, then the server mints, then Cancel: the app is told `access_denied` while a token of this authorization exists. Cancel does not abort the pending `createTeamAccessToken`; the token reaches the app after the denial, or nobody if the page is gone, and stays among the project's authorized applications. |
| `authorize_project_limit` | violation | `CreatesWithinLimit` fails. `canCreateMoreProjects` reads the cached list: refresh, create a project, close the form while `createProject` is in flight, reopen it and create another. Two requests are out for the last free slot. |
| `checkout` | pass, about 379k states, under 2 min | `TypeOK`. `OrderDeliveryConsistent`: every stored order's total is product price × quantity + the tariff of its own wilaya and type (less at most the coupon); office orders carry that office's address and no exact address; home orders carry a non-blank exact address. `OrderPhoneCallable`: the stored number is not NaN and, with its leading 0 restored, is a valid phone. `OrderClickSettles`: the loading state always ends, on success and on a throw. |
| `checkout_confirmation` | violation | `ConfirmationShowsOrder` fails. Click order, then "+" while the mutation runs; the confirmation shows quantity 2 and the stored order has 1. |
| `storefront` | pass, about 143k states, about 1 min | Catalog's `TypeOK`. `PagesPartitionCategory`: for every table the catalog goes through, pages 1..totalPages, read in order, list each product of a category once and in index order, and no page in that range is empty. `SlideAccountsForAll`: a slide's cards plus its "Voir plus de N" count equal the category's total. `SearchResultsMatchReference`: the search page lists exactly the products of the shown snapshot whose name contains the query ignoring case, in table order, priced with the margin (the reference matches character by character).|
| `catalog_page_label` | violation | `PageLabelMatchesList` fails. Page 2 is open, a product is removed, and the page shows page 2 of 1 with no products and a range that names nothing. `currentPage` is never clamped. |
| `catalog_empty_slide` | violation | `SlideShownWhenLoaded` fails. `!totalProducts` takes a count of 0 for "not loaded", so an empty category's slide shows the skeleton forever. |
| `product_page` | pass, about 136k states, about 35 s | `TypeOK`. `PreviewShowsImage`: while the product is unchanged, previous, next and the thumbnails keep the index on an existing image (wrap-around at both ends, lists of 1 to 3 images). `ViewContentOnce`: however often the product is edited during the visit, ViewContent is tracked at most once; only the `hasTrackedViewContent` ref keeps the re-run effect from sending it again. |
| `product_preview_edited` | violation | `PreviewIndexInRange` fails. `real_images` shrinks to [] under an open preview; the index stays 0 and "previous" makes it -1. |
| `authorized_apps` | pass, about 94k states, under 1 min | `RevokeSettles`: every row spinner set by a confirm goes away, whether the call resolves or rejects and whatever the row shows by then.|
| `authorized_apps_shift` | violation | `RevokesTokenOpened` fails. A dialog is open on a token, an earlier token is revoked elsewhere and the list revalidates; the row at that index now shows the next token, and confirm revokes that one. |

### Refinement

`OAuthGrant` states what the authorize page promises the calling app, with
none of its React state. `AuthorizeProject` instantiates it with the mapping
`client <- query.clientId`, `owned <- projects`, `granted <- minted` and
`answers <-` the redirects the page started, each read back as its URI and
the `access_token` of its fragment (`AnswerOf`). `GrantRefinement`, the
abstract `Spec` as a property of the `authorize_page` run, checks that every
step of the page is a step of `OAuthGrant` or leaves the mapped state
unchanged. The mutant that sends the token request without checking that the
selected project is listed breaks it: the server mints a token for a
project the team does not own.

### Hazards not checked by a run

Eight issues met while modelling are described in `PROJECT.json`'s hazards
without a run of their own:
* `buildOAuthRedirectUrl` drops a present but empty `state`.
* A selection made stale by a refresh makes Authorize send `server_error`
  without any token call.
* The open side panel says "No categories available" for one render after
  the data arrives.
* The product page's buy button is re-enabled right after the navigation
  starts, so a second click navigates twice.
* The buy button's 2 s delay, and the category page's 500 ms one, are not
  cancelled when the shopper navigates away client-side in the meantime.
  The timer then takes the browser to the checkout from another page.
* ViewContent is never tracked when the product arrives before the pixel
  script has run.
* A revoked token stays listed until `useProjectAppAccessTokens`
  revalidates; that hook is not in the repository.
* The checkout tracks Purchase before `createOrder` is awaited, so a
  mutation that throws leaves a tracked purchase with no order.

Each property of a passing run has a mutant in `PROJECT.json`: a plausible
slip in the code that TLC catches under the run's own configuration.
Examples are checking the response type before the allow-list, keeping the
delivery type on a wilaya change, a phone regex without its leading 0,
`setIsLoading(false)` outside `finally`, a search that lowers the names but
not the query, and a ViewContent effect that ignores its ref.

### Bounds

* **Authorize page.** Two teams, so a team switch can make the selection
  stale. Three initial projects and one creatable project, with
  `MaxProjects = 3`, so `canCreateMoreProjects` is true for one team and
  false after a creation. Two URIs, one allowed and one not. Two response
  types and two states (absent, present). Every request and token path
  (ok, failed, lost) is reachable. The limit run adds a second creatable
  project id, so two creations can race for one slot.
* **Catalog.** `PRODUCTS_PER_PAGE = 2` and `SlideLimit = 2` stand in for
  10 and 8. With three products in the viewed category, the boundary cases
  (a count that is a multiple of the page size, a page after the last, an
  empty category, and a slide exactly at and above its limit) are all
  reached.
* **Storefront.** Catalog's instance, plus four names and four queries
  chosen so that a match needs case folding ("B" in "Ab"), one needs two
  characters ("ab" in "Ab" but not in "BA"), one matches nothing, and the
  empty query shows no results.
  The shopper starts at home or at the category page. From there every
  page is reached, and so is every return to a page already answered.
* **Authorized applications.** Three tokens, so an earlier one can leave the
  list while a later one's dialog is open and a row can unmount.
  `MaxCalls = 3` lets each row confirm once, or one row retry after a
  failure.
* **Product page.** `MaxImages = 3` and `MaxClicks = 2`. The pixel may load
  before or after the product, and the product may be edited any number of
  times, so the effect re-runs with and without the ref set.
* **Checkout.** `MaxQuantity = 2` is enough to make a quantity edit visible.
  `MaxOrders = 1` bounds the orders table. The names, addresses and codes
  each include a blank or wrong value, so every conjunct of `canOrder` and
  both coupon branches are exercised.

### Fairness

* **Authorize page.** Weak fairness is assumed only for what the
  environment guarantees: the API server answers (`ServerMint` or
  `ServerReject`), the awaiting handler resumes (`TokenReply`), the browser
  performs a started navigation (`Leave`), and React commits the error
  render's redirect (`RenderError`). User actions have no fairness: a user
  may stop at any time.
* **Catalog and storefront.** No fairness: every property checked is an
  invariant. A property that a loader or the side panel eventually catches
  up would hold only because the Convex client is assumed to deliver.
* **Authorized applications.** The API answers each call and each promise
  settles. The cache of `useProjectAppAccessTokens` (not in the repository)
  is not assumed to revalidate. Fairness is per call
  (`ServerDelete(k)`, `Settle(k)` for every index k): the calls are a
  sequence, so that two identical calls stay two. A weak fairness over "some
  call" would let one call wait forever while another is served. The user is
  not assumed to act. `CHECK_DEADLOCK FALSE`: when every call is done and
  every token is gone the page idles.
* **Product page.** No fairness: its properties are invariants. The catalog
  violation runs and the product runs set `CHECK_DEADLOCK FALSE`: once
  every product id is used and nothing is left to click, a page simply
  idles.
* **Checkout.** The Convex backend answers every mutation (the client
  retries until it does) and the product query, the continuation runs, and
  the browser fires the timer.

## Not modelled

* The storefront's static components (footer, product card,
  configuration; of the layout, only its Header and its pixel script have
  state, and both are modelled), the dashboard's `TeamUsageToolbar`
  and settings pages, and `FunctionsProvider`. `FunctionsProvider` only hands
  the data of hooks that are not in the repository to a tree generator that
  is not either; its `displayNameToIdentifier` is string formatting with no
  state. Their entries in `PROJECT.json` give the reasons.
* The external services: the Convex runtime, the dashboard API server and
  its project-count limit, and LaunchDarkly's provider configuration. They
  appear only as the environment actions above.
* `livrison.json` and `convex/constants.ts`, which are not in the
  repository. The tariffs, the margins and `PROMO_DISCOUNT` are constants of
  the checkout model.

## Plan for the remaining work

1. A run for the state echo of `buildOAuthRedirectUrl`, over queries with an
   empty `state`.
2. Compose `AuthorizedApplications` with the token server of
   `AuthorizeProject`, so that a token granted on the authorize page is the
   one listed and revoked.
3. Larger instances of the storefront: a second viewed category and longer
   names.
4. A deeper property tying the home page's slide counts to the category
   page a "Voir plus" card opens, across a table change.
5. Compose the product page's pending buy timer with Storefront's
   navigation, so that a timer firing after the shopper left is a step of
   the model.
